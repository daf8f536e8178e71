---------------------------- MODULE StreamContract ----------------------------
(***************************************************************************)
(* What a multiplexed stream promises its users, with no frames, tables,   *)
(* queues or markers: payloads arrive once and in order; who has read the  *)
(* end of a stream has read all of it, unless he closed his own end or the *)
(* stream was cut; and whatever happens to it, nothing else is ever read.  *)
(***************************************************************************)
EXTENDS Naturals, Sequences

CONSTANTS Ends,      \* the two ends of a connection
          Other,     \* end -> the end at the other side
          Channels

VARIABLES written,   \* end -> channel -> number of payloads written
          got,       \* end -> channel -> payloads read
          shut,      \* end -> channels it closed
          over,      \* end -> channels whose end it has read
          cut        \* channels reset, or whose connection or session ended

contractVars == <<written, got, shut, over, cut>>

ContractInit ==
    /\ written = [e \in Ends |-> [c \in Channels |-> 0]]
    /\ got = [e \in Ends |-> [c \in Channels |-> <<>>]]
    /\ shut = [e \in Ends |-> {}]
    /\ over = [e \in Ends |-> {}]
    /\ cut = {}

\* A payload is written at an end that is open; the n-th one is n.
Put(e, c) ==
    /\ c \notin shut[e]
    /\ written' = [written EXCEPT ![e][c] = @ + 1]
    /\ UNCHANGED <<got, shut, over, cut>>

\* The next payload the other end wrote is read.
Deliver(e, c) ==
    /\ c \notin over[e]
    /\ Len(got[e][c]) < written[Other[e]][c]
    /\ got' = [got EXCEPT ![e][c] = Append(@, Len(@) + 1)]
    /\ UNCHANGED <<written, shut, over, cut>>

\* An end is closed; a reset also cuts the channel.
Shut(e, c) ==
    /\ c \notin shut[e]
    /\ shut' = [shut EXCEPT ![e] = @ \cup {c}]
    /\ cut' \in {cut, cut \cup {c}}
    /\ UNCHANGED <<written, got, over>>

\* The end of a channel is read.
Finish(e, c) ==
    /\ c \notin over[e]
    /\ \/ c \in shut[e] \cup cut
       \/ /\ c \in shut[Other[e]]
          /\ Len(got[e][c]) = written[Other[e]][c]
    /\ over' = [over EXCEPT ![e] = @ \cup {c}]
    /\ UNCHANGED <<written, got, shut, cut>>

\* A session or the connection ends, and with it all channels.
CutAll ==
    /\ cut' = Channels
    /\ UNCHANGED <<written, got, shut, over>>

ContractNext ==
    \/ \E e \in Ends, c \in Channels :
          Put(e, c) \/ Deliver(e, c) \/ Shut(e, c) \/ Finish(e, c)
    \/ CutAll

ContractSpec == ContractInit /\ [][ContractNext]_contractVars
===============================================================================
