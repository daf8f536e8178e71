----------------------------- MODULE YamuxSession -----------------------------
(***************************************************************************)
(* yamux/session.py and yamux/stream.py: the two sessions at the ends of   *)
(* one connection, and the streams multiplexed over it.                    *)
(*                                                                         *)
(* The connection carries frames in order.  A frame is on the wire once    *)
(* its write_frame has been called: write_lock serves its waiters first    *)
(* come first served, so frames leave in the order of the calls.  The read *)
(* loop of a session handles one frame after the other.                    *)
(*                                                                         *)
(* A stream is named by its id on both sides.  The payload of the n-th     *)
(* write on a stream is the number n.                                      *)
(***************************************************************************)
EXTENDS Integers, Sequences

CONSTANTS
    MaxOpen,   \* bound of the model: how many streams each side opens
    MaxData,   \* bound of the model: how often each side writes on a stream
    Foreign,   \* frames this code handles and never sends; a peer written in
               \* another language may: any of "RST", "PING", "GO_AWAY"
    MayClose,  \* whether a program closes its session
    MayLose    \* whether the connection may break

Sides == {"client", "server"}
Peer(s) == IF s = "client" THEN "server" ELSE "client"

\* The client opens streams 1, 3, 5..., the server 2, 4, 6...
FirstId(s) == IF s = "client" THEN 1 ELSE 2
OwnIds(s) == {FirstId(s) + 2 * k : k \in 0..(MaxOpen[s] - 1)}
StreamIds == OwnIds("client") \cup OwnIds("server")

ASSUME SessionAssumption ==
    /\ MaxOpen \in [Sides -> Nat]
    /\ MaxData \in [Sides -> Nat]
    /\ Foreign \subseteq {"RST", "PING", "GO_AWAY"}
    /\ {MayClose, MayLose} \subseteq BOOLEAN

Writes == 1..MaxData["client"] \cup 1..MaxData["server"]

EOF == 0   \* the marker None in a read queue

VARIABLES
    running,         \* side -> has close() not been called
    finished,        \* side -> has close() ended the streams
    reading,         \* side -> is the read loop alive
    next_stream_id,  \* side -> id of the next stream it opens
    streams,         \* side -> ids in the session's table
    accept_queue,    \* side -> streams opened by the peer, not yet accepted
    owned,           \* side -> streams some task has opened or accepted
    closed,          \* side -> streams closed locally
    marking,         \* side -> streams whose close() will queue its marker
    waiting,         \* side -> streams whose reader is at the queue
    remote_closed,   \* side -> streams on which on_fin was called
    read_queue,      \* side -> stream -> payloads and markers fed, not yet read
    connected,       \* has the connection not been lost
    wire,            \* side -> frames it has sent, not yet handled by the peer
    sent,            \* history: side -> stream -> number of writes
    received,        \* history: side -> stream -> payloads read
    ended,           \* history: side -> streams on which read() returned b""
    reset            \* history: streams that were reset

sessionVars ==
    <<running, finished, reading, next_stream_id, streams, accept_queue>>
streamVars == <<owned, closed, marking, waiting, remote_closed, read_queue>>
history == <<sent, received, ended, reset>>
vars == <<sessionVars, streamVars, connected, wire, history>>

Frames ==
    [flag : {"SYN", "FIN", "RST"}, id : StreamIds]
        \cup [flag : {"DATA"}, id : StreamIds, payload : Writes]
        \cup [flag : {"PING", "PONG", "GO_AWAY"}]

TypeOK ==
    /\ running \in [Sides -> BOOLEAN]
    /\ finished \in [Sides -> BOOLEAN]
    /\ reading \in [Sides -> BOOLEAN]
    /\ next_stream_id \in [Sides -> Nat]
    /\ \A s \in Sides : next_stream_id[s] % 2 = FirstId(s) % 2
    /\ streams \in [Sides -> SUBSET StreamIds]
    /\ owned \in [Sides -> SUBSET StreamIds]
    /\ closed \in [Sides -> SUBSET StreamIds]
    /\ marking \in [Sides -> SUBSET StreamIds]
    /\ waiting \in [Sides -> SUBSET StreamIds]
    /\ remote_closed \in [Sides -> SUBSET StreamIds]
    /\ ended \in [Sides -> SUBSET StreamIds]
    /\ accept_queue \in [Sides -> Seq(StreamIds)]
    /\ read_queue \in [Sides -> [StreamIds -> Seq(Writes \cup {EOF})]]
    /\ connected \in BOOLEAN
    /\ wire \in [Sides -> Seq(Frames)]
    /\ sent \in [Sides -> [StreamIds -> Writes \cup {0}]]
    /\ received \in [Sides -> [StreamIds -> Seq(Writes)]]
    /\ reset \subseteq StreamIds

Init ==
    /\ running = [s \in Sides |-> TRUE]
    /\ finished = [s \in Sides |-> FALSE]
    /\ reading = [s \in Sides |-> TRUE]
    /\ next_stream_id = [s \in Sides |-> FirstId(s)]
    /\ streams = [s \in Sides |-> {}]
    /\ accept_queue = [s \in Sides |-> <<>>]
    /\ owned = [s \in Sides |-> {}]
    /\ closed = [s \in Sides |-> {}]
    /\ marking = [s \in Sides |-> {}]
    /\ waiting = [s \in Sides |-> {}]
    /\ remote_closed = [s \in Sides |-> {}]
    /\ read_queue = [s \in Sides |-> [i \in StreamIds |-> <<>>]]
    /\ connected = TRUE
    /\ wire = [s \in Sides |-> <<>>]
    /\ sent = [s \in Sides |-> [i \in StreamIds |-> 0]]
    /\ received = [s \in Sides |-> [i \in StreamIds |-> <<>>]]
    /\ ended = [s \in Sides |-> {}]
    /\ reset = {}

-------------------------------------------------------------------------------
(* Helpers *)

Add(S, s, i) == [S EXCEPT ![s] = @ \cup {i}]

\* A mistake to catch: odd and even ids are not kept apart.
AfterAnyId(i) == i + 1

\* The id of the stream a side opens after stream i.
AfterId(i) == i + 2

\* The transport is closed or broken: write_frame loses the frame, and raises
\* once the transport has noticed.
Broken(s) == ~running[s] \/ ~connected

Send(s, frame) ==
    wire' = IF Broken(s) THEN wire ELSE [wire EXCEPT ![s] = Append(@, frame)]

\* A mistake to catch: on_fin sets the flag and wakes no reader.
OnFinFlagOnly(s, I) ==
    /\ remote_closed' = [remote_closed EXCEPT ![s] = @ \cup I]
    /\ UNCHANGED read_queue

\* on_fin of the streams I of a side.
OnFin(s, I) ==
    /\ remote_closed' = [remote_closed EXCEPT ![s] = @ \cup I]
    /\ read_queue' = [read_queue EXCEPT ![s] =
                         [i \in StreamIds |-> IF i \in I THEN Append(@[i], EOF)
                                                         ELSE @[i]]]

\* A mistake to catch: the newest payload is read first.
FeedFirst(q, x) == <<x>> \o q

\* feed_data.
Feed(q, x) == Append(q, x)

\* A mistake to catch: a stream that is closed locally gets no more data.
KnowsOpen(s, i) == i \in streams[s] \ closed[s]

\* The session has a stream with this id in its table.
Knows(s, i) == i \in streams[s]

\* A mistake to catch: only the peer's end is looked at.
MayWriteOneWay(s, i) == i \notin remote_closed[s]

\* write does not raise: neither side has closed the stream.
MayWrite(s, i) == i \notin closed[s] \cup remote_closed[s]

\* A mistake to catch: the remote end is closed, what is queued is not read.
AtEndEarly(s, i) == i \in remote_closed[s]

\* read returns b"" at once.
AtEnd(s, i) == read_queue[s][i] = <<>> /\ i \in remote_closed[s]

-------------------------------------------------------------------------------
(* What the tasks of a side do *)

\* open_stream: the stream is in the table before its SYN is written.
OpenStream(s) ==
    /\ ~finished[s]
    /\ next_stream_id[s] \in OwnIds(s)
    /\ next_stream_id' = [next_stream_id EXCEPT ![s] = AfterId(@)]
    /\ streams' = Add(streams, s, next_stream_id[s])
    /\ owned' = Add(owned, s, next_stream_id[s])
    /\ Send(s, [flag |-> "SYN", id |-> next_stream_id[s]])
    /\ UNCHANGED <<running, finished, reading, accept_queue, waiting, closed,
                   marking, remote_closed, read_queue, connected, history>>

\* open_stream whose write raises: the stream stays in the table.
OpenFails(s) ==
    /\ Broken(s)
    /\ next_stream_id[s] \in OwnIds(s)
    /\ next_stream_id' = [next_stream_id EXCEPT ![s] = AfterId(@)]
    /\ streams' = Add(streams, s, next_stream_id[s])
    /\ UNCHANGED <<running, finished, reading, accept_queue, streamVars,
                   connected, wire, history>>

\* accept_stream; the queue outlives the session.
AcceptStream(s) ==
    /\ accept_queue[s] # <<>>
    /\ owned' = Add(owned, s, Head(accept_queue[s]))
    /\ accept_queue' = [accept_queue EXCEPT ![s] = Tail(@)]
    /\ UNCHANGED <<running, finished, reading, next_stream_id, streams, waiting,
                   closed, marking, remote_closed, read_queue, connected, wire,
                   history>>

\* Stream.write.
Write(s, i) ==
    /\ i \in owned[s]
    /\ MayWrite(s, i)
    /\ ~finished[s]
    /\ sent[s][i] < MaxData[s]
    /\ sent' = [sent EXCEPT ![s][i] = @ + 1]
    /\ Send(s, [flag |-> "DATA", id |-> i, payload |-> sent[s][i] + 1])
    /\ UNCHANGED <<sessionVars, streamVars, connected, received, ended, reset>>

\* A mistake to catch: nothing is sent.
CloseWithoutFin(s, i) ==
    /\ i \in owned[s] \ closed[s]
    /\ closed' = Add(closed, s, i)
    /\ UNCHANGED wire
    /\ \/ ~finished[s] /\ marking' = Add(marking, s, i)
       \/ Broken(s) /\ UNCHANGED marking
    /\ UNCHANGED <<sessionVars, owned, waiting, remote_closed, read_queue,
                   connected, history>>

\* Stream.close up to the await of its FIN; when the write raises the marker is
\* not queued.
CloseStream(s, i) ==
    /\ i \in owned[s] \ closed[s]
    /\ closed' = Add(closed, s, i)
    /\ Send(s, [flag |-> "FIN", id |-> i])
    /\ \/ ~finished[s] /\ marking' = Add(marking, s, i)
       \/ Broken(s) /\ UNCHANGED marking
    /\ UNCHANGED <<sessionVars, owned, waiting, remote_closed, read_queue,
                   connected, history>>

\* Stream.close after the FIN is written.
QueueMarker(s, i) ==
    /\ i \in marking[s]
    /\ marking' = [marking EXCEPT ![s] = @ \ {i}]
    /\ read_queue' = [read_queue EXCEPT ![s][i] = Append(@, EOF)]
    /\ UNCHANGED <<sessionVars, owned, waiting, closed, remote_closed,
                   connected, wire, history>>

\* Stream.read returns b"" at once, or goes to the queue, where it waits for a
\* payload or a marker if there is none.  Nobody reads on after b""
\* (read_message in imported.py and exported.py).
BeginRead(s, i) ==
    /\ i \in owned[s] \ (waiting[s] \cup ended[s])
    /\ IF AtEnd(s, i)
       THEN ended' = Add(ended, s, i) /\ UNCHANGED waiting
       ELSE waiting' = Add(waiting, s, i) /\ UNCHANGED ended
    /\ UNCHANGED <<sessionVars, owned, closed, marking, remote_closed,
                   read_queue, connected, wire, sent, received, reset>>

\* The queue has something: read returns the payload, or b"" for a marker.
EndRead(s, i) ==
    /\ i \in waiting[s]
    /\ read_queue[s][i] # <<>>
    /\ LET x == Head(read_queue[s][i])
       IN  IF x = EOF
           THEN ended' = Add(ended, s, i) /\ UNCHANGED received
           ELSE /\ received' = [received EXCEPT ![s][i] = Append(@, x)]
                /\ UNCHANGED ended
    /\ read_queue' = [read_queue EXCEPT ![s][i] = Tail(@)]
    /\ waiting' = [waiting EXCEPT ![s] = @ \ {i}]
    /\ UNCHANGED <<sessionVars, owned, closed, marking, remote_closed,
                   connected, wire, sent, reset>>

-------------------------------------------------------------------------------
(* The read loop and close() *)

\* The next frame for a side.  A session that is closing may handle the one
\* frame its read loop was waiting for.
NextFrame(s) == Head(wire[Peer(s)])

Receives(s, flag) ==
    /\ reading[s] /\ ~finished[s]
    /\ wire[Peer(s)] # <<>>
    /\ NextFrame(s).flag = flag

\* After a frame the loop goes on while the session runs.
Consume(s) ==
    /\ wire' = [wire EXCEPT ![Peer(s)] = Tail(@)]
    /\ reading' = [reading EXCEPT ![s] = running[s]]

\* SYN: a new stream to accept, unless the id is in the table.
HandleSyn(s) ==
    /\ Receives(s, "SYN")
    /\ Consume(s)
    /\ IF Knows(s, NextFrame(s).id)
       THEN UNCHANGED <<streams, accept_queue>>
       ELSE /\ streams' = Add(streams, s, NextFrame(s).id)
            /\ accept_queue' = [accept_queue EXCEPT
                                    ![s] = Append(@, NextFrame(s).id)]
    /\ UNCHANGED <<running, finished, next_stream_id, streamVars, connected,
                   history>>

\* DATA: the payload is queued; without a stream in the table it is dropped.
HandleData(s) ==
    /\ Receives(s, "DATA")
    /\ Consume(s)
    /\ LET i == NextFrame(s).id
       IN  read_queue' = IF Knows(s, i)
                         THEN [read_queue EXCEPT
                                  ![s][i] = Feed(@, NextFrame(s).payload)]
                         ELSE read_queue
    /\ UNCHANGED <<running, finished, next_stream_id, streams, accept_queue,
                   owned, waiting, closed, marking, remote_closed, connected,
                   history>>

\* FIN: the remote end is closed; the stream stays in the table.
HandleFin(s) ==
    /\ Receives(s, "FIN")
    /\ Consume(s)
    /\ OnFin(s, {NextFrame(s).id} \cap streams[s])
    /\ UNCHANGED <<running, finished, next_stream_id, streams, accept_queue,
                   owned, waiting, closed, marking, connected, history>>

\* RST: as FIN, and the stream leaves the table.
HandleRst(s) ==
    /\ Receives(s, "RST")
    /\ Consume(s)
    /\ OnFin(s, {NextFrame(s).id} \cap streams[s])
    /\ streams' = [streams EXCEPT ![s] = @ \ {NextFrame(s).id}]
    /\ UNCHANGED <<running, finished, next_stream_id, accept_queue, owned,
                   waiting, closed, marking, connected, history>>

\* PING is answered from within the read loop; an answer is ignored.
HandlePing(s) ==
    /\ \/ /\ Receives(s, "PING")
          /\ wire' = [wire EXCEPT
                         ![Peer(s)] = Tail(@),
                         ![s] = IF Broken(s) THEN @
                                ELSE Append(@, [flag |-> "PONG"])]
          /\ reading' = [reading EXCEPT ![s] = running[s]]
       \/ Receives(s, "PONG") /\ Consume(s)
    /\ UNCHANGED <<running, finished, next_stream_id, streams, accept_queue,
                   streamVars, connected, history>>

\* GO_AWAY closes the session.
HandleGoAway(s) ==
    /\ Receives(s, "GO_AWAY")
    /\ wire' = [wire EXCEPT ![Peer(s)] = Tail(@)]
    /\ running' = [running EXCEPT ![s] = FALSE]
    /\ reading' = [reading EXCEPT ![s] = FALSE]
    /\ UNCHANGED <<finished, next_stream_id, streams, accept_queue, streamVars,
                   connected, history>>

\* A mistake to catch: the read loop ends and the session stays open.
EndOfInputOnly(s) ==
    /\ reading[s] /\ ~finished[s]
    /\ ~connected \/ ~running[s] \/ (~running[Peer(s)] /\ wire[Peer(s)] = <<>>)
    /\ reading' = [reading EXCEPT ![s] = FALSE]
    /\ UNCHANGED <<running, finished, next_stream_id, streams, accept_queue,
                   streamVars, connected, wire, history>>

\* The read loop finds the connection lost or closed by the peer, ends, and
\* calls close().
EndOfInput(s) ==
    /\ reading[s] /\ ~finished[s]
    /\ ~connected \/ ~running[s] \/ (~running[Peer(s)] /\ wire[Peer(s)] = <<>>)
    /\ reading' = [reading EXCEPT ![s] = FALSE]
    /\ running' = [running EXCEPT ![s] = FALSE]
    /\ UNCHANGED <<finished, next_stream_id, streams, accept_queue, streamVars,
                   connected, wire, history>>

\* close() of the session up to the await of the transport's close.
CloseSession(s) ==
    /\ MayClose
    /\ running[s]
    /\ running' = [running EXCEPT ![s] = FALSE]
    /\ UNCHANGED <<finished, reading, next_stream_id, streams, accept_queue,
                   streamVars, connected, wire, history>>

\* close() after the transport is closed: every stream in the table ends.
FinishClose(s) ==
    /\ ~running[s] /\ ~finished[s]
    /\ finished' = [finished EXCEPT ![s] = TRUE]
    /\ OnFin(s, streams[s])
    /\ streams' = [streams EXCEPT ![s] = {}]
    /\ UNCHANGED <<running, reading, next_stream_id, accept_queue, owned,
                   waiting, closed, marking, connected, wire, history>>

-------------------------------------------------------------------------------
(* What happens to the connection *)

\* The connection breaks and loses what is on the wire.
Lose ==
    /\ MayLose
    /\ connected
    /\ connected' = FALSE
    /\ wire' = [s \in Sides |-> <<>>]
    /\ UNCHANGED <<sessionVars, streamVars, history>>

\* A peer written in another language resets a stream it uses.
SendRst(s, i) ==
    /\ "RST" \in Foreign
    /\ i \in owned[s] \ closed[s]
    /\ closed' = Add(closed, s, i)
    /\ reset' = reset \cup {i}
    /\ Send(s, [flag |-> "RST", id |-> i])
    /\ UNCHANGED <<sessionVars, owned, waiting, marking, remote_closed,
                   read_queue, connected, sent, received, ended>>

Control == {"PING", "PONG", "GO_AWAY"}

\* Such a peer sends PING or GO_AWAY (one at a time, a bound of the model).
SendForeign(s, flag) ==
    /\ flag \in Foreign \ {"RST"}
    /\ \A t \in Sides : \A n \in DOMAIN wire[t] : wire[t][n].flag \notin Control
    /\ Send(s, [flag |-> flag])
    /\ UNCHANGED <<sessionVars, streamVars, connected, history>>

Handle(s) == \/ HandleSyn(s) \/ HandleData(s) \/ HandleFin(s) \/ HandleRst(s)
             \/ HandlePing(s) \/ HandleGoAway(s) \/ EndOfInput(s)

Next ==
    \/ \E s \in Sides :
          \/ OpenStream(s) \/ OpenFails(s) \/ AcceptStream(s) \/ Handle(s)
          \/ CloseSession(s) \/ FinishClose(s)
          \/ \E i \in StreamIds : \/ Write(s, i) \/ CloseStream(s, i)
                                  \/ QueueMarker(s, i) \/ SendRst(s, i)
                                  \/ BeginRead(s, i) \/ EndRead(s, i)
          \/ \E flag \in Foreign : SendForeign(s, flag)
    \/ Lose

Spec == Init /\ [][Next]_vars

\* The read loop and a closing session go on; nobody has to read or write.
FairSpec ==
    /\ Spec
    /\ \A s \in Sides : WF_vars(Handle(s)) /\ WF_vars(FinishClose(s))

-------------------------------------------------------------------------------
(* Properties *)

\* Both ends are up and the stream was not reset.
Intact(i) == connected /\ i \notin reset /\ \A s \in Sides : running[s]

\* The elements of q that are in S, in their order.
Picked(q, S) ==
    LET picked[n \in 0..Len(q)] ==
            IF n = 0 THEN <<>>
            ELSE IF q[n] \in S THEN Append(picked[n - 1], q[n])
            ELSE picked[n - 1]
    IN  picked[Len(q)]

Payloads(q) == Picked(q, Writes)
InFlight(s, i) ==
    LET mine == Picked(wire[s], [flag : {"DATA"}, id : {i}, payload : Writes])
    IN  [k \in DOMAIN mine |-> mine[k].payload]

\* What is written on a stream is read on the other side once and in order,
\* however the streams, their closes and their accepts interleave: read, queued
\* and on the wire together make up what was written.
NothingLost ==
    \A s \in Sides, i \in StreamIds :
        Intact(i) => received[Peer(s)][i] \o Payloads(read_queue[Peer(s)][i])
                         \o InFlight(s, i) = [k \in 1..sent[s][i] |-> k]

\* Also when the connection fails, what has been read is a beginning of it.
PrefixRead ==
    \A s \in Sides, i \in StreamIds :
        received[s][i] = [k \in 1..Len(received[s][i]) |-> k]

\* A reader that has not closed its end and reads b"" has read all that the
\* other side wrote before it closed its end.
EofMeansAll ==
    \A s \in Sides, i \in StreamIds :
        Intact(i) /\ i \in ended[s] \ closed[s] =>
            /\ i \in closed[Peer(s)]
            /\ Len(received[s][i]) = sent[Peer(s)][i]

\* The streams of two sessions are reliable, ordered channels whose two ends are
\* closed one by one, until a reset or the end of a session cuts them.
Contract == INSTANCE StreamContract WITH
    Ends     <- Sides,
    Other    <- [s \in Sides |-> Peer(s)],
    Channels <- StreamIds,
    written  <- sent,
    got      <- received,
    shut     <- closed,
    over     <- ended,
    cut      <- {i \in StreamIds : ~Intact(i)}

ImplementsContract == Contract!ContractSpec

\* Nobody reads on after the session is closed without getting an answer: every
\* stream a task has was told, also one opened or accepted while close() waited.
ReadersReleased ==
    \A s \in Sides : finished[s] =>
        \A i \in owned[s] : i \in waiting[s] => read_queue[s][i] # <<>>

\* When one side closes a stream the other side learns it, or its session ends.
CloseReachesPeer ==
    \A s \in Sides, i \in StreamIds :
        i \in closed[s] ~> i \in remote_closed[Peer(s)] \/ finished[Peer(s)]

\* When one session closes the other one does.
CloseEndsBoth ==
    \A s \in Sides : ~running[s] ~> finished[s] /\ finished[Peer(s)]
===============================================================================
