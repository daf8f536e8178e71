------------------------------- MODULE CallPath -------------------------------
(***************************************************************************)
(* A connection as its users see it: calls go both ways, each side takes   *)
(* the streams for its calls from a StreamPool of its own, and the handler *)
(* of a call may make a call of its own before it answers.  The client     *)
(* calls the exported object through the pool of its importer; the server  *)
(* calls back through the pool of the importer that its exporter made      *)
(* (exported.py:41).                                                       *)
(*                                                                         *)
(* Place is where a call stands in its pool.  handler says how the task at  *)
(* the other end stands:                                                   *)
(*   none     the request has not been read                                *)
(*   running  the exported function runs, or awaits calls of its own       *)
(*   done     the reply has been written                                   *)
(* A caller may give up: its stream goes back to the pool, the handler     *)
(* goes on, and its reply is lost.                                         *)
(*                                                                         *)
(* A handler may make several calls, one after the other or at once.  Each *)
(* has a name of its own in within, and is made once while the handler     *)
(* runs: what is bounded is how many calls a handler makes.                *)
(***************************************************************************)
EXTENDS Naturals, Sequences, FiniteSets

CONSTANTS
    ClientCalls, ServerCalls,  \* calls made by each side, each time and again
    Streams, NoStream, MaxStreams,
    Nestings,                  \* which calls are made, and in whose handler
    NoCall

Calls == ClientCalls \cup ServerCalls

\* A call goes out from the side that handles the call it is made in.
ASSUME PathAssumption ==
    /\ IsFiniteSet(Calls)
    /\ ClientCalls \cap ServerCalls = {}
    /\ MaxStreams \in Nat \ {0}
    /\ NoStream \notin Streams
    /\ NoCall \notin Calls
    /\ \A w \in Nestings : \E M \in SUBSET Calls :
          /\ w \in [M -> M \cup {NoCall}]
          /\ \A c \in M : w[c] # NoCall =>
                (c \in ClientCalls <=> w[c] \in ServerCalls)

VARIABLES
    c_active, c_pending, c_spawned, c_resolving, c_pc, c_stream,
    s_active, s_pending, s_spawned, s_resolving, s_pc, s_stream,
    within,   \* call made -> the call in whose handler it is made, or NoCall
    handler,  \* call -> see above
    made      \* calls whose handler has made them and still runs

clientPool == <<c_active, c_pending, c_spawned, c_resolving, c_pc, c_stream>>
serverPool == <<s_active, s_pending, s_spawned, s_resolving, s_pc, s_stream>>
vars == <<clientPool, serverPool, within, handler, made>>

\* Both pools are made with reuse=False, so that no stream is idle; what lost
\* connections and cancelled waiters do to a pool is StreamPool's matter.  (TLC
\* wants an expression where it may meet UNCHANGED, and no literal.)
C == INSTANCE StreamPool WITH
    Calls <- ClientCalls, Reuses <- {FALSE}, Faults <- {FALSE}, MayFinish <- FALSE,
    Limits <- {MaxStreams}, max_streams <- MaxStreams + 0, reuse <- ~TRUE,
    active_count <- c_active, idle <- <<>> \o <<>>, pending <- c_pending,
    spawned <- c_spawned, resolving <- c_resolving, pc <- c_pc,
    stream <- c_stream, remote_closed <- {} \cup {},
    up <- ~FALSE, faulty <- ~TRUE

S == INSTANCE StreamPool WITH
    Calls <- ServerCalls, Reuses <- {FALSE}, Faults <- {FALSE}, MayFinish <- FALSE,
    Limits <- {MaxStreams}, max_streams <- MaxStreams + 0, reuse <- ~TRUE,
    active_count <- s_active, idle <- <<>> \o <<>>, pending <- s_pending,
    spawned <- s_spawned, resolving <- s_resolving, pc <- s_pc,
    stream <- s_stream, remote_closed <- {} \cup {},
    up <- ~FALSE, faulty <- ~TRUE

Place(c) == IF c \in ClientCalls THEN c_pc[c] ELSE s_pc[c]

\* The calls made in the handler of c.
Inner(c) == {d \in DOMAIN within : within[d] = c}

TypeOK ==
    /\ C!PoolTypeOK
    /\ S!PoolTypeOK
    /\ within \in Nestings
    /\ handler \in [Calls -> {"none", "running", "done"}]
    /\ made \subseteq DOMAIN within

Init ==
    /\ C!Init
    /\ S!Init
    /\ within \in Nestings
    /\ handler = [c \in Calls |-> "none"]
    /\ made = {}

-------------------------------------------------------------------------------
(* Steps of the pools *)

Acquire(c) ==
    \/ c \in ClientCalls /\ C!Acquire(c) /\ UNCHANGED serverPool
    \/ c \in ServerCalls /\ S!Acquire(c) /\ UNCHANGED clientPool

Serve(c) ==
    /\ \/ c \in ClientCalls /\ C!Serve(c) /\ UNCHANGED serverPool
       \/ c \in ServerCalls /\ S!Serve(c) /\ UNCHANGED clientPool
    /\ UNCHANGED <<within, handler, made>>

Release(c) ==
    \/ c \in ClientCalls /\ C!Release(c) /\ UNCHANGED serverPool
    \/ c \in ServerCalls /\ S!Release(c) /\ UNCHANGED clientPool

-------------------------------------------------------------------------------
(* Steps of callers and handlers *)

\* A call is awaited, by the program or by the handler of another call.
Start(c) ==
    /\ c \in DOMAIN within
    /\ handler[c] = "none"
    /\ \/ within[c] = NoCall /\ UNCHANGED made
       \/ /\ within[c] # NoCall /\ c \notin made
          /\ handler[within[c]] = "running"
          /\ made' = made \cup {c}
    /\ Acquire(c)
    /\ UNCHANGED <<within, handler>>

\* The request is written, and the peer's handler task reads it.
Handle(c) ==
    /\ Place(c) = "holding"
    /\ handler[c] = "none"
    /\ handler' = [handler EXCEPT ![c] = "running"]
    /\ UNCHANGED <<clientPool, serverPool, within, made>>

\* A mistake to catch: who has given up is not answered, and the handler stays.
AnswerTheWaiting(c) ==
    /\ handler[c] = "running" /\ Place(c) = "holding"
    /\ \A d \in Inner(c) : Place(d) = "ready"
    /\ handler' = [handler EXCEPT ![c] = "done"]
    /\ made' = made \ Inner(c)
    /\ UNCHANGED <<clientPool, serverPool, within>>

\* The calls of the handler are over, if it made any, and it answers; the reply
\* to a caller who has given up is lost.
Answer(c) ==
    /\ handler[c] = "running"
    /\ \A d \in Inner(c) : Place(d) = "ready"
    /\ handler' = [handler EXCEPT ![c] = IF Place(c) = "holding" THEN "done"
                                                             ELSE "none"]
    /\ made' = made \ Inner(c)
    /\ UNCHANGED <<clientPool, serverPool, within>>

\* The caller reads the reply and gives its stream back.
End(c) ==
    /\ handler[c] = "done"
    /\ Release(c)
    /\ handler' = [handler EXCEPT ![c] = "none"]
    /\ UNCHANGED <<within, made>>

\* The caller gives up while its handler is at work: cancelled or timed out.
Abandon(c) ==
    /\ handler[c] = "running"
    /\ Release(c)
    /\ UNCHANGED <<within, handler, made>>

Proceed(c) == Serve(c) \/ Handle(c) \/ Answer(c) \/ End(c)

Next == \E c \in Calls : Start(c) \/ Proceed(c) \/ Abandon(c)

\* Every task that can go on does; nobody has to call or to give up.
Fairness ==
    \A c \in Calls : WF_vars(Serve(c)) /\ WF_vars(Handle(c) \/ Answer(c) \/ End(c))

Spec == Init /\ [][Next]_vars /\ Fairness

-------------------------------------------------------------------------------
(* Properties *)

Busy(c) == Place(c) # "ready"

\* Calls of a pool whose handlers make calls.
Parents(P) == {c \in P : Inner(c) # {}}

\* In one direction at least, fewer calls than the pool has streams lead to a
\* call back.
Roomy ==
    \/ Cardinality(Parents(ClientCalls)) < MaxStreams
    \/ Cardinality(Parents(ServerCalls)) < MaxStreams

\* Every call that is made ends, and so does every handler, also one whose caller
\* gave up and that still calls itself; however calls are nested in handlers, as
\* long as those that lead to calls back cannot take all streams in both
\* directions: ProxyCursor._execute (imported.py:192) keeps its stream while the
\* handler of its call waits for one of the other pool.
CallsEnd ==
    Roomy => \A c \in Calls :
        Busy(c) \/ handler[c] # "none" ~> ~Busy(c) /\ handler[c] = "none"

\* Callers have begun and nothing can go on: whoever does not wait for a stream
\* waits for a handler that waits for a call.
Standstill ==
    /\ c_spawned \cup c_resolving \cup s_spawned \cup s_resolving = {}
    /\ \E c \in Calls : Busy(c)
    /\ \A c \in Calls :
          /\ Busy(c) => \/ Place(c) = "waiting"
                        \/ Place(c) = "holding" /\ handler[c] = "running"
          /\ handler[c] = "running" => \E d \in Inner(c) : Busy(d)

\* Nothing but calls nested both ways stops the connection: when all callers
\* wait, each pool has given all its streams to calls whose handlers wait.
OnlyNestingBlocks ==
    Standstill => \A P \in {ClientCalls, ServerCalls} :
        Cardinality({c \in P : Place(c) = "holding"}) >= MaxStreams
===============================================================================
