------------------------------ MODULE StreamPool ------------------------------
(***************************************************************************)
(* proxyables/stream_pool.py and its use in ProxyCursor._execute           *)
(* (imported.py:191-234).  Every call through a proxy acquires a stream,   *)
(* holds it for one request and its reply, and releases it.  An asyncio    *)
(* task runs without interruption from one await to the next; each action  *)
(* is such a stretch of code.                                              *)
(*                                                                         *)
(* A waiter's future and its task are one here, named by the call: pc says *)
(*   ready      no call in progress                                        *)
(*   opening    acquire awaits session.open_stream                         *)
(*   waiting    acquire awaits the future it appended to pending           *)
(*   granted    the future has a stream, the task has not run yet          *)
(*   holding    acquire has returned; request and reply are under way      *)
(*   failed     open_stream raised in acquire                              *)
(*   cancelled  the task was cancelled inside acquire                      *)
(***************************************************************************)
EXTENDS Integers, Sequences, FiniteSets

CONSTANTS
    Calls,        \* tasks that call through the proxy, each time and again
    Streams,      \* streams of the session; enough of them never to run out
    Limits,       \* values of max_streams; 8 by default (stream_pool.py:7)
    Reuses,       \* values of reuse; the importer passes FALSE (imported.py:37)
    Faults,       \* values of faulty: whether tasks may be cancelled and the
                  \* connection be lost
    MayFinish,    \* whether the peer may close a stream (it does after a THROW)
    NoStream

ASSUME PoolAssumption ==
    /\ IsFiniteSet(Calls)
    /\ Limits \subseteq Nat \ {0}
    /\ NoStream \notin Streams
    /\ Reuses \subseteq BOOLEAN
    /\ Faults \subseteq BOOLEAN
    /\ MayFinish \in BOOLEAN

VARIABLES
    max_streams,    \* how many streams the pool may have
    reuse,          \* whether the pool keeps streams for further calls
    active_count,   \* the pool's count of streams in use or idle
    idle,           \* streams kept for reuse, the last one is taken first
    pending,        \* calls whose futures wait, first come first served
    spawned,        \* calls with an _open_and_resolve task not yet started
    resolving,      \* calls with an _open_and_resolve task in open_stream
    pc,             \* call -> see above
    stream,         \* call -> the stream it holds or was granted
    remote_closed,  \* streams on which FIN has arrived
    up,             \* is the session running
    faulty          \* are callers cancelled and is the session lost in this run

poolVars == <<max_streams, reuse, active_count, idle, pending, spawned, resolving>>
world == <<up, faulty>>
vars == <<poolVars, pc, stream, remote_closed, world>>

PoolTypeOK ==
    /\ max_streams \in Limits
    /\ reuse \in Reuses
    /\ active_count \in Nat
    /\ idle \in Seq(Streams)
    /\ pending \in Seq(Calls)
    /\ spawned \subseteq Calls
    /\ resolving \subseteq Calls
    /\ pc \in [Calls -> {"ready", "opening", "waiting", "granted", "holding",
                         "failed", "cancelled"}]
    /\ stream \in [Calls -> Streams \cup {NoStream}]
    /\ remote_closed \subseteq Streams
    /\ up \in BOOLEAN
    /\ faulty \in Faults

Init ==
    /\ max_streams \in Limits
    /\ reuse \in Reuses
    /\ active_count = 0
    /\ idle = <<>>
    /\ pending = <<>>
    /\ spawned = {}
    /\ resolving = {}
    /\ pc = [c \in Calls |-> "ready"]
    /\ stream = [c \in Calls |-> NoStream]
    /\ remote_closed = {}
    /\ up = TRUE
    /\ faulty \in Faults

Elements(s) == {s[i] : i \in DOMAIN s}

\* A stream nobody uses stands for the next one open_stream makes.
Unused == Streams \ (Elements(idle) \cup {stream[c] : c \in Calls})

\* open_stream returns a new stream to call c.  Which of the unused names it
\* gets makes no difference.
TakeNew(c) ==
    LET new == CHOOSE s \in Unused : TRUE
    IN  /\ Unused # {}
        /\ stream' = [stream EXCEPT ![c] = new]
        /\ remote_closed' = remote_closed \ {new}

Last(s) == s[Len(s)]
Front(s) == SubSeq(s, 1, Len(s) - 1)

-------------------------------------------------------------------------------
(* acquire *)

\* A mistake to catch: the idle stream is looked at and not taken out.
AcquireIdleKeeping(c) ==
    /\ pc[c] = "ready"
    /\ reuse /\ idle # <<>>
    /\ stream' = [stream EXCEPT ![c] = Last(idle)]
    /\ pc' = [pc EXCEPT ![c] = "holding"]
    /\ UNCHANGED <<poolVars, remote_closed, world>>

\* An idle stream is there; nobody looks whether it is still open.
AcquireIdle(c) ==
    /\ pc[c] = "ready"
    /\ reuse /\ idle # <<>>
    /\ stream' = [stream EXCEPT ![c] = Last(idle)]
    /\ idle' = Front(idle)
    /\ pc' = [pc EXCEPT ![c] = "holding"]
    /\ UNCHANGED <<max_streams, reuse, active_count, pending, spawned, resolving,
                   remote_closed, world>>

\* A mistake to catch: the slot is counted when the stream is there, not when
\* it is asked for.
AcquireNewUncounted(c) ==
    /\ pc[c] = "ready"
    /\ ~(reuse /\ idle # <<>>)
    /\ active_count < max_streams
    /\ pc' = [pc EXCEPT ![c] = "opening"]
    /\ UNCHANGED <<poolVars, stream, remote_closed, world>>

\* A slot is free: it is taken, then the stream is opened.
AcquireNew(c) ==
    /\ pc[c] = "ready"
    /\ ~(reuse /\ idle # <<>>)
    /\ active_count < max_streams
    /\ active_count' = active_count + 1
    /\ pc' = [pc EXCEPT ![c] = "opening"]
    /\ UNCHANGED <<max_streams, reuse, idle, pending, spawned, resolving, stream,
                   remote_closed, world>>

\* open_stream returns, or raises because the session is gone; acquire is
\* called outside the try block, so nothing gives the slot back.
Opened(c) ==
    /\ pc[c] = "opening"
    /\ \/ /\ up
          /\ pc' = [pc EXCEPT ![c] = "holding"]
          /\ TakeNew(c)
       \/ /\ ~up
          /\ pc' = [pc EXCEPT ![c] = "failed"]
          /\ UNCHANGED <<stream, remote_closed>>
    /\ UNCHANGED <<poolVars, world>>

\* No slot: wait for a stream.
AcquireWait(c) ==
    /\ pc[c] = "ready"
    /\ ~(reuse /\ idle # <<>>)
    /\ active_count >= max_streams
    /\ pending' = Append(pending, c)
    /\ pc' = [pc EXCEPT ![c] = "waiting"]
    /\ UNCHANGED <<max_streams, reuse, active_count, idle, spawned, resolving, stream,
                   remote_closed, world>>

\* The task of a waiter that was given a stream runs again.
Resume(c) ==
    /\ pc[c] = "granted"
    /\ pc' = [pc EXCEPT ![c] = "holding"]
    /\ UNCHANGED <<poolVars, stream, remote_closed, world>>

-------------------------------------------------------------------------------
(* release *)

IsCancelled(c) == pc[c] = "cancelled"

\* A mistake to catch: _process_pending serves from idle streams only.
SlotNeverFree(n) == FALSE

\* A slot is free in the loop of _process_pending.
SlotFree(n) == n < max_streams

\* How many waiters an idle stream is there for.
Paired(I) == IF Len(I) < Len(pending) THEN Len(I) ELSE Len(pending)

\* At a cancelled waiter set_result raises InvalidStateError.
Raises(I) == {i \in 1..Paired(I) : IsCancelled(pending[i])}

\* How many waiters leave the queue for a stream of I: the loop ends at the
\* first cancelled one, for whom an idle stream has been popped too.
Taken(I) == IF Raises(I) = {} THEN Paired(I)
            ELSE CHOOSE i \in Raises(I) : \A j \in Raises(I) : i <= j

Served(I) == {i \in 1..Taken(I) : ~IsCancelled(pending[i])}

Rest(I) == SubSeq(pending, Taken(I) + 1, Len(pending))

\* No stream is idle any more and a slot is free: every waiter left gets a task
\* of its own that will open a stream.
Spawns(I, n) == Raises(I) = {} /\ Taken(I) = Len(I) /\ SlotFree(n)

\* _process_pending with idle streams I and count n: the first waiters get the
\* idle streams, and if tasks open streams for the others, the slots are
\* counted only when those tasks start.
ProcessPending(I, n) ==
    [idle    |-> SubSeq(I, 1, Len(I) - Taken(I)),
     pending |-> IF Spawns(I, n) THEN <<>> ELSE Rest(I),
     spawned |-> IF Spawns(I, n) THEN Elements(Rest(I)) ELSE {},
     granted |-> [c \in {pending[i] : i \in Served(I)} |->
                     I[Len(I) + 1 - (CHOOSE i \in Served(I) : pending[i] = c)]]]

\* A stream goes back to the pool; any other is closed, or was by the peer.
Keeps(s) == reuse /\ s \notin remote_closed

\* The finally block of _execute, reached with the reply or, for a cancelled
\* caller, without it.  A stream that is not kept gives its slot back.  If
\* _process_pending raises, the call ends with that error, not its result.
Release(c) ==
    /\ pc[c] = "holding"
    /\ LET keep == Keeps(stream[c])
           I    == IF keep THEN Append(idle, stream[c]) ELSE idle
           n    == IF keep THEN active_count ELSE active_count - 1
           P    == ProcessPending(I, n)
       IN  /\ active_count' = n
           /\ idle' = P.idle
           /\ pending' = P.pending
           /\ spawned' = spawned \cup P.spawned
           /\ pc' = [t \in Calls |->
                        CASE t = c                  -> "ready"
                          [] t \in DOMAIN P.granted -> "granted"
                          [] OTHER                  -> pc[t]]
           /\ stream' = [t \in Calls |->
                            CASE t = c                  -> NoStream
                              [] t \in DOMAIN P.granted -> P.granted[t]
                              [] OTHER                  -> stream[t]]
    /\ UNCHANGED <<max_streams, reuse, resolving, remote_closed, world>>

\* An _open_and_resolve task starts.
StartResolve(c) ==
    /\ c \in spawned
    /\ spawned' = spawned \ {c}
    /\ resolving' = resolving \cup {c}
    /\ active_count' = active_count + 1
    /\ UNCHANGED <<max_streams, reuse, idle, pending, pc, stream, remote_closed, world>>

\* Its open_stream returns and the waiter gets the stream.  If open_stream
\* raises, the task ends and nobody tells the waiter; if the waiter was
\* cancelled, set_result raises and nobody has the stream.
FinishResolve(c) ==
    /\ c \in resolving
    /\ resolving' = resolving \ {c}
    /\ IF up /\ pc[c] = "waiting"
       THEN pc' = [pc EXCEPT ![c] = "granted"] /\ TakeNew(c)
       ELSE UNCHANGED <<pc, stream, remote_closed>>
    /\ UNCHANGED <<max_streams, reuse, active_count, idle, pending, spawned, world>>

-------------------------------------------------------------------------------
(* What happens to tasks and streams *)

\* CancelledError is raised inside acquire: a slot or a stream it had is lost.
\* (A call cancelled later releases its stream in the finally block.)
Cancel(c) ==
    /\ faulty
    /\ pc[c] \in {"opening", "waiting", "granted"}
    /\ pc' = [pc EXCEPT ![c] = "cancelled"]
    /\ stream' = [stream EXCEPT ![c] = NoStream]
    /\ UNCHANGED <<poolVars, remote_closed, world>>

\* The peer closes a stream, in use or idle.
RemoteFin(s) ==
    /\ MayFinish
    /\ up
    /\ s \notin Unused \cup remote_closed
    /\ remote_closed' = remote_closed \cup {s}
    /\ UNCHANGED <<poolVars, pc, stream, world>>

\* The connection is lost: the session ends every stream it knows.
SessionDown ==
    /\ faulty
    /\ up
    /\ up' = FALSE
    /\ remote_closed' = Streams
    /\ UNCHANGED <<poolVars, pc, stream, faulty>>

Acquire(c) == AcquireIdle(c) \/ AcquireNew(c) \/ AcquireWait(c)

\* What the event loop does about a call that waits for its stream.
Serve(c) == Opened(c) \/ Resume(c) \/ StartResolve(c) \/ FinishResolve(c)

\* What it does for a call that has begun: one of these at a time.
Proceed(c) == Serve(c) \/ Release(c)

Next ==
    \/ \E c \in Calls : Acquire(c) \/ Proceed(c) \/ Cancel(c)
    \/ \E s \in Streams : RemoteFin(s)
    \/ SessionDown

Spec == Init /\ [][Next]_vars

\* The event loop runs every ready task and calls end; nobody has to call.
FairSpec == Spec /\ \A c \in Calls : WF_vars(Proceed(c))

-------------------------------------------------------------------------------
(* Properties *)

\* Calls that a slot of the pool is spent on.
Occupying == {c \in Calls : pc[c] \in {"opening", "granted", "holding"}}

SlotsInUse == Cardinality(Occupying) + Cardinality(resolving) + Len(idle)

\* Calls that had no stream to give back when they were cut off: their slot was
\* taken and open_stream raised or was cancelled (stream_pool.py:20-21), a stream
\* was set aside for them (:48), or the task that opens one for them ended (:55).
Lost == {c \in Calls : pc[c] \in {"failed", "cancelled", "waiting"}}
            \ (Elements(pending) \cup spawned \cup resolving)

\* The count is exact across acquire, hand-over, background opening, release and
\* every way to be cut off: a slot counted is in use, or was lost with one call of
\* its own, and without faults no call loses any.
CountCoversUse ==
    /\ active_count = SlotsInUse + Cardinality(Lost)
    /\ ~faulty => Lost = {}

\* A stream is with one call or idle, never with two: replies of two calls
\* would mix on it.
ExclusiveHold ==
    /\ \A c, d \in Calls :
          c # d /\ stream[c] # NoStream => stream[c] # stream[d]
    /\ \A c \in Calls : stream[c] \notin Elements(idle)
    /\ \A i, j \in DOMAIN idle : i # j => idle[i] # idle[j]

\* Nobody waits while a stream is idle or a slot is free: every release, in
\* any order with new acquires and failed hand-overs, wakes who can be served.
NoLostWakeup ==
    pending # <<>> => idle = <<>> /\ active_count >= max_streams

\* The pool never has more streams than max_streams (stream_pool.py:7, guarded
\* at :19 and :45).
LimitRespected == active_count <= max_streams

\* A call that waits for a stream gets one, whoever is cancelled and also when
\* the session is lost, unless the task that opens its stream failed or as many
\* calls have lost a slot as the pool has: fewer losses only make it slower.
WaiterServed ==
    \A c \in Calls : pc[c] = "waiting" ~>
        pc[c] # "waiting" \/ c \in Lost \/ Cardinality(Lost) >= max_streams
===============================================================================
