--------------------------- MODULE RemoteReferences ---------------------------
(***************************************************************************)
(* The reference-counting protocol between an exporting process, with one  *)
(* ObjectRegistry, and the peers connected to it (exported.py and          *)
(* imported.py).  A call made through a proxy may return an object: the    *)
(* exporter registers it and answers with its identifier, and the peer     *)
(* wraps the identifier in a ProxyCursor whose finalizer sends RELEASE     *)
(* when the cursor is garbage collected.  Calls are made on the root       *)
(* object or on the cursor an earlier call returned; the chain of GET and  *)
(* APPLY instructions of one call travels as a single EXECUTE.             *)
(*                                                                         *)
(* A call stands for all that follows from it: its request, its reply, the *)
(* cursor made of the reply and the release of that cursor.  phase says    *)
(* how far it has come:                                                    *)
(*   unused     not made                                                   *)
(*   built      a ProxyCursor holds the instructions; it was not awaited   *)
(*   sent       EXECUTE is on the connection                               *)
(*   running    the exporter has found the target and executes             *)
(*   replied    RETURN with a reference is on the connection               *)
(*   live       a ProxyCursor with a finalizer holds the reference         *)
(*   dropped    that cursor was collected, the release task is scheduled   *)
(*   releasing  RELEASE is on the connection                               *)
(*   released   RELEASE was executed                                       *)
(*   leaked     registered for this call, and nothing will release it      *)
(*   returned   ended with a plain value or an exception of the target     *)
(*   refused    ended with "Object ... not found"                          *)
(*   failed     ended because the session is gone or the caller cancelled  *)
(*                                                                         *)
(* Each request travels on a stream of its own and is executed by a task   *)
(* of its own, which looks its reference up as soon as it has read the     *)
(* request.  The frames of a connection arrive in the order they were      *)
(* written, but two tasks may start in either order when their streams     *)
(* were opened in one order and written in the other.  A stream opened     *)
(* after a request was written is always behind that request.              *)
(***************************************************************************)
EXTENDS ObjectRegistry, FiniteSets

CONSTANTS
    Peers,      \* connections to the exporter
    Calls,      \* calls made during a run
    Root,       \* the exported root object, as the target of a call
    MayCancel,  \* whether a task that awaits a call may be cancelled
    MayClose    \* whether a connection may be lost

ASSUME ReferenceAssumption ==
    /\ IsFiniteSet(Calls)
    /\ Root \notin Calls
    /\ None \notin Peers \cup Calls
    /\ MayCancel \in BOOLEAN
    /\ MayClose \in BOOLEAN

VARIABLES
    open,       \* peer -> is its session running
    phase,      \* call -> see above
    conn,       \* call -> the peer that makes it
    via,        \* call -> Root, or the call whose cursor it was derived from
    ref,        \* call -> the identifier its reply carries
    ahead,      \* call -> calls written before its RELEASE opened its stream
    abandoned,  \* calls whose awaiting task was cancelled
    held        \* history: calls sent while the cursor of their target was live

callVars == <<open, phase, conn, via, ref, ahead, abandoned, held>>
vars == <<registryVars, callVars>>

Phases == {"unused", "built", "sent", "running", "replied", "live", "dropped",
           "releasing", "released", "leaked", "returned", "refused", "failed"}

\* Phases in which the registry counts a reference for the call.
Counted == {"replied", "live", "dropped", "releasing", "leaked"}

\* A counted reference has an identifier.
RefsGiven == \A c \in Calls : phase[c] \in Counted => ref[c] \in Ids

TypeOK ==
    /\ RegistryTypeOK
    /\ open \in [Peers -> BOOLEAN]
    /\ phase \in [Calls -> Phases]
    /\ conn \in [Calls -> Peers \cup {None}]
    /\ via \in [Calls -> Calls \cup {Root, None}]
    /\ ref \in [Calls -> Ids \cup {None}]
    /\ ahead \in [Calls -> SUBSET Calls]
    /\ abandoned \subseteq Calls
    /\ held \subseteq Calls
    /\ RefsGiven

Init ==
    /\ RegistryInit
    /\ open = [p \in Peers |-> TRUE]
    /\ phase = [c \in Calls |-> "unused"]
    /\ conn = [c \in Calls |-> None]
    /\ via = [c \in Calls |-> None]
    /\ ref = [c \in Calls |-> None]
    /\ ahead = [c \in Calls |-> {}]
    /\ abandoned = {}
    /\ held = {}

-------------------------------------------------------------------------------
(* The importing side *)

\* A cursor is derived from the root proxy or from a live cursor.  The new
\* cursor copies the instructions and keeps no reference to the old cursor.
Build(c, p, v) ==
    /\ phase[c] = "unused"
    /\ v # Root => phase[v] = "live" /\ conn[v] = p
    /\ phase' = [phase EXCEPT ![c] = "built"]
    /\ conn' = [conn EXCEPT ![c] = p]
    /\ via' = [via EXCEPT ![c] = v]
    /\ UNCHANGED <<registryVars, open, ref, ahead, abandoned, held>>

\* The cursor is awaited and its EXECUTE written, at any time after it was
\* built; on a closed session open_stream raises.
Send(c) ==
    /\ phase[c] = "built"
    /\ IF open[conn[c]]
       THEN /\ phase' = [phase EXCEPT ![c] = "sent"]
            /\ held' = IF via[c] = Root \/ phase[via[c]] = "live"
                       THEN held \cup {c} ELSE held
       ELSE /\ phase' = [phase EXCEPT ![c] = "failed"]
            /\ UNCHANGED held
    /\ UNCHANGED <<registryVars, open, conn, via, ref, ahead, abandoned>>

\* The reference in a reply becomes a cursor with a finalizer, unless the task
\* that awaited it is gone: then nobody reads the reply.
ReceiveReply(c) ==
    /\ phase[c] = "replied"
    /\ phase' = [phase EXCEPT ![c] = IF c \in abandoned THEN "leaked"
                                                      ELSE "live"]
    /\ UNCHANGED <<registryVars, open, conn, via, ref, ahead, abandoned, held>>

\* A mistake to catch: the cursor was made without _register_gc.
DropWithoutFinalizer(c) ==
    /\ phase[c] = "live"
    /\ phase' = [phase EXCEPT ![c] = "leaked"]
    /\ UNCHANGED <<registryVars, open, conn, via, ref, ahead, abandoned, held>>

\* The cursor is garbage collected: its finalizer schedules the release task.
Drop(c) ==
    /\ phase[c] = "live"
    /\ phase' = [phase EXCEPT ![c] = "dropped"]
    /\ UNCHANGED <<registryVars, open, conn, via, ref, ahead, abandoned, held>>

\* A mistake to catch: RELEASE travels on a stream that was opened long before
\* and overtakes the calls already written.
AheadOfNothing(c) == {}

\* The calls that are on the connection when the release of c opens its stream.
AheadOf(c) == {d \in Calls : conn[d] = conn[c] /\ phase[d] = "sent"}

\* The release task opens a stream outside the pool and writes RELEASE; on a
\* closed session the exception is swallowed and the reference stays counted.
SendRelease(c) ==
    /\ phase[c] = "dropped"
    /\ IF open[conn[c]]
       THEN /\ phase' = [phase EXCEPT ![c] = "releasing"]
            /\ ahead' = [ahead EXCEPT ![c] = AheadOf(c)]
       ELSE /\ phase' = [phase EXCEPT ![c] = "leaked"]
            /\ UNCHANGED ahead
    /\ UNCHANGED <<registryVars, open, conn, via, ref, abandoned, held>>

\* The task that awaits a call is cancelled (asyncio.wait_for, for one): its
\* stream is given back and closed, the request stands.
Cancel(c) ==
    /\ MayCancel
    /\ phase[c] \in {"sent", "running", "replied"}
    /\ abandoned' = abandoned \cup {c}
    /\ UNCHANGED <<registryVars, open, phase, conn, via, ref, ahead, held>>

-------------------------------------------------------------------------------
(* The exporting side *)

Resolves(v) == v = Root \/ Get(ref[v]) # None

\* A handler task reads EXECUTE and looks up the reference the chain starts
\* with; from here on the handler itself keeps the target alive.  If it is not
\* there the call is answered with THROW.
ReceiveExecute(c) ==
    /\ phase[c] = "sent"
    /\ phase' = [phase EXCEPT ![c] = IF Resolves(via[c]) THEN "running"
                                                       ELSE "refused"]
    /\ UNCHANGED <<registryVars, open, conn, via, ref, ahead, abandoned, held>>

\* A handler task reads RELEASE and gives one reference back.
ReceiveRelease(c) ==
    /\ phase[c] = "releasing"
    /\ \A d \in ahead[c] : phase[d] # "sent"
    /\ Delete(ref[c])
    /\ phase' = [phase EXCEPT ![c] = "released"]
    /\ ahead' = [ahead EXCEPT ![c] = {}]
    /\ UNCHANGED <<open, conn, via, ref, abandoned, held>>

\* The handler ends with a plain value, or THROW for an exception.
ReturnValue(c) ==
    /\ phase[c] = "running"
    /\ phase' = [phase EXCEPT ![c] = IF open[conn[c]] THEN "returned"
                                                     ELSE "failed"]
    /\ UNCHANGED <<registryVars, open, conn, via, ref, ahead, abandoned, held>>

\* A mistake to catch: the reply is written before the object is registered.
ReturnUnregistered(c, o, id) ==
    /\ phase[c] = "running"
    /\ open[conn[c]]
    /\ phase' = [phase EXCEPT ![c] = "replied"]
    /\ UNCHANGED <<registryVars, open, conn, via, ref, ahead, abandoned, held>>

\* The handler ends with an object: it is registered first and the reply
\* written after, so a reply that cannot be written leaves a reference counted.
ReturnReference(c, o, id) ==
    /\ phase[c] = "running"
    /\ Register(o, id)
    /\ ref' = [ref EXCEPT ![c] = id]
    /\ phase' = [phase EXCEPT ![c] = IF open[conn[c]] THEN "replied"
                                                     ELSE "leaked"]
    /\ UNCHANGED <<open, conn, via, ahead, abandoned, held>>

-------------------------------------------------------------------------------
(* The connection *)

\* A session ends on both sides.  Requests and replies in flight are lost, and
\* nothing tells the registry.
Close(p) ==
    /\ MayClose
    /\ open[p]
    /\ open' = [open EXCEPT ![p] = FALSE]
    /\ phase' = [c \in Calls |->
                    CASE conn[c] = p /\ phase[c] = "sent" -> "failed"
                      [] conn[c] = p /\ phase[c] \in {"replied", "releasing"}
                                                         -> "leaked"
                      [] OTHER -> phase[c]]
    /\ UNCHANGED <<registryVars, conn, via, ref, ahead, abandoned, held>>

-------------------------------------------------------------------------------

Finish(c) ==
    ReturnValue(c) \/ \E o \in Objects, id \in Ids : ReturnReference(c, o, id)

Receive(c) == ReceiveExecute(c) \/ ReceiveRelease(c)

Next ==
    \/ \E c \in Calls, p \in Peers, v \in Calls \cup {Root} : Build(c, p, v)
    \/ \E c \in Calls :
          \/ Send(c) \/ ReceiveReply(c) \/ Drop(c) \/ SendRelease(c) \/ Cancel(c)
          \/ Receive(c) \/ Finish(c)
    \/ \E p \in Peers : Close(p)

Spec == Init /\ [][Next]_vars

\* The event loops run every task that is ready, and exported functions end.
\* Nothing makes a program await a cursor or drop one.
Fairness ==
    \A c \in Calls : /\ WF_vars(Receive(c))
                     /\ WF_vars(Finish(c))
                     /\ WF_vars(ReceiveReply(c))
                     /\ WF_vars(SendRelease(c))

FairSpec == Spec /\ Fairness

-------------------------------------------------------------------------------
(* Properties *)

\* Every reference counted in the registry is accounted for: it is on its way
\* to a peer, held by a cursor, on its way back, or lost with its connection or
\* its caller.  Each handler, finalizer and release task adds or takes one, in
\* any order and for several peers at once.
RetainsBalance ==
    \A id \in Ids :
        counts[id] = Cardinality({c \in Calls : /\ ref[c] = id
                                                /\ phase[c] \in Counted})

\* A reference a peer holds or is about to receive leads to an object: no
\* release, by this peer or another one, takes away what somebody still holds.
LiveReferencesResolve ==
    \A c \in Calls : phase[c] \in {"replied", "live"} => Get(ref[c]) # None

\* A call written while the cursor it was derived from was live finds its
\* target, even if the cursor is dropped before the call is executed.
HeldUseResolves == \A c \in held : phase[c] # "refused"

\* Every use of a cursor derived from a reference finds its target: remote
\* objects behave like local ones (README.md:9 "Automatically manages remote
\* object lifecycles using `weakref` and a reference counting protocol").
DerivedUseResolves == \A c \in Calls : phase[c] # "refused"

\* No peer holds, or is about to receive, a reference to the entry.
Unreferenced(id) ==
    \A c \in Calls : ref[c] = id => phase[c] \notin {"replied", "live"}

\* A reference to the entry was lost for good: the caller gave up before it read
\* the reply, or the connection was gone before reply or RELEASE got through.
LostReference(id) ==
    \E c \in Calls : /\ ref[c] = id /\ phase[c] = "leaked"
                     /\ c \in abandoned \/ ~open[conn[c]]

\* An entry nobody refers to any more is removed, unless it is handed out anew.
\* Callers that give up and lost connections keep entries for ever, but only those
\* whose own references they lost (exported.py:63, imported.py:234 and :249): all
\* others are collected, whichever peers go.
EventuallyCollected ==
    \A id \in Ids : Unreferenced(id) /\ map[id] # None
                        ~> map[id] = None \/ ~Unreferenced(id) \/ LostReference(id)

\* The exporter and its peers do what distributed garbage collection promises:
\* entries go only when nobody holds them, and never come back.
Contract == INSTANCE ReferenceContract WITH
    Holders <- Calls,
    Entries <- Ids,
    Nothing <- None,
    fresh   <- Ids \ issued,
    alive   <- {id \in Ids : map[id] # None},
    holding <- [c \in Calls |-> IF phase[c] \in {"replied", "live"}
                                THEN ref[c] ELSE None]

ImplementsContract == Contract!ContractSpec
===============================================================================
