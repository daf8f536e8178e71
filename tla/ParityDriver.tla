----------------------------- MODULE ParityDriver -----------------------------
(***************************************************************************)
(* parity/agent.py: the server that a harness starts and the driver that   *)
(* runs its garbage collection scenarios against it.  Every connection to  *)
(* the server exports its root with one and the same registry              *)
(* (SERVER_REGISTRY), so that the entries of all clients are counted       *)
(* together.  A scenario takes references to the fixture's shared dict,    *)
(* drops them, and watches through connections of its own how the totals   *)
(* of the registry come down to what they were before.                     *)
(*                                                                         *)
(* step is where drive stands: idle between scenarios; then it acquires    *)
(* the references and polls after each one that it drops, to observe and   *)
(* to judge by turns; at last the scenario is reported, or has failed.     *)
(***************************************************************************)
EXTENDS ObjectRegistry, FiniteSets

CONSTANTS
    Shared,        \* the dict SERVER_FIXTURE.shared, answered by reference
    MaxScenarios,  \* bound of the model: scenarios driven
    Quiets         \* values of quiet

ASSUME ParityAssumption ==
    /\ IsFiniteSet(Ids)   \* a muid has 64 bits
    /\ Shared \in Objects \ WeakRefable
    /\ MaxScenarios \in Nat
    /\ Quiets \subseteq BOOLEAN

VARIABLES
    step,       \* see above
    wanted,     \* references the scenario takes
    held,       \* identifiers of the driver's cursors
    releasing,  \* those whose RELEASE is on the scenario's connection
    stray,      \* those whose RELEASE may be on a connection already closed
    base,       \* baseline_state
    peak,       \* peak_state
    last,       \* what the last observer read
    timed_out,  \* has a poll of this scenario given up
    driven,     \* number of scenarios begun
    mine,       \* history: identifiers answered to the driver
    before,     \* history: entries when the baseline was read
    quiet       \* has the server no other clients, and no connection breaks

driverVars == <<step, wanted, held, releasing, stray, base, peak, last, timed_out,
                driven, mine, before, quiet>>
vars == <<registryVars, driverVars>>

Entries == {id \in Ids : map[id] # None}

\* The references counted: as many of each entry as its count says.
Retains == UNION {{id} \X (1..counts[id]) : id \in Ids}

\* snapshot.
Totals == [entries |-> Cardinality(Entries), retains |-> Cardinality(Retains)]

Nothing == [entries |-> 0, retains |-> 0]

TypeOK ==
    /\ RegistryTypeOK
    /\ step \in {"idle", "acquire", "observe", "judge", "reported", "failed"}
    /\ wanted \in 0..2
    /\ {held, releasing, stray, mine, before} \subseteq SUBSET Ids
    /\ {base, peak, last} \subseteq [entries : Nat, retains : Nat]
    /\ timed_out \in BOOLEAN
    /\ driven \in 0..MaxScenarios
    /\ quiet \in Quiets
    /\ held \cup releasing \cup stray \subseteq mine
    /\ \A id \in held \cup releasing : counts[id] = 1

Init ==
    /\ RegistryInit
    /\ step = "idle"
    /\ wanted = 0
    /\ held = {} /\ releasing = {} /\ stray = {}
    /\ base = Nothing /\ peak = Nothing /\ last = Nothing
    /\ timed_out = FALSE
    /\ driven = 0
    /\ mine = {}
    /\ before = {}
    /\ quiet \in Quiets

-------------------------------------------------------------------------------
(* The server *)

\* Identifiers MUIDGenerator.make may answer, for a known object its own.  That a
\* new one was never in use is taken from module Muid, which shows when it fails:
\* after the clock went back.  Which new one it is makes no difference.
NextIds == issued \cup (IF issued = Ids THEN {}
                        ELSE {CHOOSE id \in Ids : id \notin issued})

\* Other clients of the server get references and give them back, even twice.
Strangers ==
    /\ ~quiet
    /\ \/ \E o \in Objects, id \in NextIds :
             counts[id] < MaxRetains /\ id \notin mine /\ Register(o, id)
       \/ \E id \in issued \ mine : Delete(id)
    /\ UNCHANGED driverVars

\* A RELEASE of the driver is executed.  One sent before its connection was
\* closed may be executed later, or be lost with the connection.
ReceiveRelease(id) ==
    /\ id \in releasing \cup stray
    /\ Delete(id)
    /\ releasing' = releasing \ {id}
    /\ stray' = stray \ {id}
    /\ UNCHANGED <<step, wanted, held, base, peak, last, timed_out, driven, mine,
                   before, quiet>>

-------------------------------------------------------------------------------
(* A scenario *)

\* drive connects for the next scenario, AutomaticReleaseAfterDrop or
\* FinalizerEventualCleanup with one reference, AliasRetainRelease with two, and
\* reads baseline_state.
Begin(n) ==
    /\ step = "idle"
    /\ driven < MaxScenarios
    /\ driven' = driven + 1
    /\ wanted' = n
    /\ base' = Totals
    /\ before' = Entries
    /\ step' = "acquire"
    /\ UNCHANGED <<registryVars, held, releasing, stray, peak, last, timed_out,
                   mine, quiet>>

\* A scenario of the fixture answers a dict.  drive reads its fields and closes
\* the connection while the variable raw still holds the cursor: its RELEASE is
\* never sent.
RunScripted(id) ==
    /\ step = "idle"
    /\ driven < MaxScenarios
    /\ driven' = driven + 1
    /\ Register(Shared, id)
    /\ mine' = mine \cup {id}
    /\ UNCHANGED <<step, wanted, held, releasing, stray, base, peak, last,
                   timed_out, before, quiet>>

\* ParityGetShared: the server registers the dict, which is no weak key, anew.
GetShared(id) ==
    /\ step = "acquire"
    /\ Cardinality(held) < wanted
    /\ Register(Shared, id)
    /\ held' = held \cup {id}
    /\ mine' = mine \cup {id}
    /\ UNCHANGED <<step, wanted, releasing, stray, base, peak, last, timed_out,
                   driven, before, quiet>>

\* A mistake to catch: the cursor was made without a finalizer.
DropSilently(id) ==
    /\ held' = held \ {id}
    /\ UNCHANGED releasing

\* The variable that holds a cursor is set to None: its finalizer sends RELEASE.
DropCursor(id) ==
    /\ held' = held \ {id}
    /\ releasing' = releasing \cup {id}

\* Every reference is used, which raises if its object is gone; then peak_state
\* is read and the first reference dropped.
ReadPeak(id) ==
    /\ step = "acquire"
    /\ Cardinality(held) = wanted
    /\ id \in held
    /\ IF \A i \in held : Get(i) # None
       THEN /\ peak' = Totals
            /\ DropCursor(id)
            /\ step' = "observe"
       ELSE /\ step' = "failed"
            /\ UNCHANGED <<peak, held, releasing>>
    /\ UNCHANGED <<registryVars, wanted, stray, base, last, timed_out, driven,
                   mine, before, quiet>>

\* read_observer_state.
Observe ==
    /\ step = "observe"
    /\ last' = Totals
    /\ step' = "judge"
    /\ UNCHANGED <<registryVars, wanted, held, releasing, stray, base, peak,
                   timed_out, driven, mine, before, quiet>>

\* The predicate of the poll, of what was read some time ago.
Settled ==
    IF held # {}
    THEN last.retains <= IF base.retains = 0 THEN 1 ELSE base.retains + 1
    ELSE last.entries <= base.entries

\* The poll is over: the second reference is dropped, or the report is made.
NextRound ==
    IF held # {}
    THEN (\E id \in held : DropCursor(id)) /\ step' = "observe"
    ELSE step' = "reported" /\ UNCHANGED <<held, releasing>>

\* poll_until: end, or read again, or give up at the deadline with what was read.
Judge ==
    /\ step = "judge"
    /\ \/ Settled /\ NextRound /\ UNCHANGED timed_out
       \/ /\ ~Settled
          /\ step' = "observe"
          /\ UNCHANGED <<held, releasing, timed_out>>
       \/ ~Settled /\ NextRound /\ timed_out' = TRUE
    /\ UNCHANGED <<registryVars, wanted, stray, base, peak, last, driven, mine,
                   before, quiet>>

\* A connection to the server breaks, and the scenario with it.
Break ==
    /\ ~quiet
    /\ step \in {"acquire", "observe", "judge"}
    /\ step' = "failed"
    /\ UNCHANGED <<registryVars, wanted, held, releasing, stray, base, peak, last,
                   timed_out, driven, mine, before, quiet>>

\* close_writer: what is written may still arrive.  Cursors left over are
\* collected when the exception has been handled.
CloseWriter ==
    /\ step \in {"reported", "failed"}
    /\ step' = "idle"
    /\ stray' = stray \cup releasing \cup held
    /\ held' = {}
    /\ releasing' = {}
    /\ timed_out' = FALSE
    /\ base' = Nothing /\ peak' = Nothing /\ last' = Nothing
    /\ wanted' = 0
    /\ before' = {}
    /\ UNCHANGED <<registryVars, driven, mine, quiet>>

Acquire == \E id \in NextIds : GetShared(id)

Next ==
    \/ Strangers
    \/ \E id \in Ids : ReceiveRelease(id)
    \/ \E n \in {1, 2} : Begin(n)
    \/ \E id \in NextIds : RunScripted(id)
    \/ Acquire
    \/ \E id \in Ids : ReadPeak(id)
    \/ Observe
    \/ Judge
    \/ Break
    \/ CloseWriter

\* The driver polls and the server executes what arrives; the deadline of a poll
\* need not come before.
Spec ==
    /\ Init /\ [][Next]_vars
    /\ WF_vars(Observe)
    /\ WF_vars(Judge)
    /\ \A id \in Ids : WF_vars(id \in releasing /\ ReceiveRelease(id))

-------------------------------------------------------------------------------
(* Properties *)

\* A mistake to catch: what is left is compared with the peak.
ReleasedSincePeak == last.entries < peak.entries

\* "released" in the report.
Released == last.entries <= base.entries

\* Somebody else's entry has gone since the baseline was read.
Disturbed == \E id \in before : map[id] = None

\* A scenario reported as released has left nothing behind, whatever other
\* clients do meanwhile and however old the totals are that it was judged by,
\* unless an older entry has gone: the totals cannot tell whose entry went, and a
\* late RELEASE of an earlier scenario that timed out makes up for one of this.
ReportTruthful ==
    step = "reported" /\ Released /\ ~Disturbed
        => \A id \in mine \ before : map[id] = None

\* On a server of its own the driver ends every poll, and reports a release and
\* the right peak unless it gave up at a deadline.
EventuallyReported ==
    quiet => (step = "observe" ~>
                 /\ step = "reported"
                 /\ Released \/ timed_out
                 /\ peak.entries = base.entries + wanted \/ Disturbed)
===============================================================================
