--------------------------------- MODULE Muid ---------------------------------
(***************************************************************************)
(* proxyables/muid.py: identifiers made of the time in milliseconds and a  *)
(* counter of the identifiers made in that millisecond.  The registry uses *)
(* them as the names of remote references.                                 *)
(*                                                                         *)
(* The number make() composes, timestamp << 23 | machine_id << 9 | counter *)
(* is written in base 32; for one generator, whose machine_id does not     *)
(* change and whose counter fits 9 bits, it is as good as the pair         *)
(* <<timestamp, counter>>.  make() runs without interruption; only the     *)
(* clock moves while it waits for the next millisecond.                    *)
(***************************************************************************)
EXTENDS Integers

CONSTANTS
    MaxCounter,   \* MAX_COUNTER, 511
    MinTime,      \* the earliest time the clock may show, in ms after EPOCH
    MaxTime,      \* bound of the model: the time at which a run ends
    MaxStepBacks  \* bound of the model: how often the clock is set back

ASSUME MuidAssumption ==
    /\ MaxCounter \in Nat
    /\ MinTime \in Int
    /\ MaxTime \in Int
    /\ MaxStepBacks \in Nat

VARIABLES
    clock,           \* time.time_ns() // 1_000_000 - EPOCH
    setbacks,        \* how often the clock was set back so far
    last_timestamp,
    counter,
    pc,              \* ready, waiting (for the next ms), stuck (in the base
                     \* 32 loop)
    made,            \* history: the identifiers returned
    repeated,        \* history: whether an identifier was returned twice
    regressed        \* history: whether a wait has ended in an earlier ms

vars ==
    <<clock, setbacks, last_timestamp, counter, pc, made, repeated, regressed>>

Times == MinTime..MaxTime

TypeOK ==
    /\ clock \in Times
    /\ setbacks \in Nat
    /\ last_timestamp \in Int
    /\ counter \in 0..MaxCounter
    /\ pc \in {"ready", "waiting", "stuck"}
    /\ made \subseteq Nat \X (0..MaxCounter)
    /\ repeated \in BOOLEAN
    /\ regressed \in BOOLEAN

Init ==
    /\ clock \in Times
    /\ setbacks = 0
    /\ last_timestamp = -1
    /\ counter = 0
    /\ pc = "ready"
    /\ made = {}
    /\ repeated = FALSE
    /\ regressed = FALSE

\* make() ends with timestamp t and counter n.  For a negative number the loop
\* num >>= 5 reaches -1 and never 0.
Compose(t, n) ==
    /\ last_timestamp' = t
    /\ counter' = n
    /\ IF t >= 0
       THEN /\ made' = made \cup {<<t, n>>}
            /\ repeated' = IF <<t, n>> \in made THEN TRUE ELSE repeated
            /\ pc' = "ready"
       ELSE /\ pc' = "stuck"
            /\ UNCHANGED <<made, repeated>>

\* The time make() works with: it reuses the last one if the clock went back.
CurrentTimestamp == IF clock < last_timestamp THEN last_timestamp ELSE clock

\* make(), a millisecond later than the last identifier.
MakeInNewMs ==
    /\ pc = "ready"
    /\ CurrentTimestamp # last_timestamp
    /\ Compose(CurrentTimestamp, 0)
    /\ UNCHANGED <<clock, setbacks, regressed>>

\* A mistake to catch: the counter is not masked to its 9 bits.
MakeUnmasked ==
    /\ pc = "ready"
    /\ CurrentTimestamp = last_timestamp
    /\ Compose(last_timestamp, counter + 1)
    /\ UNCHANGED <<clock, setbacks, regressed>>

\* make(), in the millisecond of the last identifier.
MakeInSameMs ==
    /\ pc = "ready"
    /\ CurrentTimestamp = last_timestamp
    /\ counter < MaxCounter
    /\ Compose(last_timestamp, counter + 1)
    /\ UNCHANGED <<clock, setbacks, regressed>>

\* A mistake to catch: the counter wraps round and nobody waits.
WrapAround ==
    /\ pc = "ready"
    /\ CurrentTimestamp = last_timestamp
    /\ counter = MaxCounter
    /\ Compose(last_timestamp, 0)
    /\ UNCHANGED <<clock, setbacks, regressed>>

\* make(), the counter is used up: wait for the next millisecond.  (The clock
\* of the model ends at MaxTime, so the last millisecond has no next one.)
Overflow ==
    /\ pc = "ready"
    /\ CurrentTimestamp = last_timestamp
    /\ counter = MaxCounter
    /\ last_timestamp < MaxTime
    /\ counter' = 0
    /\ pc' = "waiting"
    /\ UNCHANGED <<clock, setbacks, last_timestamp, made, repeated, regressed>>

\* A mistake to catch: the loop looks for one particular millisecond.
WaitForSuccessor ==
    /\ pc = "waiting"
    /\ clock = last_timestamp + 1
    /\ Compose(clock, 0)
    /\ regressed' = IF clock < last_timestamp THEN TRUE ELSE regressed
    /\ UNCHANGED <<clock, setbacks>>

\* The loop ends when the clock shows another millisecond, a later or an
\* earlier one.
WaitEnds ==
    /\ pc = "waiting"
    /\ clock # last_timestamp
    /\ Compose(clock, 0)
    /\ regressed' = IF clock < last_timestamp THEN TRUE ELSE regressed
    /\ UNCHANGED <<clock, setbacks>>

\* Time passes; the clock may skip milliseconds.
Tick ==
    /\ \E t \in Times : t > clock /\ clock' = t
    /\ UNCHANGED <<setbacks, last_timestamp, counter, pc, made, repeated, regressed>>

\* The clock is set back (by NTP or by hand).
StepBack ==
    /\ setbacks < MaxStepBacks
    /\ setbacks' = setbacks + 1
    /\ \E t \in Times : t < clock /\ clock' = t
    /\ UNCHANGED <<last_timestamp, counter, pc, made, repeated, regressed>>

Next == MakeInNewMs \/ MakeInSameMs \/ Overflow \/ WaitEnds \/ Tick \/ StepBack

Spec == Init /\ [][Next]_vars

\* Time passes and a waiting make() reads the clock again.
FairSpec == Spec /\ WF_vars(Tick) /\ WF_vars(WaitEnds)

-------------------------------------------------------------------------------
(* Properties *)

\* Each identifier is returned once, also when more are asked for in one
\* millisecond than the counter can tell apart and when the clock skips: the
\* registry stores objects under new identifiers without looking whether one
\* is in use (registry.py:33-35).
UniqueIds == ~repeated

\* A clock that is set back does no harm as long as no wait for the next
\* millisecond ends in an earlier one: the last timestamp is used again and the
\* counter goes on.  Only the overflow loop reads the clock without comparing
\* it with the last timestamp (muid.py:50-51).
UniqueUnlessRegressed == ~regressed => UniqueIds

\* A make() that waits for the next millisecond returns, also when the clock is
\* set back while it waits, unless it is set to a time before EPOCH.
WaitReturns == pc = "waiting" ~> pc = "ready" \/ last_timestamp < 0
===============================================================================
