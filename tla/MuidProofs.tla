------------------------------ MODULE MuidProofs ------------------------------
(* MUIDGenerator.make repeats no identifier unless a wait for the next      *)
(* millisecond ends in an earlier one, and that needs a clock that is set   *)
(* back.  The argument: every identifier made so far is lexicographically   *)
(* at most <<last_timestamp, counter>>, and make() moves on from there.     *)
EXTENDS Muid, TLAPS

\* What was made sorts at or before the generator's position.
Ordered ==
    \A id \in made : /\ id[1] <= last_timestamp
                     /\ id[1] = last_timestamp /\ pc # "waiting" => id[2] <= counter

IInv == TypeOK /\ (~regressed => Ordered /\ UniqueIds)

-------------------------------------------------------------------------------
(* Uniqueness *)

LEMMA InitIInv == Init => IInv
  <1> SUFFICES ASSUME Init PROVE IInv
    OBVIOUS
  <1>1. repeated \in BOOLEAN /\ regressed \in BOOLEAN /\ ~repeated
    BY DEF Init
  <1>2. TypeOK
    BY <1>1, MuidAssumption DEF Init, TypeOK, Times
  <1>3. Ordered
    BY DEF Init, Ordered
  <1> QED
    BY <1>1, <1>2, <1>3 DEF IInv, UniqueIds

\* make() that ends at a position after everything made so far makes a new
\* identifier, and everything made sorts at or before that position.
LEMMA ComposeMovesOn ==
    ASSUME TypeOK, Ordered, UniqueIds,
           NEW t \in Int, NEW n \in 0..MaxCounter, Compose(t, n),
           \A id \in made : id[1] < t \/ (id[1] = t /\ id[2] < n)
    PROVE  Ordered' /\ UniqueIds'
  <1>1. \A id \in made : id[1] \in Nat /\ id[2] \in 0..MaxCounter
    BY DEF TypeOK
  <1>2. CASE t >= 0
    <2>1. /\ made' = made \cup {<<t, n>>}
          /\ repeated' = IF <<t, n>> \in made THEN TRUE ELSE repeated
          /\ last_timestamp' = t /\ counter' = n
      BY <1>2 DEF Compose
    <2>2. <<t, n>> \notin made
      BY MuidAssumption
    <2>3. UniqueIds'
      BY <2>1, <2>2 DEF UniqueIds
    <2>4. Ordered'
      BY <1>1, <2>1, MuidAssumption DEF Ordered
    <2> QED
      BY <2>3, <2>4
  <1>3. CASE ~(t >= 0)
    BY <1>1, <1>3, MuidAssumption DEF Compose, Ordered, UniqueIds
  <1> QED
    BY <1>2, <1>3

\* make() leaves values of the right types.
LEMMA ComposeTypes ==
    ASSUME TypeOK, NEW t \in Int, NEW n \in 0..MaxCounter, Compose(t, n)
    PROVE  /\ last_timestamp' \in Int
           /\ counter' \in 0..MaxCounter
           /\ pc' \in {"ready", "waiting", "stuck"}
           /\ made' \subseteq Nat \X (0..MaxCounter)
           /\ repeated' \in BOOLEAN
  <1>1. CASE t >= 0
    <2>1. repeated' \in BOOLEAN
      BY <1>1 DEF Compose, TypeOK
    <2> QED
      BY <1>1, <2>1 DEF Compose, TypeOK
  <1>2. CASE ~(t >= 0)
    <2>1. repeated' \in BOOLEAN
      BY <1>2 DEF Compose, TypeOK
    <2> QED
      BY <1>2, <2>1 DEF Compose, TypeOK
  <1> QED
    BY <1>1, <1>2

LEMMA TypeKept == ASSUME TypeOK, [Next]_vars PROVE TypeOK'
  <1>1. clock' \in Times
    BY DEF Next, MakeInNewMs, MakeInSameMs, Overflow, WaitEnds, Tick, StepBack,
           vars, TypeOK
  <1>2. regressed' \in BOOLEAN
    BY DEF Next, MakeInNewMs, MakeInSameMs, Overflow, WaitEnds, Tick, StepBack,
           vars, TypeOK
  <1>10. setbacks' \in Nat
    <2>1. CASE StepBack
      BY <2>1 DEF StepBack, TypeOK
    <2>2. CASE ~StepBack
      <3>1. setbacks' = setbacks
        BY <2>2 DEF Next, MakeInNewMs, MakeInSameMs, Overflow, WaitEnds, Tick, vars
      <3> QED
        BY <3>1 DEF TypeOK
    <2> QED
      BY <2>1, <2>2
  <1>3. clock \in Int /\ last_timestamp \in Int /\ counter \in 0..MaxCounter
    BY MuidAssumption DEF TypeOK, Times
  <1>4. CASE \E t \in Int, n \in 0..MaxCounter : Compose(t, n)
    BY <1>10, <1>1, <1>2, <1>4, ComposeTypes DEF TypeOK
  <1>5. CASE UNCHANGED <<last_timestamp, made, repeated>>
             /\ counter' \in 0..MaxCounter /\ pc' \in {"ready", "waiting", "stuck"}
    BY <1>10, <1>1, <1>2, <1>5 DEF TypeOK
  <1>6. MakeInNewMs => \E t \in Int, n \in 0..MaxCounter : Compose(t, n)
    BY <1>3, MuidAssumption DEF MakeInNewMs, CurrentTimestamp
  <1>7. MakeInSameMs => \E t \in Int, n \in 0..MaxCounter : Compose(t, n)
    BY <1>3, MuidAssumption DEF MakeInSameMs
  <1>8. WaitEnds => \E t \in Int, n \in 0..MaxCounter : Compose(t, n)
    BY <1>3, MuidAssumption DEF WaitEnds
  <1>9. Overflow \/ Tick \/ StepBack \/ UNCHANGED vars
        => UNCHANGED <<last_timestamp, made, repeated>>
           /\ counter' \in 0..MaxCounter /\ pc' \in {"ready", "waiting", "stuck"}
    BY <1>3, MuidAssumption DEF Overflow, Tick, StepBack, vars, TypeOK
  <1> QED
    BY <1>4, <1>5, <1>6, <1>7, <1>8, <1>9 DEF Next

LEMMA NextIInv == ASSUME IInv, [Next]_vars PROVE IInv'
  <1>1. TypeOK'
    BY TypeKept DEF IInv
  <1>2. SUFFICES ASSUME ~regressed' PROVE Ordered' /\ UniqueIds'
    BY <1>1 DEF IInv
  <1>3. ~regressed
    BY <1>2 DEF Next, MakeInNewMs, MakeInSameMs, Overflow, WaitEnds, Tick,
                StepBack, vars, IInv, TypeOK
  <1>4. TypeOK /\ Ordered /\ UniqueIds
    BY <1>3 DEF IInv
  <1>5. /\ clock \in Int /\ last_timestamp \in Int /\ counter \in 0..MaxCounter
        /\ \A id \in made : id[1] \in Nat /\ id[2] \in 0..MaxCounter
    BY <1>4, MuidAssumption DEF TypeOK, Times
  <1>6. CASE MakeInNewMs
    <2>1. CurrentTimestamp = clock /\ clock > last_timestamp
      BY <1>5, <1>6 DEF MakeInNewMs, CurrentTimestamp
    <2>2. \A id \in made : id[1] < clock
      BY <1>4, <1>5, <2>1 DEF Ordered
    <2> QED
      BY <1>4, <1>5, <1>6, <2>1, <2>2, ComposeMovesOn, MuidAssumption
         DEF MakeInNewMs
  <1>7. CASE MakeInSameMs
    <2>1. \A id \in made : id[1] < last_timestamp
                           \/ (id[1] = last_timestamp /\ id[2] < counter + 1)
      BY <1>4, <1>5, <1>7 DEF MakeInSameMs, Ordered
    <2> QED
      BY <1>4, <1>5, <1>7, <2>1, ComposeMovesOn, MuidAssumption DEF MakeInSameMs
  <1>8. CASE Overflow
    BY <1>4, <1>8 DEF Overflow, Ordered, UniqueIds
  <1>9. CASE WaitEnds
    <2>1. clock > last_timestamp
      BY <1>2, <1>5, <1>9 DEF WaitEnds
    <2>2. \A id \in made : id[1] < clock
      BY <1>4, <1>5, <2>1 DEF Ordered
    <2> QED
      BY <1>4, <1>5, <1>9, <2>2, ComposeMovesOn, MuidAssumption DEF WaitEnds
  <1>10. CASE Tick \/ StepBack \/ UNCHANGED vars
    BY <1>4, <1>10 DEF Tick, StepBack, vars, Ordered, UniqueIds
  <1> QED
    BY <1>6, <1>7, <1>8, <1>9, <1>10 DEF Next

\* No identifier is returned twice as long as no wait for the next millisecond
\* ends in an earlier one, whatever the clock does otherwise (muid.py:39-60).
THEOREM UniqueUntilRegress == Spec => [](TypeOK /\ UniqueUnlessRegressed)
  <1>1. Init => IInv
    BY InitIInv
  <1>2. IInv /\ [Next]_vars => IInv'
    BY NextIInv
  <1>3. IInv => TypeOK /\ UniqueUnlessRegressed
    BY DEF IInv, UniqueUnlessRegressed
  <1> QED
    BY <1>1, <1>2, <1>3, PTL DEF Spec

\* Whatever the clock does, the counter stays within its width and every
\* identifier is a timestamp that is not negative and a counter (muid.py:39-60).
THEOREM TypesKept == Spec => []TypeOK
  BY UniqueUntilRegress, PTL

-------------------------------------------------------------------------------
(* A clock that is not set back *)

\* last_timestamp is a time the clock has shown, or its initial value, and a
\* wait ends in an earlier millisecond only where make() is stuck.
NotAhead ==
    /\ last_timestamp <= clock \/ last_timestamp = -1
    /\ regressed => pc = "stuck"

\* A clock that is not set back is behind last_timestamp only while that is the
\* initial -1: the time is before EPOCH, where make() is stuck.
LEMMA NextNotAhead ==
    ASSUME MaxStepBacks = 0, TypeOK, NotAhead, [Next]_vars PROVE NotAhead'
  <1> USE MuidAssumption DEF NotAhead
  <1>0. clock \in Int /\ last_timestamp \in Int
    BY DEF TypeOK, Times
  <1>1. CASE MakeInNewMs
    BY <1>0, <1>1 DEF MakeInNewMs, Compose, CurrentTimestamp
  <1>2. CASE MakeInSameMs
    BY <1>0, <1>2 DEF MakeInSameMs, Compose
  <1>3. CASE Overflow
    BY <1>0, <1>3 DEF Overflow
  <1>4. CASE WaitEnds
    <2>1. last_timestamp' = clock'
      BY <1>4 DEF WaitEnds, Compose
    <2>2. pc = "waiting" /\ ~regressed
      BY <1>4 DEF WaitEnds
    <2>3. CASE clock < last_timestamp
      <3>1. ~(clock >= 0)
        BY <1>0, <2>3
      <3>2. pc' = "stuck"
        BY <1>4, <3>1 DEF WaitEnds, Compose
      <3> QED
        BY <1>0, <1>4, <2>1, <3>2 DEF WaitEnds
    <2>4. CASE ~(clock < last_timestamp)
      <3>1. ~regressed'
        BY <1>4, <2>2, <2>4 DEF WaitEnds
      <3> QED
        BY <1>0, <1>4, <2>1, <3>1 DEF WaitEnds
    <2> QED
      BY <2>3, <2>4
  <1>5. CASE Tick
    BY <1>0, <1>5 DEF Tick, Times
  <1>6. CASE UNCHANGED vars
    BY <1>6 DEF vars
  <1>7. ~StepBack
    BY DEF StepBack, TypeOK
  <1> QED
    BY <1>1, <1>2, <1>3, <1>4, <1>5, <1>6, <1>7 DEF Next

\* While the clock is not set back no identifier is returned twice, for every
\* width of the counter and however the clock skips: the assumption under which
\* the registry may take what muid() returns as new (registry.py:33-35).
THEOREM UniqueIfMonotone == ASSUME MaxStepBacks = 0 PROVE Spec => []UniqueIds
  <1> DEFINE J == IInv /\ NotAhead /\ UniqueIds
  <1>1. Init => J
    BY InitIInv DEF Init, NotAhead, UniqueIds
  <1>2. J /\ [Next]_vars => J'
    <2> SUFFICES ASSUME J, [Next]_vars PROVE J'
      OBVIOUS
    <2>1. IInv'
      BY NextIInv
    <2>2. NotAhead'
      BY NextNotAhead DEF IInv
    <2>3. CASE ~regressed'
      BY <2>1, <2>2, <2>3 DEF IInv
    <2>4. CASE regressed'
      <3>1. pc' = "stuck"
        BY <2>2, <2>4 DEF NotAhead
      <3>2. repeated' = repeated
        BY <3>1 DEF Next, MakeInNewMs, MakeInSameMs, Overflow, WaitEnds, Tick,
                    StepBack, vars, Compose
      <3> QED
        BY <2>1, <2>2, <3>2 DEF UniqueIds
    <2> QED
      BY <2>3, <2>4
  <1>3. J => UniqueIds
    OBVIOUS
  <1> QED
    BY <1>1, <1>2, <1>3, PTL DEF Spec
===============================================================================
