-------------------------- MODULE ParityDriverProofs --------------------------
(***************************************************************************)
(* Proofs about ParityDriver.  The driver compares numbers it read at      *)
(* different moments; what makes the comparison sound is that nothing a    *)
(* poll may look for can enter the registry behind its back: the entries   *)
(* of before and mine only go once the driver has its references.  So the  *)
(* number it read last bounds how many of them are left (ReadBound), and   *)
(* the baseline is the number of those it started from (BaseRight).        *)
(***************************************************************************)
EXTENDS ParityDriver, ObjectRegistryProofs, FiniteSetTheorems

\* The entries a scenario may be blamed for or credited with.
Watched == Entries \cap (before \cup mine)

\* Identifiers the driver knows were issued.
Known == mine \cup before \subseteq issued

\* A cursor of the driver has its RELEASE still to send.
Apart == held \cap (releasing \cup stray) = {}

BaseRight ==
    step \in {"acquire", "observe", "judge", "reported"}
        => base.entries = Cardinality(before)

ReadBound ==
    step \in {"judge", "reported"} => Cardinality(Watched) <= last.entries

IInv == TypeOK /\ RegistryInv /\ Known /\ Apart /\ BaseRight /\ ReadBound

-------------------------------------------------------------------------------
(* The totals *)

LEMMA SubsetsFinite == \A S \in SUBSET Ids : IsFiniteSet(S) /\ Cardinality(S) \in Nat
BY ParityAssumption, FS_Subset, FS_CardinalityType

LEMMA TotalsType ==
    ASSUME RegistryTypeOK
    PROVE  Totals \in [entries : Nat, retains : Nat]
<1>1. Cardinality(Entries) \in Nat
  BY SubsetsFinite DEF Entries
<1>2. IsFiniteSet(Retains)
  <2> DEFINE Pairs(id) == {id} \X (1..counts[id])
             All == {Pairs(id) : id \in Ids}
  <2>1. IsFiniteSet(All)
    <3> DEFINE f == [id \in Ids |-> Pairs(id)]
    <3>1. f \in Surjection(Ids, All)
      BY Zenon DEF Surjection
    <3> HIDE DEF f, All
    <3> QED BY <3>1, ParityAssumption, FS_Surjection
  <2>2. \A R \in All : IsFiniteSet(R)
    <3> SUFFICES ASSUME NEW id \in Ids PROVE IsFiniteSet(Pairs(id))
      BY Zenon
    <3>1. IsFiniteSet({id}) /\ IsFiniteSet(1..counts[id])
      <4>1. 1 \in Int /\ counts[id] \in Int
        BY DEF RegistryTypeOK
      <4> QED BY <4>1, FS_Singleton, FS_Interval
    <3> QED BY <3>1, FS_Product
  <2>3. IsFiniteSet(UNION All)
    <3> HIDE DEF All
    <3> QED BY <2>1, <2>2, FS_UNION
  <2> QED BY <2>3 DEF Retains
<1>3. Cardinality(Retains) \in Nat
  BY <1>2, FS_CardinalityType
<1> QED BY <1>1, <1>3 DEF Totals

\* Fewer entries to watch are at most as many.
LEMMA WatchedShrinks ==
    ASSUME NEW S \in SUBSET Ids, NEW T \in SUBSET S
    PROVE  Cardinality(T) <= Cardinality(S)
BY SubsetsFinite, FS_Subset

-------------------------------------------------------------------------------
(* Steps of the registry *)

DeadStay == \A id \in issued : map[id] = None => map'[id] = None /\ id \in issued'

\* Nothing but the entry of id changes its count.
Alone(id) == \A i \in Ids \ {id} : counts'[i] = counts[i]

LEMMA NextIdsType == RegistryTypeOK => NextIds \subseteq Ids
BY DEF RegistryTypeOK, NextIds

LEMMA RegisterStep ==
    ASSUME RegistryInv, NEW o \in Objects, NEW id \in Ids, Register(o, id)
    PROVE  RegistryInv' /\ DeadStay /\ Alone(id) /\ issued' = issued \cup {id}
<1>1. RegistryInv' /\ DeadStay
  BY RegisterKeepsInv, RegisterKeepsDead DEF DeadStay
<1>2. Alone(id)
  BY DEF Register, Retain, Enter, Alone, RegistryInv, RegistryTypeOK
<1>3. issued' = issued \cup {id}
  BY RegistryAssumption
  DEF Register, Retain, Enter, Existing, RegistryInv, RegistryTypeOK,
      CountedIffMapped, KeysMatchEntries
<1> QED BY <1>1, <1>2, <1>3

LEMMA DeleteStep ==
    ASSUME RegistryInv, NEW id \in Ids, Delete(id)
    PROVE  RegistryInv' /\ DeadStay /\ Alone(id) /\ issued' = issued
<1>1. RegistryInv' /\ DeadStay
  BY DeleteKeepsInv, DeleteKeepsDead DEF DeadStay
<1>2. Alone(id) /\ issued' = issued
  BY DEF Delete, ReleaseOne, Remove, Alone, RegistryInv, RegistryTypeOK
<1> QED BY <1>1, <1>2

\* The dict is no weak key: it is registered anew, with one reference.
LEMMA SharedStep ==
    ASSUME RegistryInv, NEW id \in Ids, Register(Shared, id)
    PROVE  /\ RegistryInv' /\ DeadStay /\ Alone(id)
           /\ issued' = issued \cup {id}
           /\ id \notin issued /\ counts'[id] = 1
<1>1. RegistryInv' /\ DeadStay /\ Alone(id) /\ issued' = issued \cup {id}
  BY ParityAssumption, RegisterStep
<1>2. Enter(Shared, id)
  BY ParityAssumption DEF Register, Retain, Existing
<1> QED
  BY <1>1, <1>2 DEF Enter, RegistryInv, RegistryTypeOK

\* What the driver holds is left alone by a step on another identifier, and
\* what is watched only goes.
LEMMA WatchedGoes ==
    ASSUME IInv, DeadStay, UNCHANGED <<mine, before>>
    PROVE  Cardinality(Watched') <= Cardinality(Watched)
<1>1. Watched \in SUBSET Ids /\ Watched' \subseteq Watched
  BY DEF Watched, Entries, DeadStay, IInv, Known, TypeOK, RegistryTypeOK
<1> QED BY <1>1, WatchedShrinks
-------------------------------------------------------------------------------
(* The invariant *)

LEMMA InitIInv == Init => IInv
<1> SUFFICES ASSUME Init PROVE IInv
  OBVIOUS
<1>1. RegistryInv
  BY RegistryInitInv DEF Init
<1>2. TypeOK
  <2>1. /\ wanted \in 0..2 /\ driven \in 0..MaxScenarios
        /\ Nothing \in [entries : Nat, retains : Nat]
    BY ParityAssumption DEF Init, Nothing
  <2> QED BY <1>1, <2>1 DEF Init, TypeOK, RegistryInv
<1> QED
  BY <1>1, <1>2 DEF Init, IInv, Known, Apart, BaseRight, ReadBound

\* A step of others: the registry moves, what the driver holds does not.
LEMMA RegistryMoves ==
    ASSUME IInv, RegistryInv', DeadStay, issued \subseteq issued',
           \A i \in held' \cup releasing' : counts'[i] = counts[i],
           held' = held, releasing' \subseteq releasing, stray' \subseteq stray,
           UNCHANGED <<step, wanted, base, peak, last, timed_out, driven, mine,
                       before, quiet>>
    PROVE  IInv'
<1>1. TypeOK'
  BY DEF IInv, TypeOK, RegistryInv
<1>2. Known' /\ Apart' /\ BaseRight'
  BY DEF IInv, Known, Apart, BaseRight
<1>3. ReadBound'
  <2>1. Cardinality(Watched') <= Cardinality(Watched)
    BY WatchedGoes
  <2>2. Watched \in SUBSET Ids /\ Watched' \in SUBSET Ids
    BY DEF Watched, Entries
  <2>3. Cardinality(Watched') \in Nat /\ Cardinality(Watched) \in Nat
    BY <2>2, SubsetsFinite
  <2> QED BY <2>1, <2>3 DEF IInv, TypeOK, ReadBound
<1> QED BY <1>1, <1>2, <1>3 DEF IInv

LEMMA StrangersKeep == ASSUME IInv, Strangers PROVE IInv'
<1> USE DEF IInv
<1>1. ASSUME NEW o \in Objects, NEW id \in Ids, id \notin mine, Register(o, id),
             UNCHANGED driverVars
      PROVE  IInv'
  <2>1. RegistryInv' /\ DeadStay /\ Alone(id) /\ issued \subseteq issued'
    BY <1>1, RegisterStep
  <2>2. \A i \in held' \cup releasing' : counts'[i] = counts[i]
    BY <1>1, <2>1 DEF Alone, driverVars, TypeOK
  <2> QED BY <1>1, <2>1, <2>2, RegistryMoves DEF driverVars
<1>2. ASSUME NEW id \in issued \ mine, Delete(id), UNCHANGED driverVars
      PROVE  IInv'
  <2>0. id \in Ids
    BY DEF TypeOK, RegistryTypeOK
  <2>1. RegistryInv' /\ DeadStay /\ Alone(id) /\ issued' = issued
    BY <1>2, <2>0, DeleteStep
  <2>2. \A i \in held' \cup releasing' : counts'[i] = counts[i]
    BY <1>2, <2>1 DEF Alone, driverVars, TypeOK
  <2> QED BY <1>2, <2>1, <2>2, RegistryMoves DEF driverVars
<1>3. NextIds \subseteq Ids
  BY NextIdsType DEF TypeOK
<1> QED BY <1>1, <1>2, <1>3 DEF Strangers

LEMMA ReceiveReleaseKeeps ==
    ASSUME IInv, NEW id \in Ids, ReceiveRelease(id) PROVE IInv'
<1> USE DEF IInv
<1>1. RegistryInv' /\ DeadStay /\ Alone(id) /\ issued' = issued
  BY DeleteStep DEF ReceiveRelease
<1>2. \A i \in held' \cup releasing' : counts'[i] = counts[i]
  BY <1>1 DEF ReceiveRelease, Alone, Apart, TypeOK
<1> QED BY <1>1, <1>2, RegistryMoves DEF ReceiveRelease

\* The steps of a scenario that leave the registry alone.
LEMMA DriverKeeps ==
    ASSUME IInv, UNCHANGED registryVars, TypeOK', Known', Apart', BaseRight',
           ReadBound'
    PROVE  IInv'
<1>1. RegistryInv'
  BY DEF IInv, registryVars, RegistryInv, RegistryTypeOK, CountedIffMapped,
         KeysMatchEntries
<1> QED BY <1>1 DEF IInv

LEMMA BeginKeeps == ASSUME IInv, NEW n \in {1, 2}, Begin(n) PROVE IInv'
<1> USE DEF IInv, Begin, registryVars
<1>1. Totals \in [entries : Nat, retains : Nat] /\ Totals.entries = Cardinality(Entries)
  BY TotalsType DEF TypeOK, Totals
<1>2. TypeOK'
  BY <1>1, ParityAssumption DEF TypeOK, RegistryTypeOK, Entries
<1>3. Known'
  BY DEF Known, Entries, RegistryInv, CountedIffMapped
<1>4. Apart' /\ BaseRight' /\ ReadBound'
  BY <1>1 DEF Apart, BaseRight, ReadBound
<1> QED BY <1>2, <1>3, <1>4, DriverKeeps

LEMMA RunScriptedKeeps ==
    ASSUME IInv, NEW id \in Ids, RunScripted(id) PROVE IInv'
<1> USE DEF IInv, RunScripted
<1>1. /\ RegistryInv' /\ Alone(id)
      /\ issued' = issued \cup {id} /\ id \notin issued /\ counts'[id] = 1
  BY SharedStep
<1>2. TypeOK'
  BY <1>1, ParityAssumption DEF TypeOK, RegistryInv, Known, Alone
<1>3. Known' /\ Apart' /\ BaseRight' /\ ReadBound'
  BY <1>1 DEF Known, Apart, BaseRight, ReadBound
<1> QED BY <1>1, <1>2, <1>3

LEMMA GetSharedKeeps ==
    ASSUME IInv, NEW id \in Ids, GetShared(id) PROVE IInv'
<1> USE DEF IInv, GetShared
<1>1. /\ RegistryInv' /\ Alone(id)
      /\ issued' = issued \cup {id} /\ id \notin issued /\ counts'[id] = 1
  BY SharedStep
<1>2. TypeOK'
  BY <1>1 DEF TypeOK, RegistryInv, Known, Alone
<1>3. Known' /\ Apart'
  BY <1>1 DEF Known, Apart, TypeOK
<1>4. BaseRight' /\ ReadBound'
  BY DEF BaseRight, ReadBound
<1> QED BY <1>1, <1>2, <1>3, <1>4

LEMMA ReadPeakKeeps ==
    ASSUME IInv, NEW id \in Ids, ReadPeak(id) PROVE IInv'
<1> USE DEF IInv, ReadPeak, DropCursor, registryVars
<1>1. Totals \in [entries : Nat, retains : Nat]
  BY TotalsType DEF TypeOK
<1>2. TypeOK'
  BY <1>1 DEF TypeOK, RegistryTypeOK
<1>3. Known' /\ Apart' /\ BaseRight' /\ ReadBound'
  BY DEF Known, Apart, BaseRight, ReadBound
<1> QED BY <1>2, <1>3, DriverKeeps

\* What is read counts what is watched, and maybe more.
LEMMA ObserveKeeps == ASSUME IInv, Observe PROVE IInv'
<1> USE DEF IInv, Observe, registryVars
<1>1. Totals \in [entries : Nat, retains : Nat] /\ Totals.entries = Cardinality(Entries)
  BY TotalsType DEF TypeOK, Totals
<1>2. TypeOK'
  BY <1>1 DEF TypeOK, RegistryTypeOK
<1>3. Known' /\ Apart' /\ BaseRight'
  BY DEF Known, Apart, BaseRight
<1>4. Cardinality(Watched') <= last'.entries
  <2>1. Watched' \in SUBSET Entries /\ Entries \in SUBSET Ids
    BY DEF Watched, Entries
  <2> QED BY <1>1, <2>1, WatchedShrinks
<1> QED BY <1>2, <1>3, <1>4, DriverKeeps DEF ReadBound

LEMMA JudgeKeeps == ASSUME IInv, Judge PROVE IInv'
<1> USE DEF IInv, Judge, NextRound, DropCursor, registryVars
<1>1. /\ held' \subseteq held /\ held' \cup releasing' = held \cup releasing
      /\ step' \in {"observe", "reported"} /\ timed_out' \in BOOLEAN
  BY DEF TypeOK
<1>2. TypeOK'
  BY <1>1 DEF TypeOK, RegistryTypeOK
<1>3. Known' /\ Apart' /\ BaseRight'
  BY DEF Known, Apart, BaseRight
<1>4. ReadBound'
  BY DEF ReadBound, Watched, Entries
<1> QED BY <1>2, <1>3, <1>4, DriverKeeps

LEMMA BreakKeeps == ASSUME IInv, Break PROVE IInv'
<1> USE DEF IInv, Break, registryVars
<1>1. TypeOK'
  BY DEF TypeOK, RegistryTypeOK
<1>2. Known' /\ Apart' /\ BaseRight' /\ ReadBound'
  BY DEF Known, Apart, BaseRight, ReadBound
<1> QED BY <1>1, <1>2, DriverKeeps

LEMMA CloseWriterKeeps == ASSUME IInv, CloseWriter PROVE IInv'
<1> USE DEF IInv, CloseWriter, registryVars
<1>1. Nothing \in [entries : Nat, retains : Nat]
  BY DEF Nothing
<1>2. TypeOK'
  <2>1. RegistryTypeOK' /\ wanted' \in 0..2
    BY DEF TypeOK, RegistryTypeOK
  <2>2. {held', releasing', stray', mine', before'} \subseteq SUBSET Ids
    BY DEF TypeOK
  <2>3. held' \cup releasing' \cup stray' \subseteq mine'
    BY DEF TypeOK
  <2> QED BY <1>1, <2>1, <2>2, <2>3 DEF TypeOK
<1>3. Known' /\ Apart' /\ BaseRight' /\ ReadBound'
  BY DEF Known, Apart, BaseRight, ReadBound
<1> QED BY <1>2, <1>3, DriverKeeps

LEMMA NextIInv == IInv /\ [Next]_vars => IInv'
<1> SUFFICES ASSUME IInv, [Next]_vars PROVE IInv'
  OBVIOUS
<1>1. NextIds \subseteq Ids
  BY NextIdsType DEF IInv, TypeOK
<1>2. CASE UNCHANGED vars
  <2>1. UNCHANGED registryVars /\ UNCHANGED driverVars
    BY <1>2 DEF vars
  <2>2. TypeOK' /\ Known' /\ Apart' /\ BaseRight' /\ ReadBound'
    BY <2>1 DEF IInv, registryVars, driverVars, TypeOK, RegistryTypeOK, Known,
                Apart, BaseRight, ReadBound, Watched, Entries
  <2> QED BY <2>1, <2>2, DriverKeeps
<1>3. CASE Strangers
  BY <1>3, StrangersKeep
<1>4. CASE \E id \in Ids : ReceiveRelease(id)
  BY <1>4, ReceiveReleaseKeeps
<1>5. CASE \E n \in {1, 2} : Begin(n)
  BY <1>5, BeginKeeps
<1>6. CASE \E id \in NextIds : RunScripted(id)
  BY <1>1, <1>6, RunScriptedKeeps
<1>7. CASE Acquire
  BY <1>1, <1>7, GetSharedKeeps DEF Acquire
<1>8. CASE \E id \in Ids : ReadPeak(id)
  BY <1>8, ReadPeakKeeps
<1>9. CASE Observe \/ Judge \/ Break \/ CloseWriter
  BY <1>9, ObserveKeeps, JudgeKeeps, BreakKeeps, CloseWriterKeeps
<1> QED BY <1>2, <1>3, <1>4, <1>5, <1>6, <1>7, <1>8, <1>9 DEF Next

LEMMA AlwaysIInv == Spec => []IInv
BY InitIInv, NextIInv, PTL DEF Spec

\* The types: for one, a reference that the driver holds is counted once.
THEOREM DriverTypesKept == Spec => []TypeOK
<1>1. IInv => TypeOK
  BY DEF IInv
<1> QED BY <1>1, AlwaysIInv, PTL

\* The registry that all connections share stays consistent.
THEOREM SharedRegistryConsistent == Spec => [](CountedIffMapped /\ KeysMatchEntries)
<1>1. IInv => CountedIffMapped /\ KeysMatchEntries
  BY DEF IInv, RegistryInv
<1> QED BY <1>1, AlwaysIInv, PTL

\* A released scenario left nothing in the registry, unless an older entry went
\* meanwhile: comparing totals is sound up to that.
THEOREM ReportsAreTruthful == Spec => []ReportTruthful
<1>1. IInv => ReportTruthful
  <2> SUFFICES ASSUME IInv, step = "reported", last.entries <= base.entries,
                      \A id \in before : map[id] # None,
                      NEW id \in mine \ before, map[id] # None
               PROVE  FALSE
    BY DEF ReportTruthful, Released, Disturbed
  <2>1. before \in SUBSET Ids /\ id \in Ids /\ Watched \in SUBSET Ids
    BY DEF IInv, TypeOK, Watched, Entries
  <2>2. before \cup {id} \in SUBSET Watched
    BY <2>1 DEF Watched, Entries
  <2>3. Cardinality(before \cup {id}) = Cardinality(before) + 1
    BY <2>1, SubsetsFinite, FS_AddElement
  <2>4. Cardinality(before \cup {id}) <= Cardinality(Watched)
    BY <2>1, <2>2, WatchedShrinks
  <2>5. Cardinality(Watched) <= last.entries /\ base.entries = Cardinality(before)
    BY DEF IInv, ReadBound, BaseRight
  <2>6. Cardinality(Watched) \in Nat /\ Cardinality(before) \in Nat /\ last.entries \in Nat
    BY <2>1, SubsetsFinite DEF IInv, TypeOK
  <2> QED BY <2>3, <2>4, <2>5, <2>6
<1> QED BY <1>1, AlwaysIInv, PTL

\* The reference a client is answered leads to an object equal to the one it
\* stands for, though all clients register in one table.
THEOREM SharedReferencesEqual == Spec => ReferenceIsEqual
<1>1. IInv => RegistryInv
  BY DEF IInv
<1> QED BY <1>1, RegisterFindsEqual, AlwaysIInv, PTL DEF ReferenceIsEqual
===============================================================================
