------------------------ MODULE RemoteReferencesProofs ------------------------
(***************************************************************************)
(* Proofs about the reference-counting protocol, for any number of peers,  *)
(* calls, objects and identifiers, with cancelled callers and lost         *)
(* connections.  The counts of the registry are tied to the phases of the  *)
(* calls; from that balance it follows that held references resolve.       *)
(***************************************************************************)
EXTENDS RemoteReferences, ObjectRegistryProofs, FiniteSetTheorems

\* The calls the registry counts a reference for under an identifier.
Counting(id) == {c \in Calls : ref[c] = id /\ phase[c] \in Counted}

CallsTypeOK ==
    /\ open \in [Peers -> BOOLEAN]
    /\ phase \in [Calls -> Phases]
    /\ conn \in [Calls -> Peers \cup {None}]
    /\ via \in [Calls -> Calls \cup {Root, None}]
    /\ ref \in [Calls -> Ids \cup {None}]
    /\ ahead \in [Calls -> SUBSET Calls]
    /\ abandoned \subseteq Calls
    /\ held \subseteq Calls

IInv == RegistryInv /\ CallsTypeOK /\ RefsGiven /\ RetainsBalance

-------------------------------------------------------------------------------
(* Counting references *)

LEMMA CountingFinite ==
    ASSUME NEW id PROVE IsFiniteSet(Counting(id)) /\ Cardinality(Counting(id)) \in Nat
<1>1. IsFiniteSet(Calls) /\ Counting(id) \in SUBSET Calls
  BY ReferenceAssumption DEF Counting
<1> QED BY <1>1, FS_Subset, FS_CardinalityType

LEMMA BalanceOf ==
    ASSUME RetainsBalance, NEW id \in Ids
    PROVE  counts[id] = Cardinality(Counting(id))
BY DEF RetainsBalance, Counting

\* A step that leaves the registry alone and no call enters or leaves Counted.
LEMMA UncountedStep ==
    ASSUME IInv, UNCHANGED registryVars, CallsTypeOK',
           \A c \in Calls : phase'[c] \in Counted <=> phase[c] \in Counted,
           \A c \in Calls : phase[c] \in Counted => ref'[c] = ref[c]
    PROVE  IInv'
<1>1. RegistryInv'
  BY DEF IInv, registryVars, RegistryInv, RegistryTypeOK, CountedIffMapped,
         KeysMatchEntries
<1>2. RefsGiven'
  BY DEF IInv, RefsGiven
<1>3. RetainsBalance'
  <2> SUFFICES ASSUME NEW id \in Ids
               PROVE  counts'[id] = Cardinality(Counting(id)')
    BY DEF RetainsBalance, Counting
  <2>1. Counting(id)' = Counting(id)
    BY DEF Counting
  <2> QED BY <2>1, BalanceOf DEF IInv, registryVars
<1> QED BY <1>1, <1>2, <1>3 DEF IInv

\* A counted reference leads to an object.
LEMMA CountedResolves ==
    ASSUME IInv, NEW c \in Calls, phase[c] \in Counted
    PROVE  ref[c] \in Ids /\ Get(ref[c]) # None
<1>1. ref[c] \in Ids
  BY DEF IInv, RefsGiven
<1>2. c \in Counting(ref[c])
  BY DEF Counting
<1>3. Cardinality(Counting(ref[c])) # 0
  BY <1>2, CountingFinite, FS_EmptySet
<1>4. counts[ref[c]] # 0
  BY <1>1, <1>3, BalanceOf DEF IInv
<1> QED
  BY <1>1, <1>4 DEF IInv, RegistryInv, RegistryTypeOK, CountedIffMapped, Get

-------------------------------------------------------------------------------
(* The two steps that change the registry *)

LEMMA ReturnReferenceIInv ==
    ASSUME IInv, NEW c \in Calls, NEW o \in Objects, NEW id \in Ids,
           ReturnReference(c, o, id)
    PROVE  IInv'
<1> USE DEF ReturnReference
<1>1. RegistryInv'
  BY RegisterKeepsInv DEF IInv
<1>2. CallsTypeOK'
  BY DEF IInv, CallsTypeOK, Phases
<1>3. phase'[c] \in Counted /\ ref'[c] = id /\ phase[c] \notin Counted
  BY DEF IInv, CallsTypeOK, Counted
<1>4. \A d \in Calls \ {c} : phase'[d] = phase[d] /\ ref'[d] = ref[d]
  BY DEF IInv, CallsTypeOK
<1>5. RefsGiven'
  BY <1>3, <1>4 DEF IInv, RefsGiven
<1>6. counts' = [counts EXCEPT ![id] = counts[id] + 1]
  <2>1. CASE Retain(o, id)
    BY <2>1 DEF Retain
  <2>2. CASE Enter(o, id)
    <3>1. counts[id] = 0
      BY <2>2 DEF Enter, IInv, RegistryInv, RegistryTypeOK, CountedIffMapped
    <3> QED BY <2>2, <3>1 DEF Enter
  <2> QED BY <2>1, <2>2 DEF Register
<1>7. RetainsBalance'
  <2> SUFFICES ASSUME NEW i \in Ids
               PROVE  counts'[i] = Cardinality(Counting(i)')
    BY DEF RetainsBalance, Counting
  <2>1. CASE i = id
    <3>1. Counting(i)' = Counting(i) \cup {c} /\ c \notin Counting(i)
      BY <1>3, <1>4, <2>1 DEF Counting
    <3>2. Cardinality(Counting(i)') = Cardinality(Counting(i)) + 1
      BY <3>1, CountingFinite, FS_AddElement
    <3> QED
      BY <1>6, <2>1, <3>2, BalanceOf DEF IInv, RegistryInv, RegistryTypeOK
  <2>2. CASE i # id
    <3>1. Counting(i)' = Counting(i)
      BY <1>3, <1>4, <2>2 DEF Counting
    <3> QED
      BY <1>6, <2>2, <3>1, BalanceOf DEF IInv, RegistryInv, RegistryTypeOK
  <2> QED BY <2>1, <2>2
<1> QED BY <1>1, <1>2, <1>5, <1>7 DEF IInv

LEMMA ReceiveReleaseIInv ==
    ASSUME IInv, NEW c \in Calls, ReceiveRelease(c)
    PROVE  IInv'
<1> USE DEF ReceiveRelease
<1> DEFINE id == ref[c]
<1>1. phase[c] \in Counted /\ id \in Ids
  BY DEF IInv, RefsGiven, Counted
<1>2. RegistryInv'
  BY <1>1, DeleteKeepsInv DEF IInv
<1>3. CallsTypeOK'
  BY DEF IInv, CallsTypeOK, Phases
<1>4. phase'[c] \notin Counted /\ ref' = ref
  BY DEF IInv, CallsTypeOK, Counted
<1>5. \A d \in Calls \ {c} : phase'[d] = phase[d]
  BY DEF IInv, CallsTypeOK
<1>6. RefsGiven'
  BY <1>4, <1>5 DEF IInv, RefsGiven
<1>7. c \in Counting(id)
  BY <1>1 DEF Counting
<1>8. counts[id] = Cardinality(Counting(id)) /\ counts[id] \in Nat /\ counts[id] # 0
  BY <1>1, <1>7, BalanceOf, CountingFinite, FS_EmptySet DEF IInv
<1>9. counts' = [counts EXCEPT ![id] = counts[id] - 1]
  <2>1. CASE ReleaseOne(id)
    BY <2>1 DEF ReleaseOne
  <2>2. CASE Remove(id)
    <3>1. counts[id] - 1 = 0
      BY <1>8, <2>2 DEF Remove
    <3> QED BY <2>2, <3>1 DEF Remove
  <2> QED BY <2>1, <2>2 DEF Delete
<1>10. RetainsBalance'
  <2> SUFFICES ASSUME NEW i \in Ids
               PROVE  counts'[i] = Cardinality(Counting(i)')
    BY DEF RetainsBalance, Counting
  <2>1. CASE i = id
    <3>1. Counting(i)' = Counting(i) \ {c}
      BY <1>4, <1>5, <2>1 DEF Counting
    <3>2. Cardinality(Counting(i)') = Cardinality(Counting(i)) - 1
      BY <1>7, <2>1, <3>1, CountingFinite, FS_RemoveElement
    <3> QED
      BY <1>8, <1>9, <2>1, <3>2 DEF IInv, RegistryInv, RegistryTypeOK
  <2>2. CASE i # id
    <3>1. Counting(i)' = Counting(i)
      BY <1>4, <1>5, <2>2 DEF Counting
    <3> QED
      BY <1>9, <2>2, <3>1, BalanceOf DEF IInv, RegistryInv, RegistryTypeOK
  <2> QED BY <2>1, <2>2
<1> QED BY <1>2, <1>3, <1>6, <1>10 DEF IInv

-------------------------------------------------------------------------------
(* Every step *)

LEMMA InitIInv == Init => IInv
<1> SUFFICES ASSUME Init PROVE IInv
  OBVIOUS
<1>1. RegistryInv
  BY RegistryInitInv DEF Init
<1>2. CallsTypeOK /\ RefsGiven
  BY DEF Init, CallsTypeOK, RefsGiven, Phases, Counted
<1>3. RetainsBalance
  <2>1. \A id \in Ids : Counting(id) = {}
    BY DEF Init, Counting, Counted
  <2> QED BY <2>1, FS_EmptySet DEF Init, RegistryInit, RetainsBalance, Counting
<1> QED BY <1>1, <1>2, <1>3 DEF IInv

\* The steps of the importing side change no reference count.
LEMMA ImporterIInv ==
    ASSUME IInv, NEW c \in Calls,
           \/ \E p \in Peers, v \in Calls \cup {Root} : Build(c, p, v)
           \/ Send(c)
           \/ ReceiveReply(c)
           \/ Drop(c)
           \/ SendRelease(c)
           \/ Cancel(c)
    PROVE  IInv'
<1> USE DEF IInv, CallsTypeOK, Phases, Counted
<1>1. CASE \E p \in Peers, v \in Calls \cup {Root} : Build(c, p, v)
  BY <1>1, UncountedStep DEF Build
<1>2. CASE Send(c)
  BY <1>2, UncountedStep DEF Send
<1>3. CASE ReceiveReply(c)
  BY <1>3, UncountedStep DEF ReceiveReply
<1>4. CASE Drop(c)
  BY <1>4, UncountedStep DEF Drop
<1>5. CASE SendRelease(c)
  <2>1. AheadOf(c) \subseteq Calls
    BY DEF AheadOf
  <2> QED BY <1>5, <2>1, UncountedStep DEF SendRelease
<1>6. CASE Cancel(c)
  BY <1>6, UncountedStep DEF Cancel
<1> QED BY <1>1, <1>2, <1>3, <1>4, <1>5, <1>6

\* Nor do the lookup of a call, a plain result and the end of a connection.
LEMMA ExporterIInv ==
    ASSUME IInv, NEW c \in Calls, ReceiveExecute(c) \/ ReturnValue(c)
    PROVE  IInv'
<1> USE DEF IInv, CallsTypeOK, Phases, Counted
<1>1. CASE ReceiveExecute(c)
  BY <1>1, UncountedStep DEF ReceiveExecute
<1>2. CASE ReturnValue(c)
  BY <1>2, UncountedStep DEF ReturnValue
<1> QED BY <1>1, <1>2

LEMMA CloseIInv ==
    ASSUME IInv, NEW p \in Peers, Close(p)
    PROVE  IInv'
<1> DEFINE Ended(c) ==
      CASE conn[c] = p /\ phase[c] = "sent" -> "failed"
        [] conn[c] = p /\ phase[c] \in {"replied", "releasing"} -> "leaked"
        [] OTHER -> phase[c]
<1>1. phase' = [c \in Calls |-> Ended(c)]
  BY DEF Close
<1>2. ASSUME NEW c \in Calls
      PROVE  Ended(c) \in Phases /\ (Ended(c) \in Counted <=> phase[c] \in Counted)
  BY DEF IInv, CallsTypeOK, Phases, Counted
<1> HIDE DEF Ended
<1>3. /\ UNCHANGED registryVars /\ ref' = ref
      /\ open' = [open EXCEPT ![p] = FALSE]
      /\ UNCHANGED <<conn, via, ahead, abandoned, held>>
  BY DEF Close
<1>4. phase' \in [Calls -> Phases]
  BY <1>1, <1>2
<1>5. CallsTypeOK'
  BY <1>3, <1>4 DEF IInv, CallsTypeOK
<1>6. \A c \in Calls : phase'[c] \in Counted <=> phase[c] \in Counted
  BY <1>1, <1>2
<1> QED BY <1>3, <1>5, <1>6, UncountedStep

LEMMA NextIInv == IInv /\ [Next]_vars => IInv'
<1> SUFFICES ASSUME IInv, [Next]_vars PROVE IInv'
  OBVIOUS
<1>1. ASSUME NEW c \in Calls, ReceiveRelease(c) PROVE IInv'
  BY <1>1, ReceiveReleaseIInv
<1>2. ASSUME NEW c \in Calls, NEW o \in Objects, NEW id \in Ids,
             ReturnReference(c, o, id)
      PROVE  IInv'
  BY <1>2, ReturnReferenceIInv
<1>3. ASSUME NEW p \in Peers, Close(p) PROVE IInv'
  BY <1>3, CloseIInv
<1>4. CASE UNCHANGED vars
  <2>1. UNCHANGED registryVars /\ UNCHANGED callVars
    BY <1>4 DEF vars
  <2>2. CallsTypeOK'
    BY <2>1 DEF IInv, CallsTypeOK, callVars
  <2> QED BY <2>1, <2>2, UncountedStep DEF callVars
<1> QED
  BY <1>1, <1>2, <1>3, <1>4, ImporterIInv, ExporterIInv DEF Next, Receive, Finish

-------------------------------------------------------------------------------
(* What follows *)

LEMMA AlwaysIInv == Spec => []IInv
BY InitIInv, NextIInv, PTL DEF Spec

\* The states of the model are those its comments describe.
THEOREM TypeCorrect == Spec => []TypeOK
<1>1. IInv => TypeOK
  BY DEF IInv, CallsTypeOK, RegistryInv, TypeOK
<1> QED BY <1>1, AlwaysIInv, PTL

\* Whatever peers, callers and connections do, the count of every entry is the
\* number of references handed out and not yet given back.
THEOREM CountsBalance == Spec => []RetainsBalance
<1>1. IInv => RetainsBalance
  BY DEF IInv
<1> QED BY <1>1, AlwaysIInv, PTL

\* A reference that a peer holds or is about to receive leads to an object.
THEOREM ReferencesResolve == Spec => []LiveReferencesResolve
<1>1. IInv => LiveReferencesResolve
  BY CountedResolves DEF LiveReferencesResolve, Counted
<1> QED BY <1>1, AlwaysIInv, PTL

\* The protocol keeps the registry consistent, whatever RELEASE it sends when.
THEOREM RegistryStaysConsistent == Spec => [](CountedIffMapped /\ KeysMatchEntries)
<1>1. IInv => CountedIffMapped /\ KeysMatchEntries
  BY DEF IInv, RegistryInv
<1> QED BY <1>1, AlwaysIInv, PTL

-------------------------------------------------------------------------------
(* Uses of cursors that are held *)

\* A call made through a cursor goes over the connection of that cursor.
BuiltFrom ==
    \A c \in Calls : phase[c] # "unused" /\ via[c] # Root =>
        /\ via[c] \in Calls
        /\ phase[via[c]] # "unused"
        /\ conn[via[c]] = conn[c]

\* The reference c uses is counted, and if its RELEASE is under way, that is
\* behind the request of c.
TargetKept(c) ==
    via[c] # Root =>
        \/ phase[via[c]] \in {"live", "dropped", "leaked"}
        \/ phase[via[c]] = "releasing" /\ c \in ahead[via[c]]

HeldTargets ==
    \A c \in held : /\ phase[c] \notin {"unused", "built", "refused"}
                    /\ phase[c] = "sent" => TargetKept(c)

HeldInv == IInv /\ BuiltFrom /\ HeldTargets

\* A call whose target is kept when it is executed finds it.
LEMMA KeptResolves ==
    ASSUME HeldInv, NEW c \in Calls, phase[c] = "sent", TargetKept(c)
    PROVE  Resolves(via[c])
<1>1. CASE via[c] = Root
  BY <1>1 DEF Resolves
<1>2. CASE via[c] # Root
  <2>1. via[c] \in Calls
    BY <1>2 DEF HeldInv, BuiltFrom
  <2>2. phase[via[c]] \in Counted
    BY <1>2 DEF TargetKept, Counted
  <2> QED BY <2>1, <2>2, CountedResolves DEF HeldInv, Resolves
<1> QED BY <1>1, <1>2

LEMMA NextBuiltFrom ==
    ASSUME HeldInv, [Next]_vars PROVE BuiltFrom'
<1> USE DEF HeldInv, IInv, CallsTypeOK
<1>1. ASSUME NEW c \in Calls, NEW p \in Peers, NEW v \in Calls \cup {Root},
             Build(c, p, v)
      PROVE  BuiltFrom'
  BY <1>1 DEF Build, BuiltFrom
<1>2. ASSUME UNCHANGED <<conn, via>>,
             \A c \in Calls : phase[c] = "unused" <=> phase'[c] = "unused"
      PROVE  BuiltFrom'
  BY <1>2 DEF BuiltFrom
<1>3. ASSUME NEW c \in Calls,
             \/ Send(c) \/ ReceiveReply(c) \/ Drop(c) \/ SendRelease(c) \/ Cancel(c)
             \/ Receive(c) \/ Finish(c)
      PROVE  BuiltFrom'
  BY <1>2, <1>3 DEF Send, ReceiveReply, Drop, SendRelease, Cancel, Receive,
     ReceiveExecute, ReceiveRelease, Finish, ReturnValue, ReturnReference
<1>4. ASSUME NEW p \in Peers, Close(p) PROVE BuiltFrom'
  BY <1>2, <1>4 DEF Close
<1>5. CASE UNCHANGED vars
  BY <1>2, <1>5 DEF vars, callVars
<1> QED BY <1>1, <1>3, <1>4, <1>5 DEF Next

LEMMA NextHeldTargets ==
    ASSUME HeldInv, [Next]_vars PROVE HeldTargets'
<1> USE DEF HeldInv, IInv, CallsTypeOK, HeldTargets, TargetKept
<1>0. held \subseteq Calls
  OBVIOUS
<1>1. ASSUME NEW c \in Calls, NEW p \in Peers, NEW v \in Calls \cup {Root},
             Build(c, p, v)
      PROVE  HeldTargets'
  BY <1>1, ReferenceAssumption DEF Build, BuiltFrom
<1>2. ASSUME NEW c \in Calls, Send(c) PROVE HeldTargets'
  BY <1>2 DEF Send, BuiltFrom
<1>3. ASSUME NEW c \in Calls, ReceiveReply(c) \/ Drop(c) \/ Cancel(c)
      PROVE  HeldTargets'
  BY <1>3 DEF ReceiveReply, Drop, Cancel, BuiltFrom
<1>4. ASSUME NEW c \in Calls, SendRelease(c) PROVE HeldTargets'
  <2> SUFFICES ASSUME NEW d \in held
               PROVE  /\ phase'[d] \notin {"unused", "built", "refused"}
                      /\ phase'[d] = "sent" => TargetKept(d)'
    BY <1>4 DEF SendRelease
  <2>1. phase'[d] \notin {"unused", "built", "refused"}
    BY <1>4 DEF SendRelease
  <2>2. ASSUME phase'[d] = "sent", via[d] # Root, via[d] = c PROVE TargetKept(d)'
    <3>1. phase[d] = "sent" /\ conn[d] = conn[c]
      BY <1>4, <2>2 DEF SendRelease, BuiltFrom
    <3>2. d \in AheadOf(c)
      BY <3>1 DEF AheadOf
    <3> QED BY <1>4, <2>2, <3>2 DEF SendRelease
  <2>3. ASSUME phase'[d] = "sent", via[d] # Root, via[d] # c PROVE TargetKept(d)'
    BY <1>4, <2>3 DEF SendRelease, BuiltFrom
  <2>4. ASSUME via[d] = Root PROVE TargetKept(d)'
    BY <1>4, <2>4 DEF SendRelease
  <2> QED BY <2>1, <2>2, <2>3, <2>4
<1>5. ASSUME NEW c \in Calls, ReceiveExecute(c) PROVE HeldTargets'
  <2>1. c \in held => Resolves(via[c])
    BY <1>5, KeptResolves DEF ReceiveExecute
  <2> QED BY <1>5, <2>1 DEF ReceiveExecute, BuiltFrom
<1>6. ASSUME NEW c \in Calls, ReceiveRelease(c) PROVE HeldTargets'
  BY <1>6 DEF ReceiveRelease, BuiltFrom
<1>7. ASSUME NEW c \in Calls, Finish(c) PROVE HeldTargets'
  BY <1>7 DEF Finish, ReturnValue, ReturnReference, BuiltFrom
<1>8. ASSUME NEW p \in Peers, Close(p) PROVE HeldTargets'
  BY <1>8 DEF Close, BuiltFrom
<1>9. CASE UNCHANGED vars
  BY <1>9 DEF vars, callVars
<1> QED BY <1>1, <1>2, <1>3, <1>4, <1>5, <1>6, <1>7, <1>8, <1>9 DEF Next, Receive

\* A call written while the cursor it uses was live finds its target: RELEASE
\* never overtakes it, though both are executed by tasks of their own.
THEOREM HeldUsesResolve == Spec => []HeldUseResolves
<1>1. Init => HeldInv
  BY InitIInv DEF Init, HeldInv, BuiltFrom, HeldTargets
<1>2. HeldInv /\ [Next]_vars => HeldInv'
  BY NextIInv, NextBuiltFrom, NextHeldTargets DEF HeldInv
<1>3. HeldInv => HeldUseResolves
  BY DEF HeldInv, HeldTargets, HeldUseResolves
<1> QED BY <1>1, <1>2, <1>3, PTL DEF Spec

-------------------------------------------------------------------------------
(* The contract *)

\* What the contract sees of the protocol.
FreshIds == Ids \ issued
AliveIds == {id \in Ids : map[id] # None}
Holding == [c \in Calls |-> IF phase[c] \in {"replied", "live"} THEN ref[c] ELSE None]

ContractStep == [Contract!ContractNext]_(Contract!contractVars)

\* A step that changes nothing the contract sees.
LEMMA HiddenStep ==
    ASSUME UNCHANGED <<map, issued>>, UNCHANGED Holding
    PROVE  ContractStep
BY DEF Holding, ContractStep, Contract!contractVars

LEMMA ForgetStep ==
    ASSUME UNCHANGED <<map, issued>>,
           \E S \in SUBSET Calls :
              Holding' = [c \in Calls |-> IF c \in S THEN None ELSE Holding[c]]
    PROVE  ContractStep
<1>1. \E S \in SUBSET Calls : Contract!Forget(S)
  BY DEF Holding, Contract!Forget
<1> QED BY <1>1 DEF ContractStep, Contract!ContractNext

\* The reply with a reference grants it; where no reply can be written it is lost.
LEMMA ReturnReferenceImplements ==
    ASSUME IInv, NEW c \in Calls, NEW o \in Objects, NEW id \in Ids,
           ReturnReference(c, o, id)
    PROVE  ContractStep
<1> USE RegistryAssumption
    DEF IInv, CallsTypeOK, RegistryInv, RegistryTypeOK, ReturnReference
<1>1. Holding[c] = None
  BY DEF Holding
<1>2. CASE open[conn[c]]
  <2>1. Holding' = [Holding EXCEPT ![c] = id]
    BY <1>2 DEF Holding
  <2>2. CASE Retain(o, id)
    <3>1. id \in AliveIds
      BY <2>2 DEF Retain, Existing, KeysMatchEntries, AliveIds
    <3>2. id \notin FreshIds
      BY <3>1 DEF AliveIds, FreshIds, CountedIffMapped
    <3>3. AliveIds' = AliveIds \cup {id} /\ FreshIds' = FreshIds \ {id}
      BY <2>2, <3>1, <3>2 DEF Retain, AliveIds, FreshIds
    <3>4. Contract!Grant(c, id)
      BY <1>1, <2>1, <3>1, <3>3 DEF Contract!Grant, Holding, AliveIds, FreshIds
    <3> QED BY <3>4 DEF ContractStep, Contract!ContractNext
  <2>3. CASE Enter(o, id)
    <3>1. id \in FreshIds
      BY <2>3 DEF Enter, FreshIds
    <3>2. AliveIds' = AliveIds \cup {id} /\ FreshIds' = FreshIds \ {id}
      BY <2>3 DEF Enter, AliveIds, FreshIds
    <3>3. Contract!Grant(c, id)
      BY <1>1, <2>1, <3>1, <3>2 DEF Contract!Grant, Holding, AliveIds, FreshIds
    <3> QED BY <3>3 DEF ContractStep, Contract!ContractNext
  <2> QED BY <2>2, <2>3 DEF Register
<1>3. CASE ~open[conn[c]]
  <2>1. Holding' = Holding
    BY <1>3 DEF Holding
  <2>2. CASE Retain(o, id)
    BY <2>1, <2>2, HiddenStep DEF Retain
  <2>3. CASE Enter(o, id)
    <3>1. id \in FreshIds
      BY <2>3 DEF Enter, FreshIds
    <3>2. AliveIds' = AliveIds \cup {id} /\ FreshIds' = FreshIds \ {id}
      BY <2>3 DEF Enter, AliveIds, FreshIds
    <3>3. Contract!GrantLost(id)
      BY <2>1, <3>1, <3>2 DEF Contract!GrantLost, Holding, AliveIds, FreshIds
    <3> QED BY <3>3 DEF ContractStep, Contract!ContractNext
  <2> QED BY <2>2, <2>3 DEF Register
<1> QED BY <1>2, <1>3

\* The entry goes with the last reference that was counted, so nobody holds it.
LEMMA ReceiveReleaseImplements ==
    ASSUME IInv, NEW c \in Calls, ReceiveRelease(c)
    PROVE  ContractStep
<1> USE RegistryAssumption DEF IInv, CallsTypeOK, RegistryInv, RegistryTypeOK
<1>1. /\ phase[c] = "releasing" /\ phase' = [phase EXCEPT ![c] = "released"]
      /\ ref' = ref
  BY DEF ReceiveRelease
<1>0. PICK id \in Ids : id = ref[c]
  BY <1>1 DEF RefsGiven, Counted
<1>2. Holding' = Holding
  BY <1>1 DEF Holding
<1>3. id \in AliveIds /\ c \in Counting(id)
  BY <1>0, <1>1, CountedResolves DEF Counted, AliveIds, Get, Counting
<1>4. CASE ReleaseOne(id)
  BY <1>2, <1>4, HiddenStep DEF ReleaseOne
<1>5. CASE Remove(id)
  <2>1. Cardinality(Counting(id)) <= 1
    BY <1>3, <1>5, BalanceOf DEF Remove
  <2>2. Counting(id) \subseteq {c}
    <3>1. IsFiniteSet(Counting(id)) /\ Cardinality(Counting(id)) \in Nat
      BY CountingFinite
    <3>2. Cardinality(Counting(id) \ {c}) = 0 /\ IsFiniteSet(Counting(id) \ {c})
      <4>1. /\ IsFiniteSet(Counting(id) \ {c})
            /\ Cardinality(Counting(id) \ {c}) = Cardinality(Counting(id)) - 1
        BY <1>3, <3>1, FS_RemoveElement
      <4>2. Cardinality(Counting(id) \ {c}) \in Nat
        BY <4>1, FS_CardinalityType
      <4> QED BY <2>1, <3>1, <4>1, <4>2
    <3>3. Counting(id) \ {c} = {}
      BY <3>2, FS_EmptySet
    <3> QED BY <3>3
  <2>3. \A h \in Calls : Holding[h] # id
    <3> SUFFICES ASSUME NEW h \in Calls, Holding[h] = id PROVE FALSE
      OBVIOUS
    <3>1. phase[h] \in {"replied", "live"} /\ ref[h] = id
      BY <1>3 DEF Holding
    <3>2. h \in Counting(id)
      BY <3>1 DEF Counting, Counted
    <3> QED BY <1>1, <2>2, <3>1, <3>2
  <2>4. AliveIds' = AliveIds \ {id} /\ FreshIds' = FreshIds
    BY <1>3, <1>5 DEF Remove, AliveIds, FreshIds
  <2>5. Contract!Collect(id)
    BY <1>2, <1>3, <2>3, <2>4 DEF Contract!Collect, Holding, AliveIds, FreshIds
  <2> QED BY <2>5 DEF ContractStep, Contract!ContractNext
<1> QED BY <1>0, <1>4, <1>5 DEF ReceiveRelease, Delete

LEMMA CloseImplements ==
    ASSUME IInv, NEW p \in Peers, Close(p)
    PROVE  ContractStep
<1> DEFINE S == {c \in Calls : conn[c] = p /\ phase[c] = "replied"}
<1>1. UNCHANGED <<map, issued>> /\ ref' = ref
  BY DEF Close, registryVars
<1>2. ASSUME NEW c \in Calls
      PROVE  phase'[c] \in {"replied", "live"} <=> phase[c] \in {"replied", "live"} /\ c \notin S
  BY DEF Close
<1>3. Holding' = [c \in Calls |-> IF c \in S THEN None ELSE Holding[c]]
  BY <1>1, <1>2 DEF Holding
<1>4. S \in SUBSET Calls
  OBVIOUS
<1> HIDE DEF S
<1>5. \E T \in SUBSET Calls :
         Holding' = [c \in Calls |-> IF c \in T THEN None ELSE Holding[c]]
  BY Zenon, <1>3, <1>4
<1>6. UNCHANGED <<map, issued>>
  BY <1>1
<1> QED BY Zenon, <1>5, <1>6, ForgetStep

LEMMA NextImplements == IInv /\ [Next]_vars => ContractStep
<1> SUFFICES ASSUME IInv, [Next]_vars PROVE ContractStep
  OBVIOUS
<1> USE DEF IInv, CallsTypeOK
<1>1. ASSUME NEW c \in Calls,
             \/ \E p \in Peers, v \in Calls \cup {Root} : Build(c, p, v)
             \/ Send(c) \/ SendRelease(c) \/ Cancel(c)
             \/ ReceiveExecute(c) \/ ReturnValue(c)
             \/ ReceiveReply(c) /\ c \notin abandoned
      PROVE  ContractStep
  <2>1. UNCHANGED <<map, issued, ref>>
    BY <1>1 DEF Build, Send, SendRelease, Cancel, ReceiveExecute, ReturnValue,
                ReceiveReply, registryVars
  <2>2. \A d \in Calls : phase'[d] \in {"replied", "live"} <=> phase[d] \in {"replied", "live"}
    BY <1>1 DEF Build, Send, SendRelease, Cancel, ReceiveExecute, ReturnValue,
                ReceiveReply
  <2>3. Holding' = Holding
    BY <2>1, <2>2 DEF Holding
  <2> QED BY <2>1, <2>3, HiddenStep
<1>2. ASSUME NEW c \in Calls, Drop(c) \/ (ReceiveReply(c) /\ c \in abandoned)
      PROVE  ContractStep
  <2>1. UNCHANGED <<map, issued>>
    BY <1>2 DEF Drop, ReceiveReply, registryVars
  <2>2. Holding' = [d \in Calls |-> IF d \in {c} THEN None ELSE Holding[d]]
    BY <1>2 DEF Drop, ReceiveReply, Holding
  <2> DEFINE S == {c}
  <2>3. /\ S \in SUBSET Calls
        /\ Holding' = [d \in Calls |-> IF d \in S THEN None ELSE Holding[d]]
    BY <2>2
  <2> HIDE DEF S
  <2> QED BY <2>1, <2>3, ForgetStep
<1>3. CASE UNCHANGED vars
  <2>1. UNCHANGED <<map, issued>> /\ UNCHANGED Holding
    BY <1>3 DEF vars, callVars, registryVars, Holding
  <2> QED BY <2>1, HiddenStep
<1>4. ASSUME NEW c \in Calls, \E o \in Objects, id \in Ids : ReturnReference(c, o, id)
      PROVE  ContractStep
  BY <1>4, ReturnReferenceImplements
<1>5. ASSUME NEW c \in Calls, ReceiveRelease(c) PROVE ContractStep
  BY <1>5, ReceiveReleaseImplements
<1>6. ASSUME NEW p \in Peers, Close(p) PROVE ContractStep
  BY <1>6, CloseImplements
<1> HIDE DEF IInv, CallsTypeOK
<1>7. ASSUME NEW c \in Calls,
             \/ Send(c) \/ ReceiveReply(c) \/ Drop(c) \/ SendRelease(c) \/ Cancel(c)
             \/ Receive(c) \/ Finish(c)
      PROVE  ContractStep
  <2>1. CASE Send(c) \/ SendRelease(c) \/ Cancel(c)
    BY <1>1, <2>1
  <2>2. CASE Drop(c) \/ (ReceiveReply(c) /\ c \in abandoned)
    BY <1>2, <2>2
  <2>3. CASE ReceiveReply(c) /\ c \notin abandoned
    BY <1>1, <2>3
  <2>4. CASE Receive(c)
    BY <1>1, <1>5, <2>4 DEF Receive
  <2>5. CASE Finish(c)
    BY <1>1, <1>4, <2>5 DEF Finish
  <2> QED BY <1>7, <2>1, <2>2, <2>3, <2>4, <2>5
<1>8. ASSUME NEW c \in Calls, NEW p \in Peers, NEW v \in Calls \cup {Root}, Build(c, p, v)
      PROVE  ContractStep
  BY <1>1, <1>8
<1> QED BY <1>3, <1>6, <1>7, <1>8 DEF Next

\* The protocol keeps the contract of distributed garbage collection: with any
\* number of peers, in any order of replies, releases, cancellations and lost
\* connections, an entry goes only when nobody holds it, and never comes back.
THEOREM ContractKept == Spec => ImplementsContract
<1>1. Init => Contract!ContractInit
  BY DEF Init, RegistryInit, Contract!ContractInit
<1>2. IInv /\ [Next]_vars => [Contract!ContractNext]_(Contract!contractVars)
  BY NextImplements DEF ContractStep
<1> QED
  BY <1>1, <1>2, AlwaysIInv, PTL DEF Spec, ImplementsContract, Contract!ContractSpec
===============================================================================
