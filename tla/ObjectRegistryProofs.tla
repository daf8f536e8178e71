------------------------- MODULE ObjectRegistryProofs -------------------------
(***************************************************************************)
(* Proofs about ObjectRegistry, for every set of objects and identifiers.  *)
(* RegistryInv is inductive as it stands; the two lemmas on the operations *)
(* serve every module that performs them.                                  *)
(***************************************************************************)
EXTENDS ObjectRegistry, TLAPS

\* register keeps the three dictionaries consistent.
LEMMA RegisterKeepsInv ==
    ASSUME RegistryInv, NEW o \in Objects, NEW id \in Ids, Register(o, id)
    PROVE  RegistryInv'
<1> USE RegistryAssumption DEF RegistryInv, RegistryTypeOK
<1>1. CASE Retain(o, id)
  <2>1. id = weak_map[KeyOf[o]] /\ o \in WeakRefable
    BY <1>1 DEF Retain, Existing
  <2>2. map[id] # None
    BY <2>1 DEF KeysMatchEntries
  <2>3. RegistryTypeOK'
    BY <1>1 DEF Retain
  <2>4. CountedIffMapped'
    BY <1>1, <2>2 DEF Retain, CountedIffMapped
  <2>5. KeysMatchEntries'
    BY <1>1 DEF Retain, KeysMatchEntries
  <2> QED BY <2>3, <2>4, <2>5
<1>2. CASE Enter(o, id)
  <2>1. map[id] = None
    BY <1>2 DEF Enter, CountedIffMapped
  <2>2. RegistryTypeOK'
    BY <1>2 DEF Enter
  <2>3. CountedIffMapped'
    BY <1>2 DEF Enter, CountedIffMapped
  <2>4. KeysMatchEntries'
    <3>1. CASE o \in WeakRefable
      <4>1. weak_map[KeyOf[o]] = None
        BY <1>2, <3>1 DEF Enter, Existing
      <4> QED BY <1>2, <2>1, <3>1, <4>1 DEF Enter, KeysMatchEntries
    <3>2. CASE o \notin WeakRefable
      BY <1>2, <2>1, <3>2 DEF Enter, KeysMatchEntries
    <3> QED BY <3>1, <3>2
  <2> QED BY <2>2, <2>3, <2>4
<1> QED BY <1>1, <1>2 DEF Register

\* delete keeps the three dictionaries consistent.
LEMMA DeleteKeepsInv ==
    ASSUME RegistryInv, NEW id \in Ids, Delete(id)
    PROVE  RegistryInv'
<1> USE RegistryAssumption DEF RegistryInv, RegistryTypeOK
<1>1. CASE ReleaseOne(id)
  <2>1. RegistryTypeOK'
    BY <1>1 DEF ReleaseOne
  <2>2. CountedIffMapped'
    BY <1>1 DEF ReleaseOne, CountedIffMapped
  <2>3. KeysMatchEntries'
    BY <1>1 DEF ReleaseOne, KeysMatchEntries
  <2> QED BY <2>1, <2>2, <2>3
<1>2. CASE Remove(id)
  <2>1. RegistryTypeOK'
    BY <1>2 DEF Remove
  <2>2. CountedIffMapped'
    BY <1>2 DEF Remove, CountedIffMapped
  <2>3. KeysMatchEntries'
    BY <1>2 DEF Remove, KeysMatchEntries
  <2> QED BY <2>1, <2>2, <2>3
<1> QED BY <1>1, <1>2 DEF Delete

LEMMA RegistryInitInv == RegistryInit => RegistryInv
BY RegistryAssumption
DEF RegistryInit, RegistryInv, RegistryTypeOK, CountedIffMapped, KeysMatchEntries

LEMMA RegistryNextInv == RegistryInv /\ [RegistryNext]_registryVars => RegistryInv'
<1> SUFFICES ASSUME RegistryInv, [RegistryNext]_registryVars PROVE RegistryInv'
  OBVIOUS
<1>1. ASSUME NEW o \in Objects, NEW id \in Ids, Register(o, id) PROVE RegistryInv'
  BY <1>1, RegisterKeepsInv
<1>2. ASSUME NEW id \in issued, Delete(id) PROVE RegistryInv'
  BY <1>2, DeleteKeepsInv DEF RegistryInv, RegistryTypeOK
<1>3. CASE UNCHANGED registryVars
  BY <1>3 DEF registryVars, RegistryInv, RegistryTypeOK, CountedIffMapped,
              KeysMatchEntries
<1> QED BY <1>1, <1>2, <1>3 DEF RegistryNext

\* The registry is consistent after any sequence of register and delete: every
\* entry has references and is found by its key, every key leads to its entry.
THEOREM RegistryConsistent ==
    RegistrySpec => [](RegistryTypeOK /\ CountedIffMapped /\ KeysMatchEntries)
BY RegistryInitInv, RegistryNextInv, PTL DEF RegistrySpec, RegistryInv

\* An object is in the table exactly while references to it are counted, though
\* register and delete change the two dictionaries one after the other.
THEOREM EntriesAreCounted == RegistrySpec => []CountedIffMapped
BY RegistryConsistent, PTL

\* register gives nothing to an identifier that is dead.
LEMMA RegisterKeepsDead ==
    ASSUME RegistryInv, NEW o \in Objects, NEW id \in Ids, Register(o, id),
           NEW dead \in issued, map[dead] = None
    PROVE  map'[dead] = None /\ dead \in issued'
BY RegistryAssumption DEF RegistryInv, RegistryTypeOK, Register, Retain, Enter

LEMMA DeleteKeepsDead ==
    ASSUME RegistryInv, NEW id \in Ids, Delete(id),
           NEW dead \in issued, map[dead] = None
    PROVE  map'[dead] = None /\ dead \in issued'
BY RegistryAssumption DEF RegistryInv, RegistryTypeOK, Delete, ReleaseOne, Remove

\* In a consistent registry register answers a reference to an equal object.
LEMMA RegisterFindsEqual ==
    RegistryInv => [\A o \in Objects, id \in Ids : Register(o, id) =>
                      IF o \in WeakRefable
                      THEN map'[id] \in WeakRefable /\ KeyOf[map'[id]] = KeyOf[o]
                      ELSE map'[id] = o]_registryVars
<1> SUFFICES ASSUME RegistryInv, NEW o \in Objects, NEW id \in Ids, Register(o, id)
             PROVE  IF o \in WeakRefable
                    THEN map'[id] \in WeakRefable /\ KeyOf[map'[id]] = KeyOf[o]
                    ELSE map'[id] = o
  OBVIOUS
<1> USE RegistryAssumption DEF RegistryInv, RegistryTypeOK
<1>1. CASE Retain(o, id)
  BY <1>1 DEF Retain, Existing, KeysMatchEntries
<1>2. CASE Enter(o, id)
  BY <1>2 DEF Enter
<1> QED BY <1>1, <1>2 DEF Register

\* The reference handed out for an object leads to an equal object, whatever
\* was registered and released before.
THEOREM ReferencesAreEqual == RegistrySpec => ReferenceIsEqual
BY RegisterFindsEqual, RegistryInitInv, RegistryNextInv, PTL
DEF RegistrySpec, ReferenceIsEqual
===============================================================================
