---------------------------- MODULE ObjectRegistry ----------------------------
(***************************************************************************)
(* proxyables/registry.py.  The table in which a peer keeps the local      *)
(* objects it has handed out by reference: identifier -> object (a strong  *)
(* reference), identifier -> number of references handed out, and a weak   *)
(* dictionary that finds the identifier of an object already registered.   *)
(*                                                                         *)
(* The three dictionaries are total functions here: None stands for an     *)
(* absent key of map and weak_map, and 0 for an absent key of counts       *)
(* (the code never stores a count below 1).                                *)
(***************************************************************************)
EXTENDS Naturals

CONSTANTS
    Objects,      \* values that are passed by reference
    WeakRefable,  \* those that a WeakKeyDictionary accepts as keys
    Keys, KeyOf,  \* the dictionary compares keys with ==: KeyOf[o] is the
                  \* equality class of the object o
    Ids,          \* identifiers that muid() returns
    None,         \* an absent entry
    MaxRetains    \* bound of the model: references handed out per entry

ASSUME RegistryAssumption ==
    /\ WeakRefable \subseteq Objects
    /\ KeyOf \in [WeakRefable -> Keys]
    /\ None \notin Objects
    /\ None \notin Ids
    /\ MaxRetains \in Nat

VARIABLES
    map,       \* identifier -> object
    counts,    \* identifier -> references handed out and not yet released
    weak_map,  \* equality class of a weak-referenceable object -> identifier
    issued     \* identifiers muid() has returned so far

registryVars == <<map, counts, weak_map, issued>>

RegistryTypeOK ==
    /\ map \in [Ids -> Objects \cup {None}]
    /\ counts \in [Ids -> Nat]
    /\ weak_map \in [Keys -> Ids \cup {None}]
    /\ issued \subseteq Ids

RegistryInit ==
    /\ map = [id \in Ids |-> None]
    /\ counts = [id \in Ids |-> 0]
    /\ weak_map = [k \in Keys |-> None]
    /\ issued = {}

-------------------------------------------------------------------------------
(* Operations *)

\* weak_map.get(obj); an object the dictionary refuses (TypeError) is new.
Existing(o) == IF o \in WeakRefable THEN weak_map[KeyOf[o]] ELSE None

\* get: the object an identifier stands for, or None.
Get(id) == map[id]

\* A mistake to catch: the branch for a known object returns its identifier
\* without counting the new reference.
RetainUncounted(o, id) ==
    /\ id = Existing(o)
    /\ id # None
    /\ UNCHANGED <<map, counts, weak_map, issued>>

\* register, an equal object is there: one more reference to its entry.
Retain(o, id) ==
    /\ id = Existing(o)
    /\ id # None
    /\ counts' = [counts EXCEPT ![id] = @ + 1]
    /\ UNCHANGED <<map, weak_map, issued>>

\* A mistake to catch: an identifier that was in use before comes back.
EnterReusingIds(o, id) ==
    /\ Existing(o) = None
    /\ id \in Ids
    /\ map[id] = None
    /\ issued' = issued \cup {id}
    /\ map' = [map EXCEPT ![id] = o]
    /\ counts' = [counts EXCEPT ![id] = 1]
    /\ weak_map' = IF o \in WeakRefable THEN [weak_map EXCEPT ![KeyOf[o]] = id]
                                        ELSE weak_map

\* register, a new object: an identifier not used before, with one reference.
\* That muid() returns no identifier twice is an assumption here; module Muid
\* shows it of MUIDGenerator as long as the clock does not go back.
Enter(o, id) ==
    /\ Existing(o) = None
    /\ id \in Ids \ issued
    /\ issued' = issued \cup {id}
    /\ map' = [map EXCEPT ![id] = o]
    /\ counts' = [counts EXCEPT ![id] = 1]
    /\ weak_map' = IF o \in WeakRefable THEN [weak_map EXCEPT ![KeyOf[o]] = id]
                                        ELSE weak_map

\* register(obj) returns id.
Register(o, id) == Retain(o, id) \/ Enter(o, id)

\* A mistake to catch: the count goes down without a look at what is left.
ReleaseUnguarded(id) ==
    /\ counts' = [counts EXCEPT ![id] = @ - 1]
    /\ UNCHANGED <<map, weak_map, issued>>

\* delete, other references remain.
ReleaseOne(id) ==
    /\ counts[id] > 1
    /\ counts' = [counts EXCEPT ![id] = @ - 1]
    /\ UNCHANGED <<map, weak_map, issued>>

\* A mistake to catch: the entry goes, its key in the weak dictionary stays.
RemoveKeepingKey(id) ==
    /\ counts[id] <= 1
    /\ map' = [map EXCEPT ![id] = None]
    /\ counts' = [counts EXCEPT ![id] = 0]
    /\ UNCHANGED <<weak_map, issued>>

\* delete, the last reference (or an identifier that is not there): the entry
\* leaves all three dictionaries.
Remove(id) ==
    /\ counts[id] <= 1
    /\ map' = [map EXCEPT ![id] = None]
    /\ counts' = [counts EXCEPT ![id] = 0]
    /\ weak_map' = IF map[id] \in WeakRefable
                   THEN [weak_map EXCEPT ![KeyOf[map[id]]] = None]
                   ELSE weak_map
    /\ UNCHANGED issued

\* delete(id).
Delete(id) == ReleaseOne(id) \/ Remove(id)

-------------------------------------------------------------------------------
(* The registry on its own: any legal sequence of calls.  A peer may send  *)
(* RELEASE for any identifier it has seen, as often as it likes.           *)

RegistryNext ==
    \/ \E o \in Objects, id \in Ids :
          counts[id] < MaxRetains /\ Register(o, id)
    \/ \E id \in issued : Delete(id)

RegistrySpec == RegistryInit /\ [][RegistryNext]_registryVars

-------------------------------------------------------------------------------
(* Properties *)

\* An entry is in map exactly while it has references, and has an identifier
\* that was issued: register and delete update the two dictionaries apart
\* (registry.py lines 34-35 and 50-57), so they could drift.
CountedIffMapped ==
    \A id \in Ids : /\ map[id] # None <=> counts[id] > 0
                    /\ map[id] # None => id \in issued

\* The weak dictionary and the table are inverse to each other: a key leads to
\* an entry that holds an equal object, and an entry of a weak-referenceable
\* object is found by its key.  So no object has two entries, and none that has
\* left the table is found again.
KeysMatchEntries ==
    /\ \A k \in Keys : weak_map[k] # None =>
          /\ map[weak_map[k]] \in WeakRefable
          /\ KeyOf[map[weak_map[k]]] = k
    /\ \A id \in Ids : map[id] \in WeakRefable => weak_map[KeyOf[map[id]]] = id

RegistryInv == RegistryTypeOK /\ CountedIffMapped /\ KeysMatchEntries

\* The reference handed out for an object leads to an equal object, whatever was
\* registered and deleted before, and to that very object when it is not
\* weak-referenceable.  It may be another object: WeakKeyDictionary compares with
\* ==, unlike the WeakMap it stands for ("We should mirror that logic",
\* registry.py:13-14).
ReferenceIsEqual ==
    [][\A o \in Objects, id \in Ids : Register(o, id) =>
          IF o \in WeakRefable
          THEN map'[id] \in WeakRefable /\ KeyOf[map'[id]] = KeyOf[o]
          ELSE map'[id] = o]_registryVars

===============================================================================
