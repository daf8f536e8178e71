--------------------------- MODULE ReferenceContract ---------------------------
(***************************************************************************)
(* What distributed garbage collection promises, with no registry, no      *)
(* counts and no messages: an entry may be collected only when no holder   *)
(* has a reference to it, and a collected entry never comes back.          *)
(***************************************************************************)
CONSTANTS Holders,   \* those who can hold one reference each
          Entries,   \* what is referred to
          Nothing    \* the value of a holder without a reference

VARIABLES fresh,     \* entries never granted so far
          alive,     \* entries that can be reached
          holding    \* holder -> the entry it has a reference to, or Nothing

contractVars == <<fresh, alive, holding>>

ContractInit ==
    /\ fresh = Entries
    /\ alive = {}
    /\ holding = [h \in Holders |-> Nothing]

\* A holder receives a reference to an entry that is alive or was never used.
Grant(h, e) ==
    /\ holding[h] = Nothing
    /\ e \in alive \cup fresh
    /\ holding' = [holding EXCEPT ![h] = e]
    /\ alive' = alive \cup {e}
    /\ fresh' = fresh \ {e}

\* An entry is put up for a reference that is lost before anybody has it.
GrantLost(e) ==
    /\ e \in fresh
    /\ alive' = alive \cup {e}
    /\ fresh' = fresh \ {e}
    /\ UNCHANGED holding

\* Some holders lose their references.
Forget(S) ==
    /\ holding' = [h \in Holders |-> IF h \in S THEN Nothing ELSE holding[h]]
    /\ UNCHANGED <<fresh, alive>>

\* An entry that nobody holds is collected.
Collect(e) ==
    /\ e \in alive
    /\ \A h \in Holders : holding[h] # e
    /\ alive' = alive \ {e}
    /\ UNCHANGED <<fresh, holding>>

ContractNext ==
    \/ \E h \in Holders, e \in Entries : Grant(h, e)
    \/ \E e \in Entries : GrantLost(e) \/ Collect(e)
    \/ \E S \in SUBSET Holders : Forget(S)

ContractSpec == ContractInit /\ [][ContractNext]_contractVars
===============================================================================
