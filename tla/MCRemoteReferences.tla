-------------------------- MODULE MCRemoteReferences --------------------------
(* Instance of RemoteReferences for TLC: one object that is registered once  *)
(* however often it is returned, and one, a list say, that gets a new        *)
(* identifier each time.                                                     *)
EXTENDS RemoteReferences, TLC

CONSTANTS shared, list, p1, p2, c1, c2, c3, i1, i2, i3

MCObjects     == {shared, list}
MCWeakRefable == {shared}
MCKeys        == {"shared"}
MCKeyOf       == shared :> "shared"

\* Connections, calls and identifiers are interchangeable; used in the runs
\* that check safety only.
MCSymmetry == Permutations(Peers) \cup Permutations(Calls) \cup Permutations(Ids)
===============================================================================
