---------------------------- MODULE MCParityDriver ----------------------------
(* Instance of ParityDriver for TLC: two equal objects of other clients, and *)
(* the dict, which is not weak-referenceable.                                *)
EXTENDS ParityDriver, TLC

CONSTANTS a1, a2, dict

MCObjects     == {a1, a2, dict}
MCWeakRefable == {a1, a2}
MCKeyOf       == (a1 :> "a") @@ (a2 :> "a")
===============================================================================
