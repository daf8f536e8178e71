------------------------------ MODULE MCExecutor ------------------------------
(* Instance of Executor for TLC: a root object with a coroutine function as  *)
(* its member; the function returns a list, which is no weak key, and the    *)
(* list has a plain member.  Calling the root object yields the function.    *)
EXTENDS Executor, TLC

CONSTANTS root, maker, list, one, h1, h2, h3, i1, i2, i3

MCObjects     == {root, maker, list}
MCWeakRefable == {root, maker}
MCKeys        == {"root", "maker"}
MCKeyOf       == (root :> "root") @@ (maker :> "maker")
MCMember      == (root :> maker) @@ (maker :> None) @@ (list :> one)
MCApplied     == (root :> maker) @@ (maker :> list) @@ (list :> Raises)

MCChains   == {<<>>, <<"construct">>, <<"construct", "get">>,
               <<"apply", "release">>, <<"get", "unknown">>}
              \cup {<<a>> : a \in {"get", "apply"}}
              \cup {<<a, b>> : a, b \in {"get", "apply"}}

MCSymmetry == Permutations(Handlers) \cup Permutations(Ids)
===============================================================================
