------------------------------ MODULE MCCallPath ------------------------------
(* Instance of CallPath for TLC: calls o, p, q of the client and b, d of the *)
(* server, over two streams each way.                                        *)
EXTENDS CallPath, TLC

CONSTANTS o, p, q, b, d, t1, t2, t3

Outer(M) == [c \in M |-> NoCall]

\* A call back that calls again, beside another call; calls back each way; a
\* single call that is nested until it holds every stream of both sides; a call
\* back beside calls that wait for a stream; and a handler that makes two calls,
\* one of them a call that calls back, beside another call.
MCNestings == {
    (b :> o) @@ (q :> b) @@ Outer({o, p}),
    (b :> o) @@ (p :> d) @@ Outer({o, d}),
    (b :> o) @@ (p :> b) @@ (d :> p) @@ (q :> d) @@ Outer({o}),
    (b :> o) @@ Outer({o, p, q}),
    (b :> o) @@ (d :> o) @@ (q :> b) @@ Outer({o, p})}
===============================================================================
