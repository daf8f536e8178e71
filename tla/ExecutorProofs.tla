---------------------------- MODULE ExecutorProofs ----------------------------
(***************************************************************************)
(* Proofs about Executor, for every set of handlers, objects and chains.   *)
(* A handler's stack, what is left of its chain and the place where it     *)
(* stands fit together (ShapeInv); the counts of the registry are those of *)
(* the answers and arguments (CountInv), so that what a handler refers to  *)
(* is there; and what lies on its stack is what the chain means so far     *)
(* (MeanInv), which stays true while it awaits because an entry of the     *)
(* registry never turns into another (EntriesPersist).                     *)
(***************************************************************************)
EXTENDS Executor, ObjectRegistryProofs, FiniteSetTheorems, WellFoundedInduction

-------------------------------------------------------------------------------
(* Where a handler stands *)

\* What is left to execute ends the chain.
Suffix(h) ==
    /\ Len(rest[h]) <= Len(chain[h])
    /\ \A i \in 1..Len(rest[h]) :
          rest[h][i] = chain[h][Len(chain[h]) - Len(rest[h]) + i]

\* The reference the chain starts with is still to be pushed.
Starting(h) ==
    /\ start[h] # None
    /\ stack[h] = <<>>
    /\ Len(rest[h]) = Len(chain[h]) + 1
    /\ Head(rest[h]) = "reference"
    /\ Tail(rest[h]) = chain[h]

\* The stack holds one value, or none where a chain for the root object starts.
Executing(h) ==
    /\ Suffix(h)
    /\ IF start[h] = None /\ Len(rest[h]) = Len(chain[h])
       THEN stack[h] = <<>>
       ELSE stack[h] # <<>>

Shape(h) ==
    /\ pc[h] = "running" => Starting(h) \/ Executing(h)
    /\ pc[h] = "awaiting" => /\ Suffix(h) /\ rest[h] # <<>>
                             /\ Head(rest[h]) = "apply"
                             /\ called[h] \in Async
    /\ pc[h] # "running" => stack[h] = <<>>
    /\ pc[h] # "awaiting" => called[h] = None
    /\ pc[h] \in {"answered", "released"} <=> answer[h] # NoAnswer
    /\ pc[h] = "released" => answer[h].kind = "reference"
    /\ pc[h] # "idle" /\ start[h] = None => executor = "exporter"

Shapes == \A h \in Handlers : Shape(h)

\* Handlers take turns.
Solo == \A g, h \in Handlers : pc[g] = "running" /\ pc[h] = "running" => g = h

ShapeInv == TypeOK /\ RegistryInv /\ Shapes /\ Solo

\* The other handlers stay where they are; a RELEASE may give back what one of
\* them has answered.
OthersStay(h) ==
    /\ executor' = executor
    /\ \A g \in Handlers \ {h} :
          /\ start'[g] = start[g] /\ chain'[g] = chain[g] /\ rest'[g] = rest[g]
          /\ stack'[g] = stack[g] /\ answer'[g] = answer[g]
          /\ called'[g] = called[g] /\ begin'[g] = begin[g]
          /\ \/ pc'[g] = pc[g]
             \/ /\ pc[g] = "answered" /\ answer[g].kind = "reference"
                /\ pc'[g] = "released"

CountsNatural == {passed', inner'} \subseteq [Ids -> Nat]

-------------------------------------------------------------------------------
(* Sequences *)

LEMMA EmptyIsNot == ASSUME NEW S, NEW s \in Seq(S) PROVE s = <<>> <=> Len(s) = 0
OBVIOUS

LEMMA TailFacts ==
    ASSUME NEW S, NEW s \in Seq(S), s # <<>>
    PROVE  /\ Tail(s) \in Seq(S) /\ Len(Tail(s)) = Len(s) - 1
           /\ \A i \in 1..(Len(s) - 1) : Tail(s)[i] = s[i + 1]
           /\ Head(s) = s[1] /\ Len(s) \in Nat \ {0}
OBVIOUS

LEMMA OneOnStack ==
    ASSUME TypeOK, NEW h \in Handlers
    PROVE  /\ Remaining(h) = <<>>
           /\ stack[h] # <<>> =>
                /\ stack[h] = <<Top(h)>> /\ Len(stack[h]) = 1
                /\ Top(h) \in IF executor = "exporter" THEN Values \cup {Coroutine}
                              ELSE Encoded
<1> DEFINE S == IF executor = "exporter" THEN Values \cup {Coroutine} ELSE Encoded
<1>1. stack[h] \in Seq(S) /\ Len(stack[h]) <= 1 /\ Len(stack[h]) \in Nat
  BY DEF TypeOK
<1> HIDE DEF S
<1>2. CASE stack[h] = <<>>
  BY <1>2 DEF Remaining
<1>3. CASE stack[h] # <<>>
  <2> DEFINE n == Len(stack[h])
  <2>0. n \in Nat /\ n <= 1 /\ n # 0
    BY <1>1, <1>3
  <2>1. n = 1
    <3> HIDE DEF n
    <3> QED BY <2>0
  <2>2. stack[h] = <<Top(h)>> /\ Top(h) \in S
    BY <1>1, <2>1 DEF Top
  <2>3. Remaining(h) = <<>>
    BY <1>1, <2>1 DEF Remaining
  <2> QED BY <2>1, <2>2, <2>3 DEF S
<1> QED BY <1>2, <1>3

LEMMA ChainType ==
    ASSUME TypeOK, NEW h \in Handlers
    PROVE  chain[h] \in Seq(Operations) /\ Len(chain[h]) \in Nat
BY DEF TypeOK

\* An instruction of the chain comes next.
LEMMA AtOperation ==
    ASSUME ShapeInv, NEW h \in Handlers, NEW kind \in Operations, At(h, kind)
    PROVE  /\ Executing(h) /\ ~Starting(h)
           /\ Len(rest[h]) \in 1..Len(chain[h])
           /\ chain[h][Len(chain[h]) - Len(rest[h]) + 1] = kind
<1>1. Head(rest[h]) = kind /\ pc[h] = "running" /\ rest[h] # <<>>
  BY DEF At
<1>2. Executing(h) /\ ~Starting(h)
  BY <1>1 DEF ShapeInv, Shapes, Shape, Starting, Operations
<1> DEFINE n == Len(chain[h])
           r == Len(rest[h])
<1>3. r \in Nat \ {0} /\ rest[h][1] = kind
  BY <1>1, TailFacts DEF ShapeInv, TypeOK
<1>4. n \in Nat /\ r <= n
  BY <1>2, ChainType DEF Executing, Suffix, ShapeInv
<1>5. 1 \in 1..r
  BY <1>3
<1>6. chain[h][n - r + 1] = kind
  BY <1>2, <1>3, <1>5 DEF Executing, Suffix
<1>7. r \in 1..n
  <2> HIDE DEF n, r
  <2> QED BY <1>3, <1>4
<1> QED BY <1>2, <1>6, <1>7

LEMMA AtReference ==
    ASSUME ShapeInv, NEW h \in Handlers, At(h, "reference")
    PROVE  Starting(h)
<1> SUFFICES ASSUME Executing(h) PROVE FALSE
  BY DEF At, ShapeInv, Shapes, Shape
<1> DEFINE n == Len(chain[h])
           r == Len(rest[h])
<1>1. r \in Nat \ {0} /\ rest[h][1] = "reference"
  BY TailFacts DEF ShapeInv, TypeOK, At
<1>2. n \in Nat /\ r <= n /\ \A i \in 1..n : chain[h][i] \in Operations
  BY ChainType DEF Executing, Suffix, ShapeInv
<1>3. 1 \in 1..r
  BY <1>1
<1>4. chain[h][n - r + 1] = "reference"
  BY <1>1, <1>3 DEF Executing, Suffix
<1> HIDE DEF n, r
<1>5. n - r + 1 \in 1..n
  BY <1>1, <1>2
<1> QED BY <1>2, <1>4, <1>5 DEF Operations

\* Without its first instruction what is left still ends the chain.
LEMMA SuffixTail ==
    ASSUME ShapeInv, NEW h \in Handlers, Suffix(h), rest[h] # <<>>
    PROVE  /\ Len(Tail(rest[h])) = Len(rest[h]) - 1
           /\ Len(rest[h]) \in 1..Len(chain[h])
           /\ \A i \in 1..Len(Tail(rest[h])) :
                 Tail(rest[h])[i] = chain[h][Len(chain[h]) - Len(Tail(rest[h])) + i]
<1> DEFINE n == Len(chain[h])
           r == Len(rest[h])
<1>1. /\ Len(Tail(rest[h])) = r - 1 /\ r \in Nat \ {0}
      /\ \A i \in 1..(r - 1) : Tail(rest[h])[i] = rest[h][i + 1]
  BY TailFacts DEF ShapeInv, TypeOK
<1>2. n \in Nat /\ r <= n
  BY ChainType DEF ShapeInv, Suffix
<1>3. \A i \in 1..r : rest[h][i] = chain[h][n - r + i]
  BY DEF Suffix
<1> HIDE DEF n, r
<1>4. ASSUME NEW i \in 1..(r - 1)
      PROVE  Tail(rest[h])[i] = chain[h][n - (r - 1) + i]
  <2>1. i + 1 \in 1..r /\ n - r + (i + 1) = n - (r - 1) + i
    BY <1>1, <1>2
  <2> QED BY <1>1, <1>3, <2>1
<1>5. r \in 1..n
  BY <1>1, <1>2
<1> QED BY <1>1, <1>4, <1>5 DEF n, r

-------------------------------------------------------------------------------
(* One handler goes on *)

LEMMA OneMoves ==
    ASSUME ShapeInv, NEW h \in Handlers, OthersStay(h), TypeOK', RegistryInv',
           Shape(h)', pc[h] = "running" \/ LoopIsFree
    PROVE  ShapeInv'
<1>1. ASSUME NEW g \in Handlers \ {h} PROVE Shape(g)'
  <2>1. Shape(g)
    BY DEF ShapeInv, Shapes
  <2>2. CASE pc'[g] = pc[g]
    <3>1. /\ executor' = executor /\ start'[g] = start[g] /\ chain'[g] = chain[g]
          /\ rest'[g] = rest[g] /\ stack'[g] = stack[g] /\ answer'[g] = answer[g]
          /\ called'[g] = called[g]
      BY DEF OthersStay
    <3>2. (Suffix(g)' <=> Suffix(g)) /\ (Starting(g)' <=> Starting(g))
      BY <3>1 DEF Suffix, Starting
    <3>3. Executing(g)' <=> Executing(g)
      BY <3>1, <3>2 DEF Executing
    <3> QED BY <2>1, <2>2, <3>1, <3>2, <3>3 DEF Shape
  <2>3. CASE pc[g] = "answered" /\ answer[g].kind = "reference" /\ pc'[g] = "released"
    BY <2>1, <2>3 DEF OthersStay, Shape
  <2> QED BY <2>2, <2>3 DEF OthersStay
<1>2. Solo'
  BY DEF Solo, OthersStay, ShapeInv, LoopIsFree
<1> QED BY <1>1, <1>2 DEF ShapeInv, Shapes

\* A handler that runs awaits nothing.
LEMMA RunningAwaitsNothing ==
    ASSUME ShapeInv, NEW h \in Handlers, pc[h] = "running"
    PROVE  called = [called EXCEPT ![h] = None]
BY DEF ShapeInv, Shapes, Shape, TypeOK

\* The handler answers with THROW.
LEMMA ThrowKeeps ==
    ASSUME ShapeInv, NEW h \in Handlers, Throw(h), pc[h] # "idle",
           called' = [called EXCEPT ![h] = None],
           UNCHANGED <<executor, start, chain, begin>>, RegistryInv', CountsNatural,
           pc[h] = "running" \/ LoopIsFree
    PROVE  ShapeInv'
<1>1. OthersStay(h)
  BY DEF OthersStay, Throw, ShapeInv, TypeOK
<1>2. TypeOK'
  <2>1. <<>> \in Seq(Operations \cup {"reference"}) /\ Len(<<>>) = 0
        /\ <<>> \in Seq(IF executor = "exporter" THEN Values \cup {Coroutine} ELSE Encoded)
    OBVIOUS
  <2>2. /\ executor' \in Executors /\ start' \in [Handlers -> Ids \cup {None}]
        /\ chain' \in [Handlers -> Seq(Operations)] /\ begin' \in [Handlers -> Objects \cup {None}]
    BY DEF ShapeInv, TypeOK
  <2>3. /\ rest' \in [Handlers -> Seq(Operations \cup {"reference"})]
        /\ called' \in [Handlers -> Async \cup {None}]
        /\ pc' \in [Handlers -> {"idle", "running", "awaiting", "answered", "released"}]
        /\ answer' \in [Handlers -> Encoded \cup {Thrown, Undecodable, NoAnswer}]
    BY <2>1 DEF ShapeInv, TypeOK, Throw
  <2>4. /\ stack' \in [Handlers -> Seq(IF executor' = "exporter"
                                       THEN Values \cup {Coroutine} ELSE Encoded)]
        /\ \A g \in Handlers : Len(stack'[g]) <= 1
    BY <2>1 DEF ShapeInv, TypeOK, Throw
  <2> QED BY <2>2, <2>3, <2>4 DEF TypeOK, RegistryInv, CountsNatural
<1>3. Shape(h)'
  <2>1. stack'[h] = <<>> /\ called'[h] = None /\ answer'[h] = Thrown /\ pc'[h] = "answered"
    BY DEF Throw, ShapeInv, TypeOK
  <2>2. start'[h] = None => executor' = "exporter"
    BY DEF ShapeInv, Shapes, Shape
  <2> QED BY <2>1, <2>2 DEF Shape, Thrown, NoAnswer
<1> QED BY <1>1, <1>2, <1>3, OneMoves

\* The handler has executed an instruction, and pushes its result.
LEMMA PushKeeps ==
    ASSUME ShapeInv, NEW h \in Handlers,
           NEW x, x \in IF executor = "exporter" THEN Values \cup {Coroutine} ELSE Encoded,
           stack' = [stack EXCEPT ![h] = <<x>>],
           rest' = [rest EXCEPT ![h] = Tail(@)],
           called' = [called EXCEPT ![h] = None],
           \/ pc[h] = "running" /\ rest[h] # <<>>
           \/ pc[h] = "awaiting" /\ LoopIsFree,
           pc' \in [Handlers -> {"idle", "running", "awaiting", "answered", "released"}],
           pc'[h] = "running", OthersStay(h),
           UNCHANGED <<executor, start, chain, begin, answer>>, RegistryInv', CountsNatural
    PROVE  ShapeInv'
<1>0. /\ rest[h] # <<>>
      /\ Suffix(h) \/ Starting(h)
      /\ start[h] = None => executor = "exporter"
      /\ Starting(h) => start[h] # None
  BY DEF ShapeInv, Shapes, Shape, Executing, Starting
<1>1. TypeOK'
  <2>1. Tail(rest[h]) \in Seq(Operations \cup {"reference"})
    <3>1. rest[h] \in Seq(Operations \cup {"reference"})
      BY DEF ShapeInv, TypeOK
    <3> QED BY <1>0, <3>1, TailFacts
  <2>2. <<x>> \in Seq(IF executor = "exporter" THEN Values \cup {Coroutine} ELSE Encoded)
        /\ Len(<<x>>) = 1
    <3> DEFINE S == IF executor = "exporter" THEN Values \cup {Coroutine} ELSE Encoded
    <3>1. x \in S
      OBVIOUS
    <3> HIDE DEF S
    <3>2. <<x>> \in Seq(S) /\ Len(<<x>>) = 1
      BY <3>1
    <3> QED BY <3>2 DEF S
  <2>3. /\ executor' \in Executors /\ start' \in [Handlers -> Ids \cup {None}]
        /\ chain' \in [Handlers -> Seq(Operations)] /\ begin' \in [Handlers -> Objects \cup {None}]
        /\ answer' \in [Handlers -> Encoded \cup {Thrown, Undecodable, NoAnswer}]
    BY DEF ShapeInv, TypeOK
  <2>4. /\ rest' \in [Handlers -> Seq(Operations \cup {"reference"})]
        /\ called' \in [Handlers -> Async \cup {None}]
    BY <2>1 DEF ShapeInv, TypeOK
  <2>5. /\ stack' \in [Handlers -> Seq(IF executor' = "exporter"
                                       THEN Values \cup {Coroutine} ELSE Encoded)]
        /\ \A g \in Handlers : Len(stack'[g]) <= 1
    BY <2>2 DEF ShapeInv, TypeOK
  <2> QED BY <2>3, <2>4, <2>5 DEF TypeOK, RegistryInv, CountsNatural
<1>2. stack'[h] = <<x>> /\ stack'[h] # <<>> /\ rest'[h] = Tail(rest[h]) /\ called'[h] = None
  BY DEF ShapeInv, TypeOK
<1>3. Executing(h)'
  <2>1. CASE Starting(h)
    <3>1. rest'[h] = chain'[h]
      BY <1>2, <2>1 DEF Starting
    <3>2. PICK n \in Nat : n = Len(chain'[h]) /\ n = Len(rest'[h])
      BY <3>1, ChainType DEF ShapeInv
    <3>3. n <= n /\ \A i \in 1..n : n - n + i = i
      OBVIOUS
    <3>4. Suffix(h)'
      BY <3>1, <3>2, <3>3 DEF Suffix
    <3>5. start'[h] # None
      BY <2>1 DEF Starting
    <3> QED BY <1>2, <3>4, <3>5 DEF Executing
  <2>2. CASE Suffix(h)
    <3>1. Suffix(h)' /\ Len(rest'[h]) # Len(chain'[h])
      <4>0. rest[h] # <<>>
        BY <1>0
      <4>1. /\ Len(Tail(rest[h])) = Len(rest[h]) - 1
            /\ Len(rest[h]) \in 1..Len(chain[h])
            /\ \A i \in 1..Len(Tail(rest[h])) :
                 Tail(rest[h])[i] = chain[h][Len(chain[h]) - Len(Tail(rest[h])) + i]
        BY <2>2, <4>0, SuffixTail
      <4>2. Len(chain[h]) \in Nat
        BY ChainType DEF ShapeInv
      <4>3. chain'[h] = chain[h] /\ rest'[h] = Tail(rest[h])
        BY <1>2
      <4>4. /\ Len(rest'[h]) <= Len(chain'[h])
            /\ Len(rest'[h]) # Len(chain'[h])
        <5> DEFINE n == Len(chain[h])
                   r == Len(rest[h])
        <5>1. n \in Nat /\ r \in 1..n /\ Len(rest'[h]) = r - 1 /\ Len(chain'[h]) = n
          BY <4>1, <4>2, <4>3
        <5> HIDE DEF n, r
        <5> QED BY <5>1
      <4>5. \A i \in 1..Len(rest'[h]) :
               rest'[h][i] = chain'[h][Len(chain'[h]) - Len(rest'[h]) + i]
        BY <4>1, <4>3
      <4> QED BY <4>4, <4>5 DEF Suffix
    <3> QED BY <1>2, <3>1 DEF Executing
  <2> QED BY <1>0, <2>1, <2>2
<1>4. Shape(h)'
  <2>1. answer'[h] = NoAnswer
    BY DEF ShapeInv, Shapes, Shape
  <2> QED BY <1>0, <1>2, <1>3, <2>1 DEF Shape
<1> QED BY <1>1, <1>4, OneMoves
-------------------------------------------------------------------------------
(* What an instruction does *)

\* A result that the next instruction takes from the stack is counted as inner.
Took(h) == inner' = [id \in Ids |-> inner[id] + IF HasResult(h, id) THEN 1 ELSE 0]

StackValues == IF executor = "exporter" THEN Values \cup {Coroutine} ELSE Encoded

ThrowMove(h) ==
    /\ Throw(h)
    /\ called' = [called EXCEPT ![h] = None]
    /\ UNCHANGED registryVars

AwaitMove(h) ==
    /\ pc[h] = "running" /\ rest[h] # <<>> /\ Head(rest[h]) = "apply"
    /\ Target(h) \in Async
    /\ called' = [called EXCEPT ![h] = Target(h)]
    /\ stack' = [stack EXCEPT ![h] = <<>>]
    /\ pc' = [pc EXCEPT ![h] = "awaiting"]
    /\ UNCHANGED <<registryVars, rest, answer>>

\* An instruction ends with x on the stack.
PushMove(h, x) ==
    /\ x \in StackValues
    /\ rest[h] # <<>>
    /\ stack' = [stack EXCEPT ![h] = <<x>>]
    /\ rest' = [rest EXCEPT ![h] = Tail(@)]
    /\ called' = [called EXCEPT ![h] = None]
    /\ UNCHANGED answer

PlainMove(h, x) ==
    /\ PushMove(h, x)
    /\ pc' = [pc EXCEPT ![h] = "running"]
    /\ UNCHANGED registryVars
    /\ \A id \in Ids : executor = "importer" /\ x = Reference(id) =>
          Starting(h) /\ start[h] = id

\* The importer registers the object that a call has returned.
ResultMove(h, v, id) ==
    /\ executor = "importer"
    /\ Register(v, id)
    /\ Suffix(h)
    /\ PushMove(h, Reference(id))
    /\ pc' = [pc EXCEPT ![h] = "running"]

ReleaseMove(h, g) ==
    /\ executor = "exporter"
    /\ PushMove(h, None)
    /\ pc[h] = "running"
    /\ GiveBack(g)

Moves(h) ==
    \/ ThrowMove(h)
    \/ AwaitMove(h)
    \/ \E x \in StackValues : PlainMove(h, x)
    \/ \E v \in Objects, id \in Ids : ResultMove(h, v, id)
    \/ \E g \in Handlers : ReleaseMove(h, g)

Instruction(h) ==
    \/ PushReference(h) \/ ExecuteGet(h) \/ ExecuteApply(h) \/ Resume(h)
    \/ ExecuteConstruct(h) \/ ExecuteRelease(h) \/ ExecuteUnknown(h)

LEMMA DeliverMoves ==
    ASSUME ShapeInv, NEW h \in Handlers, rest[h] # <<>>, Suffix(h),
           NEW v \in Values \cup {Raises, Coroutine}, v = Coroutine => executor = "exporter",
           Deliver(h, v, <<>>), called' = [called EXCEPT ![h] = None]
    PROVE  Moves(h)
<1>1. CASE v = Raises /\ Throw(h) /\ UNCHANGED registryVars
  BY <1>1 DEF Moves, ThrowMove
<1>2. CASE v # Raises /\ executor = "exporter" /\ Deliver(h, v, <<>>)
  <2>1. PlainMove(h, v)
    BY <1>2, ExecutorAssumption
    DEF Deliver, PlainMove, PushMove, Advance, StackValues, Throw
  <2> QED BY <2>1 DEF Moves, PlainMove, PushMove
<1>3. ASSUME v # Raises, executor = "importer", v \in Objects, NEW id \in Ids,
             pc' = [pc EXCEPT ![h] = "running"], UNCHANGED answer,
             Register(v, id), Advance(h, Append(<<>>, Reference(id)))
      PROVE  Moves(h)
  <2>1. ResultMove(h, v, id)
    BY <1>3 DEF ResultMove, PushMove, Advance, StackValues, Encoded
  <2> QED BY <1>3, <2>1 DEF Moves
<1>4. CASE v # Raises /\ executor = "importer" /\ v \notin Objects /\ Deliver(h, v, <<>>)
  <2>1. Value(v) \in Encoded
    BY <1>4 DEF Encoded, Values
  <2>2. \A id \in Ids : Value(v) # Reference(id)
    BY DEF Value, Reference
  <2>3. PlainMove(h, Value(v))
    BY <1>4, <2>1, <2>2
    DEF Deliver, PlainMove, PushMove, Advance, StackValues
  <2> QED BY <2>1, <2>3, <1>4 DEF Moves, StackValues
<1>5. executor \in {"exporter", "importer"}
  BY ExecutorAssumption DEF ShapeInv, TypeOK
<1> QED BY <1>1, <1>2, <1>3, <1>4, <1>5 DEF Deliver

\* What each instruction does, whatever its kind.
LEMMA InstructionMoves ==
    ASSUME ShapeInv, NEW h \in Handlers, Instruction(h)
    PROVE  /\ Moves(h) /\ Took(h)
           /\ pc[h] = "running" \/ (pc[h] = "awaiting" /\ LoopIsFree)
           /\ rest[h] # <<>>
           /\ UNCHANGED <<executor, passed, start, chain, begin>>
<1>0. UNCHANGED <<executor, passed, start, chain, begin>>
  BY DEF Instruction, PushReference, ExecuteGet, ExecuteApply, Resume,
         ExecuteConstruct, ExecuteRelease, ExecuteUnknown
<1>a. executor \in {"exporter", "importer"}
  BY ExecutorAssumption DEF ShapeInv, TypeOK
<1>b. Remaining(h) = <<>>
  BY OneOnStack DEF ShapeInv
<1>c. pc[h] = "running" => called = [called EXCEPT ![h] = None]
  BY RunningAwaitsNothing
<1>d. ASSUME executor = "exporter" PROVE Target(h) \in Values \cup {Coroutine}
  <2>1. RootObject \in Values
    BY ExecutorAssumption DEF Values
  <2>2. stack[h] # <<>> => Top(h) \in Values \cup {Coroutine}
    BY <1>d, OneOnStack DEF ShapeInv
  <2> QED BY <1>d, <2>1, <2>2 DEF Target
<1>e. ASSUME NEW v PROVE Outcome(v) \in Values \cup {Raises}
  BY ExecutorAssumption DEF Outcome, Values
<1>f. ASSUME NEW v \in Values \cup {Coroutine} PROVE GetMember(v) \in Values
  BY ExecutorAssumption DEF GetMember, Values
<1>g. None \in Values
  BY DEF Values
<1>h. ASSUME inner' = inner, \A id \in Ids : ~HasResult(h, id) PROVE Took(h)
  <2>1. inner \in [Ids -> Nat]
    BY DEF ShapeInv, TypeOK
  <2>2. inner = [id \in Ids |-> inner[id] + 0]
    BY <2>1
  <2> QED BY <1>h, <2>2 DEF Took
<1>1. CASE PushReference(h)
  <2>1. At(h, "reference") /\ Starting(h)
    BY <1>1, AtReference DEF PushReference
  <2>2. pc[h] = "running" /\ rest[h] # <<>>
    BY <2>1 DEF At
  <2>3. Took(h)
    <3>1. \A id \in Ids : ~HasResult(h, id)
      BY <2>1, EmptyIsNot DEF Starting, HasResult
    <3> QED BY <1>1, <1>h, <3>1 DEF PushReference
  <2>4. stack[h] = <<>> /\ start[h] \in Ids /\ UNCHANGED registryVars
    BY <1>1, <2>1 DEF Starting, ShapeInv, TypeOK, PushReference
  <2>5. \A x : Append(stack[h], x) = <<x>>
    BY <2>4
  <2>6. UNCHANGED called
    BY <1>1 DEF PushReference
  <2>7. ASSUME Get(start[h]) = None, Throw(h) PROVE Moves(h)
    BY <1>c, <2>2, <2>4, <2>6, <2>7 DEF Moves, ThrowMove
  <2>8. ASSUME executor = "exporter", Advance(h, Append(stack[h], Get(start[h]))),
               UNCHANGED <<pc, answer>>
        PROVE  Moves(h)
    <3>1. Get(start[h]) \in StackValues
      BY <2>4, <2>8 DEF Get, ShapeInv, RegistryInv, RegistryTypeOK, StackValues, Values
    <3>2. pc' = [pc EXCEPT ![h] = "running"]
      BY <2>2, <2>8 DEF ShapeInv, TypeOK
    <3>3. PlainMove(h, Get(start[h]))
      BY <1>c, <2>1, <2>2, <2>4, <2>5, <2>6, <2>8, <3>1, <3>2 DEF PlainMove, PushMove, Advance
    <3> QED BY <3>1, <3>3 DEF Moves
  <2>9. ASSUME executor = "importer", Advance(h, Append(stack[h], Reference(start[h]))),
               UNCHANGED <<pc, answer>>
        PROVE  Moves(h)
    <3>1. Reference(start[h]) \in StackValues
      BY <2>4, <2>9 DEF StackValues, Encoded
    <3>2. pc' = [pc EXCEPT ![h] = "running"]
      BY <2>2, <2>9 DEF ShapeInv, TypeOK
    <3>3. \A id \in Ids : Reference(start[h]) = Reference(id) => start[h] = id
      BY DEF Reference
    <3>4. PlainMove(h, Reference(start[h]))
      BY <1>c, <2>1, <2>2, <2>4, <2>5, <2>6, <2>9, <3>1, <3>2, <3>3
      DEF PlainMove, PushMove, Advance
    <3> QED BY <3>1, <3>4 DEF Moves
  <2>10. Moves(h)
    BY <1>1, <2>7, <2>8, <2>9 DEF PushReference
  <2> QED BY <1>0, <2>2, <2>3, <2>10
<1>2. ASSUME NEW kind \in Operations, Takes(h, kind),
             ExecuteGet(h) \/ ExecuteApply(h) \/ ExecuteConstruct(h)
               \/ ExecuteRelease(h) \/ ExecuteUnknown(h)
      PROVE  /\ pc[h] = "running" /\ rest[h] # <<>> /\ Took(h) /\ Suffix(h)
             /\ Head(rest[h]) = kind
             /\ \A x : Append(Remaining(h), x) = <<x>>
  <2>1. At(h, kind) /\ Took(h)
    BY <1>2 DEF Takes, Took
  <2>2. Suffix(h)
    BY <2>1, AtOperation DEF Executing
  <2> QED BY <1>b, <2>1, <2>2 DEF At
<1>3. CASE ExecuteGet(h)
  <2>1. Takes(h, "get") /\ "get" \in Operations
    BY <1>3 DEF ExecuteGet, Operations
  <2>2. /\ pc[h] = "running" /\ rest[h] # <<>> /\ Took(h)
        /\ \A x : Append(Remaining(h), x) = <<x>>
    BY <1>2, <1>3, <2>1
  <2>3. UNCHANGED <<registryVars, called>>
    BY <1>3 DEF ExecuteGet
  <2>4. CASE executor = "exporter"
    <3> DEFINE x == GetMember(Target(h))
    <3>1. x \in StackValues
      BY <1>d, <1>f, <2>4 DEF StackValues
    <3>2. pc' = [pc EXCEPT ![h] = "running"]
      BY <1>3, <2>2, <2>4 DEF ShapeInv, TypeOK, ExecuteGet
    <3>3. PlainMove(h, x)
      BY <1>3, <1>c, <2>2, <2>3, <2>4, <3>1, <3>2
      DEF PlainMove, PushMove, Advance, ExecuteGet
    <3> QED BY <1>0, <2>2, <3>1, <3>3 DEF Moves
  <2>5. CASE executor # "exporter"
    BY <1>0, <1>3, <1>c, <2>2, <2>3, <2>5 DEF ExecuteGet, Moves, ThrowMove
  <2> QED BY <2>4, <2>5
<1>4. CASE ExecuteApply(h)
  <2>1. Takes(h, "apply") /\ "apply" \in Operations
    BY <1>4 DEF ExecuteApply, Operations
  <2>2. /\ pc[h] = "running" /\ rest[h] # <<>> /\ Took(h) /\ Suffix(h)
        /\ Head(rest[h]) = "apply"
    BY <1>2, <1>4, <2>1
  <2>3. CASE Deliver(h, Outcome(Target(h)), Remaining(h)) /\ UNCHANGED called
    <3>1. Outcome(Target(h)) \in Values \cup {Raises}
      BY <1>e
    <3>2. Outcome(Target(h)) # Coroutine
      BY <3>1, ExecutorAssumption
    <3>3. Moves(h)
      BY <1>b, <1>c, <2>2, <2>3, <3>1, <3>2, DeliverMoves
    <3> QED BY <1>0, <2>2, <3>3
  <2>4. CASE /\ Target(h) \in Async
             /\ called' = [called EXCEPT ![h] = Target(h)]
             /\ stack' = [stack EXCEPT ![h] = Remaining(h)]
             /\ pc' = [pc EXCEPT ![h] = "awaiting"]
             /\ UNCHANGED <<registryVars, rest, answer>>
    BY <1>0, <1>b, <2>2, <2>4 DEF AwaitMove, Moves
  <2> QED BY <1>4, <2>3, <2>4 DEF ExecuteApply
<1>5. CASE Resume(h)
  <2>1. /\ LoopIsFree /\ pc[h] = "awaiting"
        /\ Deliver(h, Outcome(called[h]), stack[h])
        /\ called' = [called EXCEPT ![h] = None] /\ inner' = inner
    BY <1>5 DEF Resume
  <2>2. Suffix(h) /\ rest[h] # <<>> /\ stack[h] = <<>>
    BY <2>1 DEF ShapeInv, Shapes, Shape
  <2>3. Took(h)
    <3>1. \A id \in Ids : ~HasResult(h, id)
      BY <2>2, EmptyIsNot DEF HasResult
    <3> QED BY <1>h, <2>1, <3>1
  <2>4. Outcome(called[h]) \in Values \cup {Raises}
    BY <1>e
  <2>5. Outcome(called[h]) # Coroutine
    BY <2>4, ExecutorAssumption
  <2>6. Moves(h)
    BY <2>1, <2>2, <2>4, <2>5, DeliverMoves
  <2> QED BY <1>0, <2>1, <2>2, <2>3, <2>6
<1>6. CASE ExecuteConstruct(h)
  <2>1. Takes(h, "construct") /\ "construct" \in Operations
    BY <1>6 DEF ExecuteConstruct, Operations
  <2>2. /\ pc[h] = "running" /\ rest[h] # <<>> /\ Took(h) /\ Suffix(h)
    BY <1>2, <1>6, <2>1
  <2>3. UNCHANGED called
    BY <1>6 DEF ExecuteConstruct
  <2>4. CASE executor = "exporter"
    <3>1. Unawaited(Target(h)) \in Values \cup {Raises, Coroutine}
      BY <1>e DEF Unawaited
    <3>2. Deliver(h, Unawaited(Target(h)), <<>>)
      BY <1>6, <1>b, <2>4 DEF ExecuteConstruct
    <3>3. Moves(h)
      BY <1>c, <2>2, <2>3, <2>4, <3>1, <3>2, DeliverMoves
    <3> QED BY <1>0, <2>2, <3>3
  <2>5. CASE executor # "exporter"
    BY <1>0, <1>6, <1>c, <2>2, <2>3, <2>5 DEF ExecuteConstruct, Moves, ThrowMove
  <2> QED BY <2>4, <2>5
<1>7. CASE ExecuteRelease(h)
  <2>1. Takes(h, "release") /\ "release" \in Operations
    BY <1>7 DEF ExecuteRelease, Operations
  <2>2. /\ pc[h] = "running" /\ rest[h] # <<>> /\ Took(h)
        /\ \A x : Append(Remaining(h), x) = <<x>>
    BY <1>2, <1>7, <2>1
  <2>3. UNCHANGED called
    BY <1>7 DEF ExecuteRelease
  <2>4. CASE executor = "exporter"
    <3>1. PushMove(h, None)
      BY <1>7, <1>c, <1>g, <2>2, <2>3, <2>4
      DEF PushMove, Advance, ExecuteRelease, StackValues
    <3>2. CASE \E g \in Handlers : GiveBack(g)
      BY <1>0, <2>2, <2>4, <3>1, <3>2 DEF ReleaseMove, Moves
    <3>3. CASE UNCHANGED <<registryVars, pc>>
      <4>1. pc' = [pc EXCEPT ![h] = "running"]
        BY <2>2, <3>3 DEF ShapeInv, TypeOK
      <4>2. PlainMove(h, None) /\ None \in StackValues
        BY <2>4, <3>1, <3>3, <4>1 DEF PlainMove, PushMove
      <4> QED BY <1>0, <2>2, <4>2 DEF Moves
    <3> QED BY <1>7, <2>4, <3>2, <3>3 DEF ExecuteRelease
  <2>5. CASE executor # "exporter"
    BY <1>0, <1>7, <1>c, <2>2, <2>3, <2>5 DEF ExecuteRelease, Moves, ThrowMove
  <2> QED BY <2>4, <2>5
<1>8. CASE ExecuteUnknown(h)
  <2>1. Takes(h, "unknown") /\ "unknown" \in Operations
    BY <1>8 DEF ExecuteUnknown, Operations
  <2>2. /\ pc[h] = "running" /\ rest[h] # <<>> /\ Took(h)
    BY <1>2, <1>8, <2>1
  <2> QED BY <1>0, <1>8, <1>c, <2>2 DEF ExecuteUnknown, Moves, ThrowMove
<1> QED BY <1>1, <1>3, <1>4, <1>5, <1>6, <1>7, <1>8 DEF Instruction

LEMMA RegistryStays == RegistryInv /\ UNCHANGED registryVars => RegistryInv'
BY DEF registryVars, RegistryInv, RegistryTypeOK, CountedIffMapped, KeysMatchEntries

LEMMA TookCounts ==
    ASSUME ShapeInv, NEW h \in Handlers, Took(h), UNCHANGED passed
    PROVE  CountsNatural
BY DEF ShapeInv, TypeOK, Took, CountsNatural

\* Giving back an answer only moves the handler that has answered.
LEMMA GiveBackMoves ==
    ASSUME ShapeInv, NEW g \in Handlers, GiveBack(g)
    PROVE  /\ RegistryInv'
           /\ pc[g] = "answered" /\ answer[g].kind = "reference"
           /\ pc' = [pc EXCEPT ![g] = "released"]
           /\ answer[g] = Reference(answer[g].id) /\ answer[g].id \in Ids
           /\ pc' \in [Handlers -> {"idle", "running", "awaiting", "answered", "released"}]
<1>1. answer[g] = Reference(answer[g].id) /\ answer[g].id \in Ids
  BY DEF GiveBack, ShapeInv, TypeOK, Encoded, Reference, Value, Thrown, Undecodable, NoAnswer
<1>2. Delete(answer[g].id)
  BY DEF GiveBack
<1>3. RegistryInv'
  BY <1>1, <1>2, DeleteKeepsInv DEF ShapeInv
<1> QED BY <1>1, <1>3 DEF GiveBack, ShapeInv, TypeOK

LEMMA InstructionKeeps ==
    ASSUME ShapeInv, NEW h \in Handlers, Instruction(h)
    PROVE  ShapeInv'
<1>1. /\ Moves(h) /\ Took(h) /\ rest[h] # <<>>
      /\ UNCHANGED <<executor, passed, start, chain, begin>>
  BY InstructionMoves
<1>2. pc[h] = "running" \/ (pc[h] = "awaiting" /\ LoopIsFree)
  BY InstructionMoves
<1>3. CountsNatural
  BY <1>1, TookCounts
<1>4. CASE ThrowMove(h)
  <2>1. RegistryInv'
    BY <1>4, RegistryStays DEF ThrowMove, ShapeInv
  <2> QED BY <1>1, <1>2, <1>3, <1>4, <2>1, ThrowKeeps DEF ThrowMove
<1>5. CASE AwaitMove(h)
  <2>1. RegistryInv'
    BY <1>5, RegistryStays DEF AwaitMove, ShapeInv
  <2>2. OthersStay(h)
    BY <1>1, <1>5 DEF AwaitMove, OthersStay, ShapeInv, TypeOK
  <2>3. TypeOK'
    <3>1. <<>> \in Seq(IF executor = "exporter" THEN Values \cup {Coroutine} ELSE Encoded)
          /\ Len(<<>>) = 0
      OBVIOUS
    <3>2. /\ executor' \in Executors /\ start' \in [Handlers -> Ids \cup {None}]
          /\ chain' \in [Handlers -> Seq(Operations)] /\ begin' \in [Handlers -> Objects \cup {None}]
          /\ rest' \in [Handlers -> Seq(Operations \cup {"reference"})]
          /\ answer' \in [Handlers -> Encoded \cup {Thrown, Undecodable, NoAnswer}]
      BY <1>1, <1>5 DEF ShapeInv, TypeOK, AwaitMove
    <3>3. /\ called' \in [Handlers -> Async \cup {None}]
          /\ pc' \in [Handlers -> {"idle", "running", "awaiting", "answered", "released"}]
      BY <1>5 DEF ShapeInv, TypeOK, AwaitMove
    <3>4. /\ stack' \in [Handlers -> Seq(IF executor' = "exporter"
                                         THEN Values \cup {Coroutine} ELSE Encoded)]
          /\ \A g \in Handlers : Len(stack'[g]) <= 1
      BY <1>1, <1>5, <3>1 DEF ShapeInv, TypeOK, AwaitMove
    <3> QED BY <1>3, <2>1, <3>2, <3>3, <3>4 DEF TypeOK, RegistryInv, CountsNatural
  <2>4. Shape(h)'
    <3>1. At(h, "apply") /\ "apply" \in Operations
      BY <1>5 DEF AwaitMove, At, Operations
    <3>2. Suffix(h)
      BY <3>1, AtOperation DEF Executing
    <3>3. Suffix(h)'
      BY <1>1, <1>5, <3>2 DEF Suffix, AwaitMove
    <3>4. /\ stack'[h] = <<>> /\ called'[h] \in Async /\ pc'[h] = "awaiting"
          /\ rest'[h] # <<>> /\ Head(rest'[h]) = "apply" /\ answer'[h] = answer[h]
      BY <1>5 DEF AwaitMove, ShapeInv, TypeOK
    <3>5. answer[h] = NoAnswer /\ (start[h] = None => executor = "exporter")
      BY <1>2 DEF ShapeInv, Shapes, Shape
    <3> QED BY <1>1, <3>3, <3>4, <3>5 DEF Shape
  <2> QED BY <1>2, <2>1, <2>2, <2>3, <2>4, OneMoves
<1>6. ASSUME NEW x \in StackValues, PushMove(h, x), RegistryInv',
             pc' \in [Handlers -> {"idle", "running", "awaiting", "answered", "released"}],
             pc'[h] = "running",
             \A g \in Handlers \ {h} :
                \/ pc'[g] = pc[g]
                \/ /\ pc[g] = "answered" /\ answer[g].kind = "reference"
                   /\ pc'[g] = "released"
      PROVE  ShapeInv'
  <2>1. OthersStay(h)
    BY <1>1, <1>6 DEF OthersStay, PushMove, ShapeInv, TypeOK
  <2>2. /\ stack' = [stack EXCEPT ![h] = <<x>>]
        /\ rest' = [rest EXCEPT ![h] = Tail(@)]
        /\ called' = [called EXCEPT ![h] = None]
        /\ UNCHANGED answer
    BY <1>6 DEF PushMove
  <2>3. x \in IF executor = "exporter" THEN Values \cup {Coroutine} ELSE Encoded
    BY DEF StackValues
  <2>4. \/ pc[h] = "running" /\ rest[h] # <<>>
        \/ pc[h] = "awaiting" /\ LoopIsFree
    BY <1>1, <1>2
  <2> QED BY <1>1, <1>3, <1>6, <2>1, <2>2, <2>3, <2>4, PushKeeps
<1>7. ASSUME NEW x \in StackValues, PlainMove(h, x) PROVE ShapeInv'
  <2>1. RegistryInv'
    BY <1>7, RegistryStays DEF PlainMove, ShapeInv
  <2>2. /\ PushMove(h, x) /\ pc'[h] = "running"
        /\ pc' \in [Handlers -> {"idle", "running", "awaiting", "answered", "released"}]
        /\ \A g \in Handlers \ {h} : pc'[g] = pc[g]
    BY <1>7 DEF PlainMove, ShapeInv, TypeOK
  <2> QED BY <1>6, <2>1, <2>2
<1>8. ASSUME NEW v \in Objects, NEW id \in Ids, ResultMove(h, v, id) PROVE ShapeInv'
  <2>1. RegistryInv'
    BY <1>8, RegisterKeepsInv DEF ResultMove, ShapeInv
  <2>2. /\ PushMove(h, Reference(id)) /\ pc'[h] = "running"
        /\ pc' \in [Handlers -> {"idle", "running", "awaiting", "answered", "released"}]
        /\ \A g \in Handlers \ {h} : pc'[g] = pc[g]
    BY <1>8 DEF ResultMove, ShapeInv, TypeOK
  <2>3. Reference(id) \in StackValues
    BY <1>8 DEF ResultMove, PushMove
  <2> QED BY <1>6, <2>1, <2>2, <2>3
<1>9. ASSUME NEW g \in Handlers, ReleaseMove(h, g) PROVE ShapeInv'
  <2>1. /\ RegistryInv' /\ pc[g] = "answered" /\ answer[g].kind = "reference"
        /\ pc' = [pc EXCEPT ![g] = "released"]
        /\ pc' \in [Handlers -> {"idle", "running", "awaiting", "answered", "released"}]
    BY <1>9, GiveBackMoves DEF ReleaseMove
  <2>2. PushMove(h, None) /\ pc[h] = "running" /\ None \in StackValues
    BY <1>9 DEF ReleaseMove, PushMove
  <2>3. /\ pc'[h] = "running"
        /\ \A f \in Handlers \ {h} :
                \/ pc'[f] = pc[f]
                \/ /\ pc[f] = "answered" /\ answer[f].kind = "reference"
                   /\ pc'[f] = "released"
    BY <2>1, <2>2 DEF ShapeInv, TypeOK
  <2> QED BY <1>6, <2>1, <2>2, <2>3
<1> QED BY <1>1, <1>4, <1>5, <1>7, <1>8, <1>9 DEF Moves

LEMMA PassArgumentKeeps ==
    ASSUME ShapeInv, NEW o \in Objects, NEW id \in Ids, PassArgument(o, id)
    PROVE  ShapeInv'
<1>1. RegistryInv'
  <2>1. CASE Register(o, id)
    BY <2>1, RegisterKeepsInv DEF ShapeInv
  <2>2. CASE issued' = issued \cup {id} /\ UNCHANGED <<map, counts, weak_map>>
    BY <2>2 DEF ShapeInv, RegistryInv, RegistryTypeOK, CountedIffMapped, KeysMatchEntries
  <2> QED BY <2>1, <2>2 DEF PassArgument
<1>2. UNCHANGED <<executor, inner, start, chain, rest, stack, called, pc, answer, begin>>
  BY DEF PassArgument
<1>3. TypeOK'
  <2>1. passed' \in [Ids -> Nat]
    BY DEF PassArgument, ShapeInv, TypeOK
  <2> QED BY <1>1, <1>2, <2>1 DEF ShapeInv, TypeOK, RegistryInv
<1>4. ASSUME NEW h \in Handlers PROVE Shape(h)'
  <2>1. Shape(h)
    BY DEF ShapeInv, Shapes
  <2> QED BY <1>2, <2>1 DEF Shape, Starting, Executing, Suffix
<1> QED BY <1>1, <1>2, <1>3, <1>4 DEF ShapeInv, Shapes, Solo

LEMMA ReceiveKeeps ==
    ASSUME ShapeInv, NEW h \in Handlers, NEW id \in Ids \cup {None},
           NEW ops \in Chains, Receive(h, id, ops)
    PROVE  ShapeInv'
<1>1. /\ UNCHANGED registryVars
      /\ UNCHANGED <<executor, passed, inner, stack, called, answer>>
      /\ LoopIsFree /\ pc[h] = "idle"
      /\ id = None => executor = "exporter"
  BY DEF Receive
<1>2. /\ start' = [start EXCEPT ![h] = id] /\ chain' = [chain EXCEPT ![h] = ops]
      /\ rest' = [rest EXCEPT ![h] = IF id = None THEN ops
                                                  ELSE <<"reference">> \o ops]
      /\ begin' = [begin EXCEPT ![h] = IF id = None THEN RootObject ELSE Get(id)]
      /\ pc' = [pc EXCEPT ![h] = "running"]
  BY DEF Receive
<1>3. RegistryInv'
  BY <1>1, RegistryStays DEF ShapeInv
<1>4. ops \in Seq(Operations)
  BY ExecutorAssumption
<1>5. /\ <<"reference">> \o ops \in Seq(Operations \cup {"reference"})
      /\ Len(<<"reference">> \o ops) = Len(ops) + 1
      /\ Head(<<"reference">> \o ops) = "reference"
      /\ Tail(<<"reference">> \o ops) = ops
      /\ ops \in Seq(Operations \cup {"reference"}) /\ Len(ops) \in Nat
  BY <1>4
<1>6. TypeOK'
  <2>1. /\ start' \in [Handlers -> Ids \cup {None}] /\ chain' \in [Handlers -> Seq(Operations)]
        /\ pc' \in [Handlers -> {"idle", "running", "awaiting", "answered", "released"}]
    BY <1>2, <1>4 DEF ShapeInv, TypeOK
  <2>2. rest' \in [Handlers -> Seq(Operations \cup {"reference"})]
    BY <1>2, <1>5 DEF ShapeInv, TypeOK
  <2>3. begin' \in [Handlers -> Objects \cup {None}]
    <3>1. (IF id = None THEN RootObject ELSE Get(id)) \in Objects \cup {None}
      BY ExecutorAssumption DEF Get, ShapeInv, RegistryInv, RegistryTypeOK
    <3> QED BY <1>2, <3>1 DEF ShapeInv, TypeOK
  <2> QED BY <1>1, <1>3, <2>1, <2>2, <2>3 DEF ShapeInv, TypeOK, RegistryInv
<1>7. OthersStay(h)
  BY <1>1, <1>2 DEF OthersStay, ShapeInv, TypeOK
<1>8. Shape(h)'
  <2>1. stack[h] = <<>> /\ called[h] = None /\ answer[h] = NoAnswer
    BY <1>1 DEF ShapeInv, Shapes, Shape
  <2>2. /\ start'[h] = id /\ chain'[h] = ops /\ pc'[h] = "running"
        /\ rest'[h] = IF id = None THEN ops ELSE <<"reference">> \o ops
    BY <1>2 DEF ShapeInv, TypeOK
  <2>3. CASE id = None
    <3>1. PICK n \in Nat : n = Len(ops)
      BY <1>5
    <3>2. n <= n /\ \A i \in 1..n : n - n + i = i
      OBVIOUS
    <3>3. Suffix(h)'
      BY <2>2, <2>3, <3>1, <3>2 DEF Suffix
    <3>4. Executing(h)'
      BY <1>1, <2>1, <2>2, <2>3, <3>3 DEF Executing
    <3> QED BY <1>1, <2>1, <2>2, <3>4 DEF Shape
  <2>4. CASE id # None
    <3>1. Starting(h)'
      BY <1>1, <1>5, <2>1, <2>2, <2>4 DEF Starting
    <3> QED BY <1>1, <2>1, <2>2, <2>4, <3>1 DEF Shape
  <2> QED BY <2>3, <2>4
<1> QED BY <1>1, <1>3, <1>6, <1>7, <1>8, OneMoves

\* The answer of a handler, and what it registers for it.
AnswerMove(h, a) ==
    /\ pc[h] = "running" /\ rest[h] = <<>>
    /\ a \in Encoded \cup {Thrown, Undecodable}
    /\ answer' = [answer EXCEPT ![h] = a]
    /\ \/ /\ UNCHANGED registryVars
          /\ \A id \in Ids : a = Reference(id) <=>
                executor = "importer" /\ stack[h] = <<Reference(id)>>
       \/ \E v \in Objects, id \in Ids :
             executor = "exporter" /\ a = Reference(id) /\ Register(v, id)

LEMMA AnswerMoves ==
    ASSUME ShapeInv, NEW h \in Handlers, Answer(h)
    PROVE  \E a : AnswerMove(h, a)
<1>0. pc[h] = "running" /\ rest[h] = <<>>
  BY DEF Answer
<1>1. ASSUME stack[h] = <<>>, answer' = [answer EXCEPT ![h] = Undecodable],
             UNCHANGED registryVars
      PROVE  \E a : AnswerMove(h, a)
  <2>1. AnswerMove(h, Undecodable)
    BY <1>0, <1>1 DEF AnswerMove, Undecodable, Reference
  <2> QED BY <2>1
<1>2. ASSUME executor = "exporter", stack[h] # <<>>, Top(h) \in Objects,
             NEW id \in Ids, Register(Top(h), id),
             answer' = [answer EXCEPT ![h] = Reference(id)]
      PROVE  \E a : AnswerMove(h, a)
  <2>1. AnswerMove(h, Reference(id))
    BY <1>0, <1>2 DEF AnswerMove, Encoded
  <2> QED BY <2>1
<1>3. ASSUME executor = "exporter", stack[h] # <<>>, Top(h) \notin Objects,
             answer' = [answer EXCEPT ![h] =
                           IF Top(h) = Coroutine THEN Thrown ELSE Value(Top(h))],
             UNCHANGED registryVars
      PROVE  \E a : AnswerMove(h, a)
  <2>1. Top(h) \in Plain \cup {None, Coroutine}
    BY <1>3, OneOnStack DEF ShapeInv, Values
  <2>2. AnswerMove(h, IF Top(h) = Coroutine THEN Thrown ELSE Value(Top(h)))
    BY <1>0, <1>3, <2>1 DEF AnswerMove, Encoded, Thrown, Value, Reference
  <2> QED BY <2>2
<1>4. ASSUME executor = "importer", stack[h] # <<>>,
             answer' = [answer EXCEPT ![h] = Top(h)], UNCHANGED registryVars
      PROVE  \E a : AnswerMove(h, a)
  <2>1. Top(h) \in Encoded /\ stack[h] = <<Top(h)>>
    BY <1>4, OneOnStack DEF ShapeInv
  <2>2. AnswerMove(h, Top(h))
    BY <1>0, <1>4, <2>1 DEF AnswerMove
  <2> QED BY <2>2
<1> QED BY <1>1, <1>2, <1>3, <1>4 DEF Answer

LEMMA AnswerKeeps ==
    ASSUME ShapeInv, NEW h \in Handlers, Answer(h)
    PROVE  ShapeInv'
<1>1. PICK a : AnswerMove(h, a)
  BY AnswerMoves
<1>2. /\ UNCHANGED <<executor, passed, inner, start, chain, rest, called, begin>>
      /\ pc' = [pc EXCEPT ![h] = "answered"]
      /\ stack' = [stack EXCEPT ![h] = <<>>]
  BY DEF Answer
<1>3. /\ a \in Encoded \cup {Thrown, Undecodable} /\ pc[h] = "running"
      /\ answer' = [answer EXCEPT ![h] = a]
  BY <1>1 DEF AnswerMove
<1>4. RegistryInv'
  BY <1>1, RegistryStays, RegisterKeepsInv DEF AnswerMove, ShapeInv
<1>5. TypeOK'
  <2>1. <<>> \in Seq(IF executor = "exporter" THEN Values \cup {Coroutine} ELSE Encoded)
        /\ Len(<<>>) = 0
    OBVIOUS
  <2>2. /\ answer' \in [Handlers -> Encoded \cup {Thrown, Undecodable, NoAnswer}]
        /\ pc' \in [Handlers -> {"idle", "running", "awaiting", "answered", "released"}]
    BY <1>2, <1>3 DEF ShapeInv, TypeOK
  <2>3. /\ stack' \in [Handlers -> Seq(IF executor' = "exporter"
                                       THEN Values \cup {Coroutine} ELSE Encoded)]
        /\ \A g \in Handlers : Len(stack'[g]) <= 1
    BY <1>2, <2>1 DEF ShapeInv, TypeOK
  <2> QED BY <1>2, <1>4, <2>2, <2>3 DEF ShapeInv, TypeOK, RegistryInv
<1>6. OthersStay(h)
  BY <1>2, <1>3 DEF OthersStay, ShapeInv, TypeOK
<1>7. Shape(h)'
  <2>1. /\ stack'[h] = <<>> /\ called'[h] = None /\ pc'[h] = "answered"
        /\ answer'[h] = a /\ start'[h] = start[h]
        /\ start[h] = None => executor = "exporter"
    BY <1>2, <1>3 DEF ShapeInv, Shapes, Shape, TypeOK
  <2>2. a # NoAnswer
    BY <1>3 DEF Encoded, Reference, Value, Thrown, Undecodable, NoAnswer
  <2> QED BY <1>2, <2>1, <2>2 DEF Shape
<1> QED BY <1>3, <1>4, <1>5, <1>6, <1>7, OneMoves

LEMMA ReleaseAnswerKeeps ==
    ASSUME ShapeInv, NEW h \in Handlers, ReleaseAnswer(h)
    PROVE  ShapeInv'
<1>1. /\ LoopIsFree /\ GiveBack(h)
      /\ UNCHANGED <<executor, passed, inner, start, chain, rest, stack, called,
                     answer, begin>>
  BY DEF ReleaseAnswer
<1>2. /\ RegistryInv' /\ pc[h] = "answered" /\ answer[h].kind = "reference"
      /\ pc' = [pc EXCEPT ![h] = "released"]
      /\ pc' \in [Handlers -> {"idle", "running", "awaiting", "answered", "released"}]
  BY <1>1, GiveBackMoves
<1>3. TypeOK'
  BY <1>1, <1>2 DEF ShapeInv, TypeOK, RegistryInv
<1>4. OthersStay(h)
  BY <1>1, <1>2 DEF OthersStay, ShapeInv, TypeOK
<1>5. Shape(h)'
  <2>1. Shape(h) /\ pc'[h] = "released"
    BY <1>2 DEF ShapeInv, Shapes, TypeOK
  <2> QED BY <1>1, <1>2, <2>1 DEF Shape
<1> QED BY <1>1, <1>2, <1>3, <1>4, <1>5, OneMoves

LEMMA InitShapeInv == Init => ShapeInv
<1> SUFFICES ASSUME Init PROVE ShapeInv
  OBVIOUS
<1>1. RegistryInv
  BY RegistryInitInv DEF Init
<1>2. TypeOK
  <2>1. /\ <<>> \in Seq(Operations \cup {"reference"}) /\ Len(<<>>) = 0
        /\ <<>> \in Seq(IF executor = "exporter" THEN Values \cup {Coroutine} ELSE Encoded)
        /\ <<>> \in Seq(Operations)
    OBVIOUS
  <2> QED BY <1>1, <2>1 DEF Init, TypeOK, RegistryInv
<1> QED BY <1>1, <1>2 DEF Init, ShapeInv, Shapes, Shape, Solo

\* What a step of the executor can be.
LEMMA NextSteps ==
    ASSUME Next
    PROVE  \/ \E o \in Objects, id \in Ids : PassArgument(o, id)
           \/ \E h \in Handlers, id \in Ids \cup {None}, ops \in Chains :
                 Receive(h, id, ops) /\ (id = None \/ id \in Known)
           \/ \E h \in Handlers : Instruction(h) \/ Answer(h) \/ ReleaseAnswer(h)
<1>1. Known \subseteq Ids
  BY DEF Known
<1> QED BY <1>1 DEF Next, Instruction

LEMMA NextShapeInv == ShapeInv /\ [Next]_vars => ShapeInv'
<1> SUFFICES ASSUME ShapeInv, [Next]_vars PROVE ShapeInv'
  OBVIOUS
<1>1. CASE UNCHANGED vars
  <2>1. RegistryInv'
    BY <1>1, RegistryStays DEF vars, ShapeInv
  <2> QED BY <1>1, <2>1 DEF vars, execVars, ShapeInv, TypeOK, RegistryInv, Shapes, Shape,
                           Suffix, Starting, Executing, Solo
<1>2. CASE Next
  BY <1>2, NextSteps, PassArgumentKeeps, ReceiveKeeps, InstructionKeeps, AnswerKeeps,
     ReleaseAnswerKeeps
<1> QED BY <1>1, <1>2

\* The variables keep their types, stacks their single value, and handlers their
\* turns, whatever chains arrive and however handlers, releases and arguments
\* interleave at the awaits (exported.py, _execute; imported.py,
\* _execute_incoming).
THEOREM ExecutorTypesKept == Spec => []TypeOK
<1>1. Spec => []ShapeInv
  BY InitShapeInv, NextShapeInv, PTL DEF Spec
<1>2. ShapeInv => TypeOK
  BY DEF ShapeInv
<1> QED BY <1>1, <1>2, PTL
-------------------------------------------------------------------------------
(* Counting references *)

\* No identifier is heard of before it is issued.
Mentioned(id) ==
    \/ passed[id] > 0 \/ inner[id] > 0
    \/ \E h \in Handlers : \/ start[h] = id
                           \/ answer[h] = Reference(id)
                           \/ executor = "importer" /\ stack[h] = <<Reference(id)>>

MentionedAreIssued == \A id \in Ids : Mentioned(id) => id \in issued

CountInv == ShapeInv /\ MentionedAreIssued /\ AnswersCounted

Results(id) == {h \in Handlers : HasResult(h, id)}

Bit(p) == IF p THEN 1 ELSE 0

\* Only handler h may move in or out of a set.
LEMMA OneDiffers ==
    ASSUME NEW S \in SUBSET Handlers, NEW T \in SUBSET Handlers, NEW h \in Handlers,
           \A g \in Handlers \ {h} : g \in S <=> g \in T
    PROVE  /\ Cardinality(S) \in Nat /\ Cardinality(T) \in Nat
           /\ Cardinality(T) + Bit(h \in S) = Cardinality(S) + Bit(h \in T)
           /\ Cardinality(S) >= Bit(h \in S)
<1>1. IsFiniteSet(S) /\ IsFiniteSet(T)
  BY FS_Subset, ExecutorAssumption
<1>2. Cardinality(S) \in Nat /\ Cardinality(T) \in Nat
  BY <1>1, FS_CardinalityType
<1>3. h \in S => Cardinality(S) >= 1
  BY <1>1, <1>2, FS_EmptySet
<1>4. CASE h \in S /\ h \in T
  <2>1. S = T
    BY <1>4
  <2>2. Bit(h \in S) = 1 /\ Bit(h \in T) = 1
    BY <1>4 DEF Bit
  <2> QED BY <1>2, <1>3, <1>4, <2>1, <2>2
<1>5. CASE h \notin S /\ h \notin T
  <2>1. S = T
    BY <1>5
  <2>2. Bit(h \in S) = 0 /\ Bit(h \in T) = 0
    BY <1>5 DEF Bit
  <2> QED BY <1>2, <2>1, <2>2
<1>6. CASE h \in S /\ h \notin T
  <2>1. T = S \ {h}
    BY <1>6
  <2>2. Cardinality(T) = Cardinality(S) - 1
    BY <1>1, <1>6, <2>1, FS_RemoveElement
  <2> QED BY <1>2, <1>3, <1>6, <2>2 DEF Bit
<1>7. CASE h \notin S /\ h \in T
  <2>1. T = S \cup {h}
    BY <1>7
  <2>2. Cardinality(T) = Cardinality(S) + 1
    BY <1>1, <1>7, <2>1, FS_AddElement
  <2> QED BY <1>2, <1>7, <2>2 DEF Bit
<1> QED BY <1>4, <1>5, <1>6, <1>7

\* register counts one reference more, for an identifier that is counted already
\* or that is new.
LEMMA RegisterCounts ==
    ASSUME RegistryInv, NEW o \in Objects, NEW id \in Ids, Register(o, id)
    PROVE  /\ counts' = [counts EXCEPT ![id] = counts[id] + 1]
           /\ counts[id] = 0 => id \notin issued
           /\ issued' = issued \cup {id}
<1> USE RegistryAssumption DEF RegistryInv, RegistryTypeOK
<1>1. CASE Retain(o, id)
  <2>1. id = weak_map[KeyOf[o]] /\ o \in WeakRefable
    BY <1>1 DEF Retain, Existing
  <2>2. map[id] # None /\ counts[id] > 0 /\ id \in issued
    BY <2>1 DEF KeysMatchEntries, CountedIffMapped
  <2> QED BY <1>1, <2>2 DEF Retain
<1>2. CASE Enter(o, id)
  <2>1. counts[id] = 0
    BY <1>2 DEF Enter, CountedIffMapped
  <2> QED BY <1>2, <2>1 DEF Enter
<1> QED BY <1>1, <1>2 DEF Register

\* delete counts one less, and nothing for an identifier that is gone.
LEMMA DeleteCounts ==
    ASSUME RegistryInv, NEW id \in Ids, Delete(id)
    PROVE  /\ counts' = [counts EXCEPT ![id] = IF counts[id] > 0 THEN counts[id] - 1 ELSE 0]
           /\ issued' = issued
<1> USE RegistryAssumption DEF RegistryInv, RegistryTypeOK
<1> DEFINE left == IF counts[id] > 0 THEN counts[id] - 1 ELSE 0
<1>1. CASE ReleaseOne(id)
  <2>1. left = counts[id] - 1 /\ counts' = [counts EXCEPT ![id] = counts[id] - 1]
    BY <1>1 DEF ReleaseOne
  <2> QED BY <1>1, <2>1 DEF ReleaseOne
<1>2. CASE Remove(id)
  <2>1. left = 0 /\ counts' = [counts EXCEPT ![id] = 0]
    BY <1>2 DEF Remove
  <2> QED BY <1>2, <2>1 DEF Remove
<1> QED BY <1>1, <1>2 DEF Delete

\* What the importer owes changes only by what handler h, passed and inner do.
LEMMA OwedChange ==
    ASSUME ShapeInv, ShapeInv', executor = "importer", executor' = executor,
           NEW h \in Handlers,
           \A g \in Handlers \ {h} :
              /\ chain'[g] = chain[g] /\ rest'[g] = rest[g] /\ stack'[g] = stack[g]
              /\ pc'[g] = pc[g] /\ answer'[g] = answer[g],
           NEW id \in Ids
    PROVE  /\ Owed(id) \in Nat /\ Owed(id)' \in Nat
           /\ Cardinality(LostTo(id)) \in Nat /\ Cardinality(LostTo(id)') \in Nat
           /\ Owed(id)' + passed[id] + inner[id]
                 + Bit(h \in Counted(id)) + Bit(HasResult(h, id))
               = Owed(id) + passed'[id] + inner'[id]
                 + Bit(h \in Counted(id)') + Bit(HasResult(h, id)')
           /\ Owed(id) >= Bit(h \in Counted(id)) + Bit(HasResult(h, id))
           /\ Cardinality(LostTo(id)') + Bit(h \in LostTo(id))
               = Cardinality(LostTo(id)) + Bit(h \in LostTo(id)')
<1>1. \A g \in Handlers \ {h} :
         /\ g \in Counted(id) <=> g \in Counted(id)'
         /\ g \in Results(id) <=> g \in Results(id)'
         /\ g \in LostTo(id) <=> g \in LostTo(id)'
  BY DEF Counted, Answered, Bare, Results, HasResult, LostTo
<1>2. /\ Counted(id) \in SUBSET Handlers /\ Counted(id)' \in SUBSET Handlers
      /\ Results(id) \in SUBSET Handlers /\ Results(id)' \in SUBSET Handlers
      /\ LostTo(id) \in SUBSET Handlers /\ LostTo(id)' \in SUBSET Handlers
  BY DEF Counted, Answered, Results, LostTo
<1>3. /\ passed[id] \in Nat /\ passed'[id] \in Nat
      /\ inner[id] \in Nat /\ inner'[id] \in Nat
  BY DEF ShapeInv, TypeOK
<1>4. PICK c, d : c = Counted(id) /\ d = Counted(id)'
  OBVIOUS
<1>5. PICK r, s : r = Results(id) /\ s = Results(id)'
  OBVIOUS
<1>6. PICK k, l : k = LostTo(id) /\ l = LostTo(id)'
  OBVIOUS
<1>7. /\ Cardinality(c) \in Nat /\ Cardinality(d) \in Nat /\ Cardinality(c) >= Bit(h \in c)
      /\ Cardinality(d) + Bit(h \in c) = Cardinality(c) + Bit(h \in d)
  BY <1>1, <1>2, <1>4, OneDiffers
<1>8. /\ Cardinality(r) \in Nat /\ Cardinality(s) \in Nat /\ Cardinality(r) >= Bit(h \in r)
      /\ Cardinality(s) + Bit(h \in r) = Cardinality(r) + Bit(h \in s)
  BY <1>1, <1>2, <1>5, OneDiffers
<1>9. /\ Cardinality(k) \in Nat /\ Cardinality(l) \in Nat
      /\ Cardinality(l) + Bit(h \in k) = Cardinality(k) + Bit(h \in l)
  BY <1>1, <1>2, <1>6, OneDiffers
<1>10. /\ Owed(id) = passed[id] + inner[id] + Cardinality(c) + Cardinality(r)
       /\ Owed(id)' = passed'[id] + inner'[id] + Cardinality(d) + Cardinality(s)
  BY <1>4, <1>5 DEF Owed, Results
<1>11. (h \in r <=> HasResult(h, id)) /\ (h \in s <=> HasResult(h, id)')
  BY <1>5 DEF Results
<1>12. Bit(h \in r) = Bit(HasResult(h, id)) /\ Bit(h \in s) = Bit(HasResult(h, id)')
  BY <1>11 DEF Bit
<1>13. \A p : Bit(p) \in Nat
  BY DEF Bit
<1>14. /\ Owed(id) \in Nat /\ Owed(id)' \in Nat
       /\ Owed(id)' + passed[id] + inner[id] + Bit(h \in c) + Bit(h \in r)
               = Owed(id) + passed'[id] + inner'[id] + Bit(h \in d) + Bit(h \in s)
       /\ Owed(id) >= Bit(h \in c) + Bit(h \in r)
  BY <1>3, <1>7, <1>8, <1>10, <1>13
<1> QED BY <1>4, <1>6, <1>9, <1>12, <1>14
\* The handlers other than h stay exactly where they are.
Untouched(h) ==
    \A g \in Handlers \ {h} :
       /\ chain'[g] = chain[g] /\ rest'[g] = rest[g] /\ stack'[g] = stack[g]
       /\ pc'[g] = pc[g] /\ answer'[g] = answer[g] /\ start'[g] = start[g]

LEMMA RestShrinks ==
    ASSUME ShapeInv, NEW h \in Handlers, Suffix(h), rest[h] # <<>>,
           rest' = [rest EXCEPT ![h] = Tail(@)], chain' = chain
    PROVE  Len(rest'[h]) < Len(chain'[h])
<1> DEFINE n == Len(chain[h])
           r == Len(rest[h])
<1>1. Len(Tail(rest[h])) = r - 1 /\ r \in 1..n
  BY SuffixTail
<1>2. n \in Nat
  BY ChainType DEF ShapeInv
<1>3. rest'[h] = Tail(rest[h])
  BY DEF ShapeInv, TypeOK
<1> HIDE DEF n, r
<1>4. r - 1 < n
  BY <1>1, <1>2
<1> QED BY <1>1, <1>3, <1>4 DEF n

LEMMA NoResult ==
    ASSUME ShapeInv, NEW h \in Handlers, NEW id \in Ids, stack[h] = <<>>
    PROVE  ~HasResult(h, id)
BY EmptyIsNot DEF HasResult

\* On the importer an instruction leaves one more reference owed for the object
\* that a call has returned, and changes nothing else.
LEMMA ImporterInstructionCounts ==
    ASSUME CountInv, ShapeInv', executor = "importer", NEW h \in Handlers, Instruction(h)
    PROVE  AnswersCounted'
<1>1. /\ Moves(h) /\ Took(h) /\ executor' = executor /\ passed' = passed
      /\ chain' = chain /\ ShapeInv /\ start' = start
      /\ pc[h] \in {"running", "awaiting"}
  BY InstructionMoves DEF CountInv
<1>2. ASSUME NEW g \in Handlers, ReleaseMove(h, g) PROVE FALSE
  BY <1>2 DEF ReleaseMove
<1>3. Untouched(h)
  BY <1>1, <1>2 DEF Moves, ThrowMove, AwaitMove, PlainMove, ResultMove, PushMove, Throw,
     ShapeInv, TypeOK, Untouched
<1>4. answer'[h] \in {Thrown, NoAnswer} /\ pc'[h] # "released"
  <2>1. answer[h] = NoAnswer
    BY <1>1 DEF ShapeInv, Shapes, Shape
  <2> QED BY <1>1, <1>2, <2>1 DEF Moves, ThrowMove, AwaitMove, PlainMove, ResultMove,
          PushMove, Throw, ShapeInv, TypeOK
<1>5. ASSUME NEW id \in Ids
      PROVE  /\ Owed(id) \in Nat /\ Owed(id)' = Owed(id) + Bit(HasResult(h, id)')
             /\ Cardinality(LostTo(id)) \in Nat
             /\ Cardinality(LostTo(id)') = Cardinality(LostTo(id))
  <2>1. inner'[id] = inner[id] + Bit(HasResult(h, id))
    BY <1>1 DEF Took, Bit
  <2>2. h \notin Counted(id) /\ h \notin LostTo(id)
    BY <1>1 DEF Counted, Answered, LostTo
  <2>3. h \notin Counted(id)' /\ h \notin LostTo(id)'
    BY <1>4 DEF Counted, Answered, LostTo, Thrown, NoAnswer, Reference
  <2>4. /\ Bit(h \in Counted(id)) = 0 /\ Bit(h \in Counted(id)') = 0
        /\ Bit(h \in LostTo(id)) = 0 /\ Bit(h \in LostTo(id)') = 0
        /\ Bit(HasResult(h, id)) \in Nat /\ Bit(HasResult(h, id)') \in Nat
    BY <2>2, <2>3 DEF Bit
  <2>5. passed[id] \in Nat /\ inner[id] \in Nat /\ passed'[id] = passed[id]
    BY <1>1 DEF ShapeInv, TypeOK
  <2>6. /\ Owed(id) \in Nat /\ Owed(id)' \in Nat
        /\ Cardinality(LostTo(id)) \in Nat /\ Cardinality(LostTo(id)') \in Nat
        /\ Owed(id)' + passed[id] + inner[id]
                 + Bit(h \in Counted(id)) + Bit(HasResult(h, id))
               = Owed(id) + passed'[id] + inner'[id]
                 + Bit(h \in Counted(id)') + Bit(HasResult(h, id)')
        /\ Cardinality(LostTo(id)') + Bit(h \in LostTo(id))
               = Cardinality(LostTo(id)) + Bit(h \in LostTo(id)')
    BY <1>1, <1>3, OwedChange DEF Untouched
  <2> QED BY <2>1, <2>4, <2>5, <2>6
<1>6. ASSUME counts' = counts, \A id \in Ids : ~HasResult(h, id)' PROVE AnswersCounted'
  <2>1. ASSUME NEW id \in Ids
        PROVE  Owed(id)' = Owed(id) /\ Cardinality(LostTo(id)') = Cardinality(LostTo(id))
    <3>1. Bit(HasResult(h, id)') = 0
      BY <1>6 DEF Bit
    <3> QED BY <1>5, <3>1
  <2>2. ASSUME NEW id \in Ids
        PROVE  counts[id] = IF Owed(id) > Cardinality(LostTo(id))
                            THEN Owed(id) - Cardinality(LostTo(id)) ELSE 0
    BY DEF CountInv, AnswersCounted
  <2> QED BY <1>1, <1>6, <2>1, <2>2 DEF AnswersCounted
<1>7. CASE ThrowMove(h)
  <2>1. stack'[h] = <<>> /\ counts' = counts
    BY <1>1, <1>7 DEF ThrowMove, Throw, ShapeInv, TypeOK, registryVars
  <2>2. \A id \in Ids : ~HasResult(h, id)'
    BY <2>1, EmptyIsNot DEF HasResult
  <2> QED BY <1>6, <2>1, <2>2
<1>8. CASE AwaitMove(h)
  <2>1. stack'[h] = <<>> /\ counts' = counts
    BY <1>1, <1>8 DEF AwaitMove, ShapeInv, TypeOK, registryVars
  <2>2. \A id \in Ids : ~HasResult(h, id)'
    BY <2>1, EmptyIsNot DEF HasResult
  <2> QED BY <1>6, <2>1, <2>2
<1>9. ASSUME NEW x \in StackValues, PlainMove(h, x) PROVE AnswersCounted'
  <2>1. stack'[h] = <<x>> /\ counts' = counts /\ rest'[h] = Tail(rest[h])
    BY <1>1, <1>9 DEF PlainMove, PushMove, ShapeInv, TypeOK, registryVars
  <2>2. ASSUME NEW id \in Ids, HasResult(h, id)' PROVE FALSE
    <3>1. x = Reference(id)
      BY <2>1, <2>2 DEF HasResult
    <3>2. Starting(h)
      BY <1>9, <3>1 DEF PlainMove
    <3>3. Len(rest'[h]) = Len(chain'[h]) /\ Len(chain'[h]) \in Nat
      BY <1>1, <2>1, <3>2, ChainType DEF Starting, ShapeInv
    <3> QED BY <2>2, <3>3 DEF HasResult
  <2> QED BY <1>6, <2>1, <2>2
<1>10. ASSUME NEW v \in Objects, NEW id \in Ids, ResultMove(h, v, id) PROVE AnswersCounted'
  <2>1. /\ stack'[h] = <<Reference(id)>> /\ Register(v, id) /\ Suffix(h) /\ rest[h] # <<>>
        /\ rest' = [rest EXCEPT ![h] = Tail(@)]
    BY <1>1, <1>10 DEF ResultMove, PushMove, ShapeInv, TypeOK
  <2>2. Len(rest'[h]) < Len(chain'[h])
    BY <1>1, <2>1, RestShrinks
  <2>3. ASSUME NEW other \in Ids
        PROVE  Bit(HasResult(h, other)') = IF other = id THEN 1 ELSE 0
    BY <1>1, <2>1, <2>2 DEF HasResult, Bit, Reference
  <2>4. /\ counts' = [counts EXCEPT ![id] = counts[id] + 1]
        /\ counts[id] = 0 => id \notin issued
    BY <1>1, <2>1, RegisterCounts DEF ShapeInv
  <2>5. ASSUME NEW other \in Ids
        PROVE  counts'[other] = IF Owed(other)' > Cardinality(LostTo(other)')
                                THEN Owed(other)' - Cardinality(LostTo(other)') ELSE 0
    <3>1. counts[other] = IF Owed(other) > Cardinality(LostTo(other))
                          THEN Owed(other) - Cardinality(LostTo(other)) ELSE 0
      BY DEF CountInv, AnswersCounted
    <3>2. CASE other # id
      <4>1. counts'[other] = counts[other]
        BY <1>1, <2>4, <3>2 DEF ShapeInv, TypeOK, RegistryTypeOK
      <4>2. Owed(other)' = Owed(other)
            /\ Cardinality(LostTo(other)') = Cardinality(LostTo(other))
        BY <1>5, <2>3, <3>2
      <4> QED BY <3>1, <4>1, <4>2
    <3>3. CASE other = id
      <4>1. counts'[other] = counts[other] + 1
        BY <1>1, <2>4, <3>3 DEF ShapeInv, TypeOK, RegistryTypeOK
      <4>2. /\ Owed(other)' = Owed(other) + 1 /\ Owed(other) \in Nat
            /\ Cardinality(LostTo(other)') = Cardinality(LostTo(other))
            /\ Cardinality(LostTo(other)) \in Nat
        BY <1>5, <2>3, <3>3
      <4>3. Owed(other) >= Cardinality(LostTo(other))
        <5>1. CASE counts[other] # 0
          BY <3>1, <4>2, <5>1
        <5>2. CASE counts[other] = 0
          <6>1. ~Mentioned(other) /\ other \notin issued
            BY <2>4, <3>3, <5>2 DEF CountInv, MentionedAreIssued
          <6>2. LostTo(other) = {}
            BY <6>1 DEF Mentioned, LostTo
          <6> QED BY <4>2, <6>2, FS_EmptySet
        <5> QED BY <5>1, <5>2
      <4> QED BY <3>1, <4>1, <4>2, <4>3
    <3> QED BY <3>2, <3>3
  <2> QED BY <1>1, <2>5 DEF AnswersCounted
<1> QED BY <1>1, <1>2, <1>7, <1>8, <1>9, <1>10 DEF Moves
\* Answering moves a result from the stack into the answer; a bare reference was
\* never counted.
LEMMA ImporterAnswerCounts ==
    ASSUME CountInv, ShapeInv', executor = "importer", NEW h \in Handlers, Answer(h)
    PROVE  AnswersCounted'
<1>1. PICK a : AnswerMove(h, a)
  BY AnswerMoves DEF CountInv
<1>2. /\ ShapeInv /\ executor' = executor /\ passed' = passed /\ inner' = inner
      /\ pc' = [pc EXCEPT ![h] = "answered"] /\ stack' = [stack EXCEPT ![h] = <<>>]
      /\ UNCHANGED <<start, chain, rest>> /\ pc[h] = "running" /\ rest[h] = <<>>
  BY DEF Answer, CountInv
<1>3. /\ answer' = [answer EXCEPT ![h] = a] /\ UNCHANGED registryVars
      /\ \A id \in Ids : a = Reference(id) <=> stack[h] = <<Reference(id)>>
  BY <1>1 DEF AnswerMove
<1>4. Untouched(h) /\ pc'[h] = "answered" /\ stack'[h] = <<>> /\ answer'[h] = a
  BY <1>2, <1>3 DEF ShapeInv, TypeOK, Untouched
<1>5. Len(rest[h]) = 0 /\ (chain[h] # <<>> <=> 0 < Len(chain[h]))
  <2>1. chain[h] \in Seq(Operations) /\ Len(chain[h]) \in Nat
    BY <1>2, ChainType DEF ShapeInv
  <2>2. chain[h] = <<>> <=> Len(chain[h]) = 0
    BY <2>1, EmptyIsNot
  <2> QED BY <1>2, <2>1, <2>2
<1>6. ASSUME NEW id \in Ids
      PROVE  /\ Owed(id)' = Owed(id)
             /\ Cardinality(LostTo(id)') = Cardinality(LostTo(id))
  <2>1. /\ h \notin Counted(id) /\ h \notin LostTo(id) /\ h \notin LostTo(id)'
        /\ ~HasResult(h, id)'
    BY <1>2, <1>4, EmptyIsNot DEF Counted, Answered, LostTo, HasResult
  <2>2. HasResult(h, id) <=> h \in Counted(id)'
    BY <1>2, <1>3, <1>4, <1>5 DEF HasResult, Counted, Answered, Bare
  <2>3. /\ Bit(h \in Counted(id)) = 0 /\ Bit(HasResult(h, id)') = 0
        /\ Bit(h \in LostTo(id)) = 0 /\ Bit(h \in LostTo(id)') = 0
        /\ Bit(HasResult(h, id)) = Bit(h \in Counted(id)')
        /\ Bit(HasResult(h, id)) \in Nat
    BY <2>1, <2>2 DEF Bit
  <2>4. /\ passed[id] \in Nat /\ inner[id] \in Nat
        /\ passed'[id] = passed[id] /\ inner'[id] = inner[id]
    BY <1>2 DEF ShapeInv, TypeOK
  <2>5. /\ Owed(id) \in Nat /\ Owed(id)' \in Nat
        /\ Cardinality(LostTo(id)) \in Nat /\ Cardinality(LostTo(id)') \in Nat
        /\ Owed(id)' + passed[id] + inner[id]
                 + Bit(h \in Counted(id)) + Bit(HasResult(h, id))
               = Owed(id) + passed'[id] + inner'[id]
                 + Bit(h \in Counted(id)') + Bit(HasResult(h, id)')
        /\ Cardinality(LostTo(id)') + Bit(h \in LostTo(id))
               = Cardinality(LostTo(id)) + Bit(h \in LostTo(id)')
    BY <1>2, <1>4, OwedChange DEF Untouched
  <2> QED BY <2>3, <2>4, <2>5
<1>7. counts' = counts
  BY <1>3 DEF registryVars
<1>8. ASSUME NEW id \in Ids
      PROVE  counts[id] = IF Owed(id) > Cardinality(LostTo(id))
                          THEN Owed(id) - Cardinality(LostTo(id)) ELSE 0
  BY DEF CountInv, AnswersCounted
<1> QED BY <1>2, <1>6, <1>7, <1>8 DEF AnswersCounted

\* An answer is given back: one less is owed, or one more is lost.
LEMMA ImporterReleaseCounts ==
    ASSUME CountInv, ShapeInv', executor = "importer", NEW h \in Handlers, ReleaseAnswer(h)
    PROVE  AnswersCounted'
<1>1. /\ ShapeInv /\ executor' = executor /\ passed' = passed /\ inner' = inner
      /\ UNCHANGED <<start, chain, rest, stack, answer>> /\ GiveBack(h)
  BY DEF ReleaseAnswer, CountInv
<1>2. /\ RegistryInv /\ pc[h] = "answered" /\ pc' = [pc EXCEPT ![h] = "released"]
  BY <1>1 DEF GiveBack, ShapeInv
<1>3. PICK id \in Ids : answer[h] = Reference(id) /\ Delete(id)
  BY <1>1, GiveBackMoves DEF GiveBack
<1>4. counts' = [counts EXCEPT ![id] = IF counts[id] > 0 THEN counts[id] - 1 ELSE 0]
  BY <1>2, <1>3, DeleteCounts
<1>5. Untouched(h) /\ pc'[h] = "released" /\ stack[h] = <<>> /\ stack'[h] = <<>>
  BY <1>1, <1>2 DEF ShapeInv, Shapes, Shape, TypeOK, Untouched
<1>6. ASSUME NEW other \in Ids
      PROVE  /\ h \notin Counted(other)' /\ h \notin LostTo(other)
             /\ ~HasResult(h, other) /\ ~HasResult(h, other)'
             /\ h \in Counted(other) <=> other = id /\ ~Bare(h)
             /\ h \in LostTo(other)' <=> other = id /\ Bare(h)
  <2>1. answer[h] = Reference(other) <=> other = id
    BY <1>3 DEF Reference
  <2>2. Bare(h)' <=> Bare(h)
    BY <1>1 DEF Bare
  <2>3. ~HasResult(h, other) /\ ~HasResult(h, other)'
    BY <1>5, EmptyIsNot DEF HasResult
  <2> QED BY <1>1, <1>2, <1>5, <2>1, <2>2, <2>3 DEF Counted, Answered, LostTo
<1>7. ASSUME NEW other \in Ids
      PROVE  counts'[other] = IF Owed(other)' > Cardinality(LostTo(other)')
                              THEN Owed(other)' - Cardinality(LostTo(other)') ELSE 0
  <2>1. /\ Owed(other) \in Nat /\ Owed(other)' \in Nat
        /\ Cardinality(LostTo(other)) \in Nat /\ Cardinality(LostTo(other)') \in Nat
        /\ Owed(other)' + passed[other] + inner[other]
                 + Bit(h \in Counted(other)) + Bit(HasResult(h, other))
               = Owed(other) + passed'[other] + inner'[other]
                 + Bit(h \in Counted(other)') + Bit(HasResult(h, other)')
        /\ Owed(other) >= Bit(h \in Counted(other)) + Bit(HasResult(h, other))
        /\ Cardinality(LostTo(other)') + Bit(h \in LostTo(other))
               = Cardinality(LostTo(other)) + Bit(h \in LostTo(other)')
    BY <1>1, <1>5, OwedChange DEF Untouched
  <2>2. /\ passed[other] \in Nat /\ inner[other] \in Nat /\ counts[other] \in Nat
        /\ passed'[other] = passed[other] /\ inner'[other] = inner[other]
    BY <1>1 DEF ShapeInv, TypeOK, RegistryTypeOK
  <2>3. counts[other] = IF Owed(other) > Cardinality(LostTo(other))
                        THEN Owed(other) - Cardinality(LostTo(other)) ELSE 0
    BY DEF CountInv, AnswersCounted
  <2>4. /\ Bit(HasResult(h, other)) = 0 /\ Bit(HasResult(h, other)') = 0
        /\ Bit(h \in Counted(other)') = 0 /\ Bit(h \in LostTo(other)) = 0
    BY <1>6 DEF Bit
  <2>5. CASE other # id
    <3>1. Bit(h \in Counted(other)) = 0 /\ Bit(h \in LostTo(other)') = 0
      BY <1>6, <2>5 DEF Bit
    <3>2. Owed(other)' = Owed(other) /\ Cardinality(LostTo(other)') = Cardinality(LostTo(other))
      BY <2>1, <2>2, <2>4, <3>1
    <3>3. counts'[other] = counts[other]
      BY <1>1, <1>4, <2>5 DEF ShapeInv, TypeOK, RegistryTypeOK
    <3> QED BY <2>3, <3>2, <3>3
  <2>6. CASE other = id
    <3>1. counts'[other] = IF counts[other] > 0 THEN counts[other] - 1 ELSE 0
      BY <1>1, <1>4, <2>6 DEF ShapeInv, TypeOK, RegistryTypeOK
    <3>2. CASE Bare(h)
      <4>1. Bit(h \in Counted(other)) = 0 /\ Bit(h \in LostTo(other)') = 1
        BY <1>6, <2>6, <3>2 DEF Bit
      <4>2. Owed(other)' = Owed(other)
            /\ Cardinality(LostTo(other)') = Cardinality(LostTo(other)) + 1
        BY <2>1, <2>2, <2>4, <4>1
      <4> QED BY <2>1, <2>2, <2>3, <3>1, <4>2
    <3>3. CASE ~Bare(h)
      <4>1. Bit(h \in Counted(other)) = 1 /\ Bit(h \in LostTo(other)') = 0
        BY <1>6, <2>6, <3>3 DEF Bit
      <4>2. Owed(other)' = Owed(other) - 1
            /\ Cardinality(LostTo(other)') = Cardinality(LostTo(other))
        BY <2>1, <2>2, <2>4, <4>1
      <4> QED BY <2>1, <2>2, <2>3, <3>1, <4>2
    <3> QED BY <3>2, <3>3
  <2> QED BY <2>5, <2>6
<1> QED BY <1>1, <1>7 DEF AnswersCounted

\* No handler's references move.
LEMMA OwedSame ==
    ASSUME ShapeInv, ShapeInv', executor' = executor, inner' = inner, NEW id \in Ids,
           Counted(id)' = Counted(id), Results(id)' = Results(id)
    PROVE  /\ Owed(id) \in Nat /\ Owed(id)' \in Nat
           /\ Owed(id)' + passed[id] = Owed(id) + passed'[id]
<1>1. /\ passed[id] \in Nat /\ passed'[id] \in Nat /\ inner[id] \in Nat
      /\ inner'[id] = inner[id]
  BY DEF ShapeInv, TypeOK
<1>2. IsFiniteSet(Counted(id)) /\ IsFiniteSet(Results(id))
  BY FS_Subset, ExecutorAssumption DEF Counted, Answered, Results
<1>3. Cardinality(Counted(id)) \in Nat /\ Cardinality(Results(id)) \in Nat
  BY <1>2, FS_CardinalityType
<1>4. /\ Owed(id) = passed[id] + inner[id] + Cardinality(Counted(id)) + Cardinality(Results(id))
      /\ Owed(id)' = passed'[id] + inner'[id] + Cardinality(Counted(id)')
                        + Cardinality(Results(id)')
  BY DEF Owed, Results
<1> QED BY <1>1, <1>3, <1>4

LEMMA ImporterPassCounts ==
    ASSUME CountInv, ShapeInv', executor = "importer", NEW o \in Objects, NEW id \in Ids,
           PassArgument(o, id)
    PROVE  AnswersCounted'
<1>1. /\ ShapeInv /\ Register(o, id) /\ passed' = [passed EXCEPT ![id] = @ + 1]
      /\ UNCHANGED <<executor, inner, start, chain, rest, stack, called, pc, answer, begin>>
  BY DEF CountInv, PassArgument
<1>2. /\ counts' = [counts EXCEPT ![id] = counts[id] + 1]
      /\ counts[id] = 0 => id \notin issued
  BY <1>1, RegisterCounts DEF ShapeInv
<1>3. ASSUME NEW other \in Ids
      PROVE  counts'[other] = IF Owed(other)' > Cardinality(LostTo(other)')
                              THEN Owed(other)' - Cardinality(LostTo(other)') ELSE 0
  <2>1. /\ Counted(other)' = Counted(other) /\ Results(other)' = Results(other)
        /\ LostTo(other)' = LostTo(other)
    BY <1>1 DEF Counted, Answered, Bare, Results, HasResult, LostTo
  <2>2. /\ Owed(other) \in Nat /\ Owed(other)' \in Nat
        /\ Owed(other)' + passed[other] = Owed(other) + passed'[other]
    BY <1>1, <2>1, OwedSame
  <2>3. Cardinality(LostTo(other)) \in Nat
    BY FS_Subset, FS_CardinalityType, ExecutorAssumption DEF LostTo
  <2>4. counts[other] = IF Owed(other) > Cardinality(LostTo(other))
                        THEN Owed(other) - Cardinality(LostTo(other)) ELSE 0
    BY DEF CountInv, AnswersCounted
  <2>5. /\ passed[other] \in Nat /\ counts[other] \in Nat
        /\ passed'[other] = IF other = id THEN passed[other] + 1 ELSE passed[other]
        /\ counts'[other] = IF other = id THEN counts[other] + 1 ELSE counts[other]
    BY <1>1, <1>2 DEF ShapeInv, TypeOK, RegistryTypeOK
  <2>6. Owed(other)' = Owed(other) + IF other = id THEN 1 ELSE 0
    BY <2>2, <2>5
  <2>7. other = id => Owed(other) >= Cardinality(LostTo(other))
    <3>1. CASE counts[other] # 0
      BY <2>2, <2>3, <2>4, <3>1
    <3>2. CASE counts[other] = 0 /\ other = id
      <4>1. ~Mentioned(other)
        BY <1>2, <3>2 DEF CountInv, MentionedAreIssued
      <4>2. LostTo(other) = {}
        BY <4>1 DEF Mentioned, LostTo
      <4> QED BY <2>2, <4>2, FS_EmptySet
    <3> QED BY <3>1, <3>2
  <2> QED BY <2>1, <2>2, <2>3, <2>4, <2>5, <2>6, <2>7
<1> QED BY <1>1, <1>3 DEF AnswersCounted
\* On the exporter nothing is counted but answers.
LEMMA ExporterStays ==
    ASSUME CountInv, executor = "exporter", executor' = executor, counts' = counts,
           \A id \in Ids : Answered(id)' = Answered(id)
    PROVE  AnswersCounted'
BY DEF CountInv, AnswersCounted

LEMMA ExporterGivesBack ==
    ASSUME CountInv, executor = "exporter", executor' = executor, NEW g \in Handlers,
           GiveBack(g), answer' = answer
    PROVE  AnswersCounted'
<1>1. ShapeInv /\ RegistryInv
  BY DEF CountInv, ShapeInv
<1>2. PICK id \in Ids : answer[g] = Reference(id) /\ Delete(id)
  BY <1>1, GiveBackMoves DEF GiveBack
<1>3. counts' = [counts EXCEPT ![id] = IF counts[id] > 0 THEN counts[id] - 1 ELSE 0]
  BY <1>1, <1>2, DeleteCounts
<1>4. pc[g] = "answered" /\ pc' = [pc EXCEPT ![g] = "released"]
  BY <1>1, GiveBackMoves
<1>5. ASSUME NEW other \in Ids PROVE counts'[other] = Cardinality(Answered(other)')
  <2>1. counts[other] = Cardinality(Answered(other))
    BY DEF CountInv, AnswersCounted
  <2>2. CASE other # id
    <3>1. Answered(other)' = Answered(other)
      <4>1. answer[g] # Reference(other)
        BY <1>2, <2>2 DEF Reference
      <4>2. ASSUME NEW f \in Handlers
            PROVE  f \in Answered(other) <=> f \in Answered(other)'
        BY <1>1, <1>4, <4>1 DEF Answered, ShapeInv, TypeOK, NoAnswer, Reference
      <4> QED BY <4>2 DEF Answered
    <3>2. counts'[other] = counts[other]
      BY <1>1, <1>3, <2>2 DEF RegistryInv, RegistryTypeOK
    <3> QED BY <2>1, <3>1, <3>2
  <2>3. CASE other = id
    <3>1. g \in Answered(other)
      BY <1>2, <1>4, <2>3 DEF Answered
    <3>2. Answered(other)' = Answered(other) \ {g}
      <4>1. ASSUME NEW f \in Handlers
            PROVE  f \in Answered(other) \ {g} <=> f \in Answered(other)'
        BY <1>1, <1>4 DEF Answered, ShapeInv, TypeOK, NoAnswer, Reference
      <4> QED BY <4>1 DEF Answered
    <3>3. IsFiniteSet(Answered(other))
      BY FS_Subset, ExecutorAssumption DEF Answered
    <3>4. Cardinality(Answered(other)') = Cardinality(Answered(other)) - 1
      BY <3>1, <3>2, <3>3, FS_RemoveElement
    <3>5. Cardinality(Answered(other)) \in Nat /\ Cardinality(Answered(other)) # 0
      BY <3>1, <3>3, FS_CardinalityType, FS_EmptySet
    <3>6. counts'[other] = IF counts[other] > 0 THEN counts[other] - 1 ELSE 0
      BY <1>1, <1>3, <2>3 DEF RegistryInv, RegistryTypeOK
    <3> QED BY <2>1, <3>4, <3>5, <3>6
  <2> QED BY <2>2, <2>3
<1> QED BY <1>5 DEF AnswersCounted

LEMMA ExporterInstructionCounts ==
    ASSUME CountInv, ShapeInv', executor = "exporter", NEW h \in Handlers, Instruction(h)
    PROVE  AnswersCounted'
<1>1. /\ Moves(h) /\ executor' = executor /\ ShapeInv /\ pc[h] \in {"running", "awaiting"}
  BY InstructionMoves DEF CountInv
<1>2. answer[h] = NoAnswer
  BY <1>1 DEF ShapeInv, Shapes, Shape
<1>3. ASSUME UNCHANGED registryVars, Untouched(h), pc'[h] # "answered" \/ answer'[h] = Thrown
      PROVE  AnswersCounted'
  <2>1. ASSUME NEW id \in Ids, NEW f \in Handlers
        PROVE  f \in Answered(id) <=> f \in Answered(id)'
    BY <1>1, <1>3 DEF Answered, Untouched, Thrown, Reference
  <2>2. \A id \in Ids : Answered(id)' = Answered(id)
    BY <2>1 DEF Answered
  <2>3. counts' = counts
    BY <1>3 DEF registryVars
  <2> QED BY <1>1, <2>2, <2>3, ExporterStays
<1>4. UNCHANGED <<start, chain>>
  BY InstructionMoves DEF CountInv
<1>5. CASE ThrowMove(h)
  <2>1. UNCHANGED registryVars /\ Untouched(h) /\ answer'[h] = Thrown
    BY <1>1, <1>4, <1>5 DEF ThrowMove, Throw, Untouched, ShapeInv, TypeOK
  <2> QED BY <1>3, <2>1
<1>6. CASE AwaitMove(h)
  <2>1. UNCHANGED registryVars /\ Untouched(h) /\ pc'[h] = "awaiting"
    BY <1>1, <1>4, <1>6 DEF AwaitMove, Untouched, ShapeInv, TypeOK
  <2> QED BY <1>3, <2>1
<1>7. ASSUME NEW x \in StackValues, PlainMove(h, x) PROVE AnswersCounted'
  <2>1. UNCHANGED registryVars /\ Untouched(h) /\ pc'[h] = "running"
    BY <1>1, <1>4, <1>7 DEF PlainMove, PushMove, Untouched, ShapeInv, TypeOK
  <2> QED BY <1>3, <2>1
<1>8. ASSUME NEW v \in Objects, NEW id \in Ids, ResultMove(h, v, id) PROVE FALSE
  BY <1>8 DEF ResultMove
<1>9. ASSUME NEW g \in Handlers, ReleaseMove(h, g) PROVE AnswersCounted'
  <2>1. GiveBack(g) /\ answer' = answer
    BY <1>9 DEF ReleaseMove, PushMove
  <2> QED BY <1>1, <2>1, ExporterGivesBack
<1> QED BY <1>1, <1>5, <1>6, <1>7, <1>8, <1>9 DEF Moves

LEMMA ExporterAnswerCounts ==
    ASSUME CountInv, ShapeInv', executor = "exporter", NEW h \in Handlers, Answer(h)
    PROVE  AnswersCounted'
<1>1. PICK a : AnswerMove(h, a)
  BY AnswerMoves DEF CountInv
<1>2. /\ ShapeInv /\ executor' = executor /\ pc' = [pc EXCEPT ![h] = "answered"]
      /\ answer' = [answer EXCEPT ![h] = a] /\ pc[h] = "running"
  BY <1>1 DEF Answer, CountInv, AnswerMove
<1>3. ASSUME NEW id \in Ids
      PROVE  /\ h \notin Answered(id)
             /\ Answered(id)' = Answered(id) \cup (IF a = Reference(id) THEN {h} ELSE {})
  <2>1. h \notin Answered(id)
    BY <1>2 DEF Answered
  <2>2. ASSUME NEW f \in Handlers
        PROVE  f \in Answered(id)' <=> f \in Answered(id) \/ (f = h /\ a = Reference(id))
    BY <1>2, <2>1 DEF Answered, ShapeInv, TypeOK
  <2> QED BY <2>1, <2>2 DEF Answered
<1>4. CASE UNCHANGED registryVars /\ \A id \in Ids : a # Reference(id)
  <2>1. \A id \in Ids : Answered(id)' = Answered(id)
    BY <1>3, <1>4
  <2>2. counts' = counts
    BY <1>4 DEF registryVars
  <2> QED BY <1>2, <2>1, <2>2, ExporterStays
<1>5. ASSUME NEW v \in Objects, NEW id \in Ids, a = Reference(id), Register(v, id)
      PROVE  AnswersCounted'
  <2>1. counts' = [counts EXCEPT ![id] = counts[id] + 1]
    BY <1>2, <1>5, RegisterCounts DEF ShapeInv
  <2>2. ASSUME NEW other \in Ids PROVE counts'[other] = Cardinality(Answered(other)')
    <3>1. counts[other] = Cardinality(Answered(other))
      BY DEF CountInv, AnswersCounted
    <3>2. CASE other # id
      <4>1. Answered(other)' = Answered(other)
        BY <1>3, <1>5, <3>2 DEF Reference
      <4>2. counts'[other] = counts[other]
        BY <1>2, <2>1, <3>2 DEF ShapeInv, TypeOK, RegistryTypeOK
      <4> QED BY <3>1, <4>1, <4>2
    <3>3. CASE other = id
      <4>1. Answered(other)' = Answered(other) \cup {h} /\ h \notin Answered(other)
        BY <1>3, <1>5, <3>3
      <4>2. IsFiniteSet(Answered(other))
        BY FS_Subset, ExecutorAssumption DEF Answered
      <4>3. Cardinality(Answered(other)') = Cardinality(Answered(other)) + 1
        BY <4>1, <4>2, FS_AddElement
      <4>4. counts'[other] = counts[other] + 1
        BY <1>2, <2>1, <3>3 DEF ShapeInv, TypeOK, RegistryTypeOK
      <4> QED BY <3>1, <4>3, <4>4
    <3> QED BY <3>2, <3>3
  <2> QED BY <1>2, <2>2 DEF AnswersCounted
<1> QED BY <1>1, <1>4, <1>5 DEF AnswerMove

-------------------------------------------------------------------------------
(* The steps of both executors *)

LEMMA PassCounts ==
    ASSUME CountInv, ShapeInv', NEW o \in Objects, NEW id \in Ids, PassArgument(o, id)
    PROVE  AnswersCounted'
<1>1. CASE executor = "importer"
  BY <1>1, ImporterPassCounts
<1>2. CASE executor = "exporter"
  <2>1. UNCHANGED <<executor, pc, answer, counts>>
    BY <1>2 DEF PassArgument
  <2>2. \A other \in Ids : Answered(other)' = Answered(other)
    BY <2>1 DEF Answered
  <2> QED BY <1>2, <2>1, <2>2, ExporterStays
<1> QED BY <1>1, <1>2 DEF PassArgument

LEMMA ReceiveCounts ==
    ASSUME CountInv, ShapeInv', NEW h \in Handlers, NEW id \in Ids \cup {None},
           NEW ops \in Chains, Receive(h, id, ops)
    PROVE  AnswersCounted'
<1>1. /\ ShapeInv /\ pc[h] = "idle" /\ pc' = [pc EXCEPT ![h] = "running"]
      /\ UNCHANGED <<executor, passed, inner, stack, answer>> /\ counts' = counts
      /\ chain' = [chain EXCEPT ![h] = ops] /\ UNCHANGED registryVars
      /\ \A g \in Handlers \ {h} : rest'[g] = rest[g] /\ chain'[g] = chain[g]
  BY DEF Receive, CountInv, registryVars, ShapeInv, TypeOK
<1>2. executor \in {"exporter", "importer"} /\ stack[h] = <<>>
  BY <1>1, ExecutorAssumption DEF ShapeInv, TypeOK, Shapes, Shape
<1>3. ASSUME NEW other \in Ids
      PROVE  /\ Answered(other)' = Answered(other) /\ LostTo(other)' = LostTo(other)
             /\ Counted(other)' = Counted(other) /\ Results(other)' = Results(other)
  <2>1. Answered(other)' = Answered(other)
    BY <1>1 DEF Answered, ShapeInv, TypeOK
  <2>2. LostTo(other)' = LostTo(other) /\ Counted(other)' = Counted(other)
    <3>1. ASSUME NEW g \in Handlers \ {h}
          PROVE  (g \in LostTo(other)' <=> g \in LostTo(other))
                 /\ (g \in Counted(other)' <=> g \in Counted(other))
      BY <1>1, <2>1 DEF LostTo, Counted, Bare, ShapeInv, TypeOK
    <3>2. /\ h \notin LostTo(other)' /\ h \notin LostTo(other)
          /\ h \notin Counted(other)' /\ h \notin Counted(other)
      BY <1>1 DEF LostTo, Counted, Answered, ShapeInv, TypeOK
    <3> QED BY <3>1, <3>2 DEF LostTo, Counted, Answered
  <2>3. Results(other)' = Results(other)
    <3>1. ASSUME NEW g \in Handlers \ {h}
          PROVE  HasResult(g, other)' <=> HasResult(g, other)
      BY <1>1 DEF HasResult
    <3>2. ~HasResult(h, other) /\ ~HasResult(h, other)'
      BY <1>1, <1>2, EmptyIsNot DEF HasResult
    <3> QED BY <3>1, <3>2 DEF Results
  <2> QED BY <2>1, <2>2, <2>3
<1>4. ASSUME NEW other \in Ids PROVE Owed(other)' = Owed(other)
  <2>1. /\ Owed(other) \in Nat /\ Owed(other)' \in Nat
        /\ Owed(other)' + passed[other] = Owed(other) + passed'[other]
    BY <1>1, <1>3, OwedSame
  <2>2. passed[other] \in Nat /\ passed'[other] = passed[other]
    BY <1>1 DEF ShapeInv, TypeOK
  <2> QED BY <2>1, <2>2
<1>5. ASSUME NEW other \in Ids
      PROVE  counts[other] = IF executor = "exporter"
                     THEN Cardinality(Answered(other))
                     ELSE IF Owed(other) > Cardinality(LostTo(other))
                          THEN Owed(other) - Cardinality(LostTo(other)) ELSE 0
  BY DEF CountInv, AnswersCounted
<1> QED BY <1>1, <1>3, <1>4, <1>5 DEF AnswersCounted

LEMMA NextCounts == ASSUME CountInv, Next, ShapeInv' PROVE AnswersCounted'
<1>1. executor \in {"exporter", "importer"} /\ ShapeInv
  BY ExecutorAssumption DEF CountInv, ShapeInv, TypeOK
<1>2. ASSUME NEW h \in Handlers, ReleaseAnswer(h), executor = "exporter"
      PROVE  AnswersCounted'
  BY <1>2, ExporterGivesBack DEF ReleaseAnswer
<1> QED BY <1>1, <1>2, NextSteps, PassCounts, ReceiveCounts, ImporterInstructionCounts,
           ExporterInstructionCounts, ImporterAnswerCounts, ExporterAnswerCounts,
           ImporterReleaseCounts
\* An instruction names no identifier that is not issued.
LEMMA InstructionMentions ==
    ASSUME CountInv, NEW h \in Handlers, Instruction(h)
    PROVE  MentionedAreIssued'
<1>1. /\ Moves(h) /\ Took(h) /\ ShapeInv /\ RegistryInv /\ MentionedAreIssued
      /\ UNCHANGED <<executor, passed, start, chain, begin>>
  BY InstructionMoves DEF CountInv, ShapeInv
<1>2. ASSUME NEW id \in Ids, inner'[id] > 0 PROVE id \in issued
  <2>1. inner[id] \in Nat /\ inner'[id] = inner[id] + IF HasResult(h, id) THEN 1 ELSE 0
    BY <1>1 DEF Took, ShapeInv, TypeOK
  <2>2. inner[id] > 0 \/ HasResult(h, id)
    BY <1>2, <2>1
  <2>3. Mentioned(id)
    BY <2>2 DEF HasResult, Mentioned
  <2> QED BY <1>1, <2>3 DEF MentionedAreIssued
<1>3. ASSUME issued \subseteq issued',
             \A g \in Handlers, id \in Ids : answer'[g] = Reference(id) => answer[g] = Reference(id),
             \A g \in Handlers, id \in Ids :
                executor = "importer" /\ stack'[g] = <<Reference(id)>> =>
                   stack[g] = <<Reference(id)>> \/ start[g] = id \/ id \in issued'
      PROVE  MentionedAreIssued'
  <2> SUFFICES ASSUME NEW id \in Ids, Mentioned(id)' PROVE id \in issued'
    BY DEF MentionedAreIssued
  <2>1. inner'[id] > 0 \/ Mentioned(id) \/ id \in issued'
    BY <1>1, <1>3 DEF Mentioned
  <2> QED BY <1>1, <1>2, <1>3, <2>1 DEF MentionedAreIssued
<1>4. CASE ThrowMove(h)
  <2>1. issued' = issued
    BY <1>4 DEF ThrowMove, registryVars
  <2>2. \A g \in Handlers : /\ answer'[g] = answer[g] \/ answer'[g] = Thrown
                            /\ stack'[g] = stack[g] \/ stack'[g] = <<>>
    BY <1>1, <1>4 DEF ThrowMove, Throw, ShapeInv, TypeOK
  <2> QED BY <1>3, <2>1, <2>2 DEF Thrown, Reference
<1>5. CASE AwaitMove(h)
  <2>1. issued' = issued /\ answer' = answer
    BY <1>5 DEF AwaitMove, registryVars
  <2>2. \A g \in Handlers : stack'[g] = stack[g] \/ stack'[g] = <<>>
    BY <1>1, <1>5 DEF AwaitMove, ShapeInv, TypeOK
  <2> QED BY <1>3, <2>1, <2>2
<1>6. ASSUME NEW x \in StackValues, PlainMove(h, x) PROVE MentionedAreIssued'
  <2>1. issued' = issued /\ answer' = answer
    BY <1>6 DEF PlainMove, PushMove, registryVars
  <2>2. /\ \A g \in Handlers : stack'[g] = stack[g] \/ (g = h /\ stack'[g] = <<x>>)
        /\ \A id \in Ids : executor = "importer" /\ x = Reference(id) => start[h] = id
    BY <1>1, <1>6 DEF PlainMove, PushMove, ShapeInv, TypeOK
  <2> QED BY <1>3, <2>1, <2>2
<1>7. ASSUME NEW v \in Objects, NEW id \in Ids, ResultMove(h, v, id) PROVE MentionedAreIssued'
  <2>1. issued' = issued \cup {id} /\ answer' = answer
    BY <1>1, <1>7, RegisterCounts DEF ResultMove, PushMove
  <2>2. \A g \in Handlers : stack'[g] = stack[g] \/ stack'[g] = <<Reference(id)>>
    BY <1>1, <1>7 DEF ResultMove, PushMove, ShapeInv, TypeOK
  <2> QED BY <1>3, <2>1, <2>2 DEF Reference
<1>8. ASSUME NEW g \in Handlers, ReleaseMove(h, g) PROVE MentionedAreIssued'
  <2>1. answer' = answer /\ executor # "importer" /\ GiveBack(g)
    BY <1>8 DEF ReleaseMove, PushMove
  <2>2. issued' = issued
    <3>1. answer[g].id \in Ids /\ Delete(answer[g].id)
      BY <1>1, <2>1, GiveBackMoves DEF GiveBack
    <3> QED BY <1>1, <3>1, DeleteCounts
  <2> QED BY <1>3, <2>1, <2>2
<1> QED BY <1>1, <1>4, <1>5, <1>6, <1>7, <1>8 DEF Moves

LEMMA AnswerMentions ==
    ASSUME CountInv, NEW h \in Handlers, Answer(h)
    PROVE  MentionedAreIssued'
<1>1. PICK a : AnswerMove(h, a)
  BY AnswerMoves DEF CountInv
<1>2. /\ ShapeInv /\ RegistryInv /\ MentionedAreIssued
      /\ UNCHANGED <<executor, passed, inner, start>>
      /\ stack' = [stack EXCEPT ![h] = <<>>] /\ answer' = [answer EXCEPT ![h] = a]
  BY <1>1 DEF Answer, AnswerMove, CountInv, ShapeInv
<1>3. /\ issued \subseteq issued'
      /\ \A id \in Ids : a = Reference(id) =>
            (executor = "importer" /\ stack[h] = <<Reference(id)>>) \/ id \in issued'
  <2>1. CASE /\ UNCHANGED registryVars
             /\ \A id \in Ids : a = Reference(id) <=>
                executor = "importer" /\ stack[h] = <<Reference(id)>>
    BY <2>1 DEF registryVars
  <2>2. ASSUME NEW v \in Objects, NEW id \in Ids, a = Reference(id), Register(v, id)
        PROVE  /\ issued \subseteq issued'
               /\ \A other \in Ids : a = Reference(other) => other \in issued'
    <3>1. issued' = issued \cup {id}
      BY <1>2, <2>2, RegisterCounts
    <3> QED BY <2>2, <3>1 DEF Reference
  <2> QED BY <1>1, <2>1, <2>2 DEF AnswerMove
<1> SUFFICES ASSUME NEW id \in Ids, Mentioned(id)' PROVE id \in issued'
  BY DEF MentionedAreIssued
<1>4. /\ \A g \in Handlers : stack'[g] = stack[g] \/ stack'[g] = <<>>
      /\ \A g \in Handlers : answer'[g] = answer[g] \/ (g = h /\ answer'[g] = a)
  BY <1>2 DEF ShapeInv, TypeOK
<1>5. Mentioned(id) \/ id \in issued'
  BY <1>2, <1>3, <1>4 DEF Mentioned
<1> QED BY <1>2, <1>3, <1>5 DEF MentionedAreIssued

LEMMA PassMentions ==
    ASSUME CountInv, NEW o \in Objects, NEW id \in Ids, PassArgument(o, id)
    PROVE  MentionedAreIssued'
<1>1. /\ ShapeInv /\ RegistryInv /\ MentionedAreIssued
      /\ UNCHANGED <<executor, inner, start, stack, answer>>
      /\ passed' = [passed EXCEPT ![id] = @ + 1]
  BY DEF PassArgument, CountInv, ShapeInv
<1>2. issued' = issued \cup {id}
  BY <1>1, RegisterCounts DEF PassArgument
<1> SUFFICES ASSUME NEW other \in Ids, Mentioned(other)' PROVE other \in issued'
  BY DEF MentionedAreIssued
<1>3. other = id \/ passed'[other] = passed[other]
  BY <1>1 DEF ShapeInv, TypeOK
<1>4. other = id \/ Mentioned(other)
  BY <1>1, <1>3 DEF Mentioned
<1> QED BY <1>1, <1>2, <1>4 DEF MentionedAreIssued

LEMMA ReceiveMentions ==
    ASSUME CountInv, NEW h \in Handlers, NEW id \in Ids \cup {None},
           NEW ops \in Chains, Receive(h, id, ops), id = None \/ id \in Known
    PROVE  MentionedAreIssued'
<1>1. /\ ShapeInv /\ MentionedAreIssued
      /\ UNCHANGED <<executor, passed, inner, stack, answer>> /\ issued' = issued
      /\ start' = [start EXCEPT ![h] = id]
  BY DEF Receive, CountInv, ShapeInv, registryVars
<1> SUFFICES ASSUME NEW other \in Ids, Mentioned(other)' PROVE other \in issued
  BY <1>1 DEF MentionedAreIssued
<1>2. \A g \in Handlers : start'[g] = start[g] \/ start'[g] = id
  BY <1>1 DEF ShapeInv, TypeOK
<1>3. Mentioned(other) \/ other = id
  BY <1>1, <1>2 DEF Mentioned
<1>4. other = id => Mentioned(other)
  BY RegistryAssumption DEF Known, Mentioned
<1> QED BY <1>1, <1>3, <1>4 DEF MentionedAreIssued

LEMMA ReleaseMentions ==
    ASSUME CountInv, NEW h \in Handlers, ReleaseAnswer(h)
    PROVE  MentionedAreIssued'
<1>1. /\ ShapeInv /\ RegistryInv /\ MentionedAreIssued /\ GiveBack(h)
      /\ UNCHANGED <<executor, passed, inner, start, stack, answer>>
  BY DEF ReleaseAnswer, CountInv, ShapeInv
<1>2. issued' = issued
  <2>1. answer[h].id \in Ids /\ Delete(answer[h].id)
    BY <1>1, GiveBackMoves DEF GiveBack
  <2> QED BY <1>1, <2>1, DeleteCounts
<1> QED BY <1>1, <1>2 DEF MentionedAreIssued, Mentioned

LEMMA InitCountInv == Init => CountInv
<1> SUFFICES ASSUME Init PROVE CountInv
  OBVIOUS
<1>1. ShapeInv
  BY InitShapeInv
<1>2. MentionedAreIssued
  BY RegistryAssumption DEF Init, MentionedAreIssued, Mentioned, NoAnswer, Reference
<1>3. ASSUME NEW id \in Ids
      PROVE  /\ Answered(id) = {} /\ Counted(id) = {} /\ LostTo(id) = {}
             /\ {h \in Handlers : HasResult(h, id)} = {}
  BY EmptyIsNot DEF Init, Answered, Counted, LostTo, HasResult
<1>4. AnswersCounted
  <2>1. ASSUME NEW id \in Ids
        PROVE  /\ counts[id] = 0 /\ Cardinality(Answered(id)) = 0
               /\ Owed(id) = 0 /\ Cardinality(LostTo(id)) = 0
    <3>1. Cardinality({}) = 0
      BY FS_EmptySet
    <3>2. counts[id] = 0 /\ passed[id] = 0 /\ inner[id] = 0
      BY DEF Init, RegistryInit
    <3>3. Owed(id) = 0
      BY <1>3, <3>1, <3>2 DEF Owed
    <3> QED BY <1>3, <3>1, <3>2, <3>3
  <2> QED BY <2>1 DEF AnswersCounted
<1> QED BY <1>1, <1>2, <1>4 DEF CountInv

LEMMA NextCountInv == CountInv /\ [Next]_vars => CountInv'
<1> SUFFICES ASSUME CountInv, [Next]_vars PROVE CountInv'
  OBVIOUS
<1>1. ShapeInv'
  BY NextShapeInv DEF CountInv
<1>2. CASE UNCHANGED vars
  <2>1. /\ UNCHANGED <<counts, issued, executor, passed, inner, start, chain, rest>>
        /\ UNCHANGED <<stack, pc, answer>>
    BY <1>2 DEF vars, registryVars, execVars
  <2>2. MentionedAreIssued'
    BY <2>1 DEF CountInv, MentionedAreIssued, Mentioned
  <2>3. AnswersCounted'
    <3>1. ASSUME NEW id \in Ids
          PROVE  /\ Answered(id)' = Answered(id) /\ LostTo(id)' = LostTo(id)
                 /\ Owed(id)' = Owed(id)
      BY <2>1 DEF Answered, LostTo, Bare, Owed, Counted, HasResult
    <3> QED BY <2>1, <3>1 DEF CountInv, AnswersCounted
  <2> QED BY <1>1, <2>2, <2>3 DEF CountInv
<1>3. CASE Next
  <2>1. AnswersCounted'
    BY <1>1, <1>3, NextCounts
  <2>2. MentionedAreIssued'
    BY <1>3, NextSteps, PassMentions, ReceiveMentions, InstructionMentions,
       AnswerMentions, ReleaseMentions
  <2> QED BY <1>1, <2>1, <2>2 DEF CountInv
<1> QED BY <1>2, <1>3

LEMMA AlwaysCounted == Spec => []CountInv
BY InitCountInv, NextCountInv, PTL DEF Spec

\* The exporter counts exactly the references it has answered with and that were
\* not given back; the importer counts besides the arguments it passed and the
\* results inside chains, and loses one to every awaited callback that is
\* collected: for every number of handlers, chains and retains, though handlers
\* await in the middle of their chains (exported.py:103-111, imported.py:219-237).
THEOREM EveryReferenceCounted == Spec => []AnswersCounted
<1>1. CountInv => AnswersCounted
  BY DEF CountInv
<1> QED BY <1>1, AlwaysCounted, PTL

\* A callback stays callable for as long as it was passed more often than it was
\* awaited and collected: no release of an answer, nor of anything else, takes it
\* out of the registry (imported.py, __call__ and _execute_incoming).
THEOREM PassedCallbacksStay == Spec => []CallbacksStay
<1>1. CountInv => CallbacksStay
  <2> SUFFICES ASSUME CountInv, executor = "importer", NEW id \in Ids,
                      passed[id] > Cardinality(LostTo(id))
               PROVE  map[id] # None
    BY DEF CallbacksStay
  <2>1. /\ passed[id] \in Nat /\ inner[id] \in Nat /\ counts[id] \in Nat
        /\ map[id] # None <=> counts[id] > 0
    BY DEF CountInv, ShapeInv, TypeOK, RegistryInv, RegistryTypeOK, CountedIffMapped
  <2>2. IsFiniteSet(Counted(id)) /\ IsFiniteSet(Results(id)) /\ IsFiniteSet(LostTo(id))
    BY FS_Subset, ExecutorAssumption DEF Counted, Answered, Results, LostTo
  <2>3. /\ Cardinality(Counted(id)) \in Nat /\ Cardinality(Results(id)) \in Nat
        /\ Cardinality(LostTo(id)) \in Nat
    BY <2>2, FS_CardinalityType
  <2>4. Owed(id) = passed[id] + inner[id] + Cardinality(Counted(id)) + Cardinality(Results(id))
    BY DEF Owed, Results
  <2>5. counts[id] = IF Owed(id) > Cardinality(LostTo(id))
                     THEN Owed(id) - Cardinality(LostTo(id)) ELSE 0
    BY DEF CountInv, AnswersCounted
  <2> QED BY <2>1, <2>3, <2>4, <2>5
<1> QED BY <1>1, AlwaysCounted, PTL
-------------------------------------------------------------------------------
(* What a chain means *)

LEMMA LeastElement ==
    ASSUME NEW T \in SUBSET Nat, T # {}
    PROVE  \E n \in T : \A m \in T : n <= m
<1> DEFINE R == OpToRel(<, Nat)
<1>1. IsWellFoundedOn(R, Nat)
  BY NatLessThanWellFounded
<1>2. \A n, m \in Nat : m < n => <<m, n>> \in R
  BY DEF OpToRel
<1> HIDE DEF R
<1>3. PICK n \in T : \A m \in T : ~ (<<m, n>> \in R)
  BY <1>1, WFMin
<1>4. ASSUME NEW m \in T PROVE n <= m
  <2>1. m \in Nat /\ n \in Nat
    OBVIOUS
  <2>2. ~ (m < n)
    BY <1>2, <1>3, <2>1
  <2> QED BY <2>1, <2>2
<1> QED BY <1>4

\* The first k values of a course.
Begins(g, k, v, ops) ==
    g = [i \in 0..k |-> IF i = 0 THEN v ELSE Local(g[i - 1], ops[i])]

\* One value after the other there is a course of any length.
LEMMA CourseExists ==
    ASSUME NEW v, NEW ops, NEW n \in Nat
    PROVE  \E g : Begins(g, n, v, ops)
<1> DEFINE T == {k \in Nat : ~ \E g : Begins(g, k, v, ops)}
<1> SUFFICES ASSUME T # {} PROVE FALSE
  OBVIOUS
<1>1. PICK k \in T : \A m \in T : k <= m
  BY LeastElement
<1>2. k \in Nat /\ ~ \E g : Begins(g, k, v, ops)
  OBVIOUS
<1>3. CASE k = 0
  <2> DEFINE f == [i \in 0..k |-> v]
  <2>1. Begins(f, k, v, ops)
    BY <1>3 DEF Begins
  <2> QED BY <1>2, <2>1
<1>4. CASE k # 0
  <2>1. k - 1 \in Nat /\ ~ (k <= k - 1)
    BY <1>2, <1>4
  <2>2. k - 1 \notin T
    BY <1>1, <2>1
  <2>3. PICK g : Begins(g, k - 1, v, ops)
    BY <2>1, <2>2
  <2> DEFINE f == [i \in 0..k |-> IF i = k THEN Local(g[k - 1], ops[k]) ELSE g[i]]
  <2>4. ASSUME NEW i \in 0..k
        PROVE  f[i] = IF i = 0 THEN v ELSE Local(f[i - 1], ops[i])
    <3>1. CASE i = k
      <4>1. k - 1 \in 0..k /\ k - 1 # k /\ i # 0
        BY <1>2, <1>4, <3>1
      <4> QED BY <3>1, <4>1
    <3>2. CASE i # k
      <4>1. i \in 0..(k - 1)
        BY <1>2, <3>2
      <4>2. g[i] = IF i = 0 THEN v ELSE Local(g[i - 1], ops[i])
        BY <2>3, <4>1 DEF Begins
      <4>3. i # 0 => i - 1 \in 0..k /\ i - 1 # k
        BY <1>2, <4>1
      <4> QED BY <3>2, <4>2, <4>3
    <3> QED BY <3>1, <3>2
  <2>5. f = [i \in 0..k |-> f[i]]
    OBVIOUS
  <2> HIDE DEF f
  <2>6. Begins(f, k, v, ops)
    BY <2>4, <2>5 DEF Begins
  <2> QED BY <1>2, <2>6
<1> QED BY <1>3, <1>4

\* A course begins with v, and goes on from each value to the next.
LEMMA CourseFacts ==
    ASSUME NEW v, NEW ops, Len(ops) \in Nat
    PROVE  /\ Course(v, ops)[0] = v
           /\ \A i \in 1..Len(ops) :
                 Course(v, ops)[i] = Local(Course(v, ops)[i - 1], ops[i])
<1> DEFINE Q(g) == g = [i \in 0..Len(ops) |-> IF i = 0 THEN v ELSE Local(g[i - 1], ops[i])]
<1>0. \E g : Begins(g, Len(ops), v, ops)
  BY CourseExists
<1>1. PICK g : Q(g)
  BY <1>0 DEF Begins
<1>2. Course(v, ops) = CHOOSE f : Q(f)
  BY DEF Course
<1>3. Q(Course(v, ops))
  <2> HIDE DEF Q
  <2> QED BY <1>1, <1>2
<1> DEFINE c == Course(v, ops)
<1>4. c = [i \in 0..Len(ops) |-> IF i = 0 THEN v ELSE Local(c[i - 1], ops[i])]
  BY <1>3
<1> HIDE DEF c, Q
<1>5. \A i \in 0..Len(ops) : c[i] = IF i = 0 THEN v ELSE Local(c[i - 1], ops[i])
  BY <1>4
<1>6. 0 \in 0..Len(ops) /\ \A i \in 1..Len(ops) : i \in 0..Len(ops) /\ i # 0
  OBVIOUS
<1> QED BY <1>5, <1>6 DEF c

\* After an exception there is nothing but this exception.
LEMMA RaisesForGood ==
    ASSUME NEW v, NEW ops, Len(ops) \in Nat, NEW i \in 0..Len(ops),
           Course(v, ops)[i] = Raises
    PROVE  Course(v, ops)[Len(ops)] = Raises
<1> DEFINE T == {j \in i..Len(ops) : Course(v, ops)[j] # Raises}
<1> SUFFICES ASSUME T # {} PROVE FALSE
  OBVIOUS
<1>1. T \in SUBSET Nat
  OBVIOUS
<1>2. PICK j \in T : \A k \in T : j <= k
  BY <1>1, LeastElement
<1>3. j \in i..Len(ops) /\ Course(v, ops)[j] # Raises /\ j # i
  OBVIOUS
<1>4. j - 1 \in i..Len(ops) /\ ~ (j <= j - 1) /\ j \in 1..Len(ops)
  BY <1>3
<1>5. j - 1 \notin T
  BY <1>2, <1>4
<1>6. Course(v, ops)[j - 1] = Raises
  BY <1>4, <1>5
<1>7. Course(v, ops)[j] = Local(Course(v, ops)[j - 1], ops[j])
  BY <1>4, CourseFacts
<1> QED BY <1>3, <1>6, <1>7 DEF Local
\* Calling equal objects, of which the registry keeps only one, yields the same.
\* The importer looks every callback up in the registry, so it may call the other.
EqualObjectsAlike ==
    \A a, b \in WeakRefable : KeyOf[a] = KeyOf[b] => Applied[a] = Applied[b]

\* What the chain of h means up to where h is.
SoFar(h) == Course(begin[h], chain[h])[Len(chain[h]) - Len(rest[h])]

Wanted(h) == IF begin[h] = None THEN Raises ELSE Meaning(h)

AnswerRight(h) ==
    pc[h] = "answered" /\ Supported(h) =>
       /\ Wanted(h) \in {Raises, Coroutine} => answer[h] = Thrown
       /\ Wanted(h) \in Objects =>
             /\ answer[h].kind = "reference"
             /\ LostTo(answer[h].id) = {} => LeadsTo(answer[h].id, Wanted(h))
       /\ Wanted(h) \notin Objects \cup {Raises, Coroutine} =>
             answer[h] = Value(Wanted(h))

ExporterCarries(h) ==
    begin[h] # None /\ Target(h) = SoFar(h) /\ SoFar(h) # Raises

ImporterCarries(h) ==
    \/ /\ begin[h] = None /\ rest[h] # <<>>
       /\ \E id \in Ids : stack[h] = <<Reference(id)>> /\ map[id] = None
    \/ /\ begin[h] # None /\ SoFar(h) \in Objects
       /\ \E id \in Ids : stack[h] = <<Reference(id)>> /\ LeadsTo(id, SoFar(h))
    \/ /\ begin[h] # None /\ SoFar(h) \in Plain \cup {None}
       /\ stack[h] = <<Value(SoFar(h))>>

\* What a handler carries is what its chain means so far.
Carries(h) ==
    /\ pc[h] = "running" /\ Starting(h) => begin[h] = Get(start[h])
    /\ pc[h] = "running" /\ ~Starting(h) /\ Supported(h) =>
          IF executor = "exporter" THEN ExporterCarries(h) ELSE ImporterCarries(h)
    /\ pc[h] = "awaiting" /\ Supported(h) =>
          begin[h] # None /\ Outcome(called[h]) = Local(SoFar(h), "apply")
    /\ AnswerRight(h)

MeanInv == CountInv /\ \A h \in Handlers : Carries(h)

\* An entry of the registry never changes into another.
EntriesPersist == \A id \in Ids : map[id] # None /\ map'[id] # None => map'[id] = map[id]

LEMMA RegisterPersists ==
    ASSUME RegistryInv, NEW o \in Objects, NEW id \in Ids, Register(o, id)
    PROVE  EntriesPersist
BY RegistryAssumption DEF RegistryInv, RegistryTypeOK, CountedIffMapped, Register, Retain,
   Enter, EntriesPersist

LEMMA DeletePersists ==
    ASSUME RegistryInv, NEW id \in Ids, Delete(id)
    PROVE  EntriesPersist
BY RegistryAssumption DEF RegistryInv, RegistryTypeOK, Delete, ReleaseOne, Remove,
   EntriesPersist

\* The object an answer leads to stays for as long as nobody loses references:
\* the answer itself is counted.
LEMMA AnswersPersist ==
    ASSUME MeanInv, CountInv', executor' = executor, EntriesPersist,
           NEW g \in Handlers, AnswerRight(g), pc[g] = "answered", pc'[g] = "answered",
           start'[g] = start[g], chain'[g] = chain[g], begin'[g] = begin[g],
           answer'[g] = answer[g],
           \A id \in Ids : LostTo(id)' = {} => LostTo(id) = {}
    PROVE  AnswerRight(g)'
<1>1. /\ Wanted(g)' = Wanted(g) /\ (Supported(g)' <=> Supported(g))
  BY DEF Wanted, Meaning, Supported
<1>2. ASSUME Supported(g), Wanted(g) \in Objects, answer[g].kind = "reference",
             LostTo(answer[g].id) = {} => LeadsTo(answer[g].id, Wanted(g)),
             LostTo(answer[g].id)' = {}
      PROVE  LeadsTo(answer[g].id, Wanted(g))'
  <2>1. PICK id \in Ids : answer[g] = Reference(id) /\ answer[g].id = id
    BY <1>2 DEF MeanInv, CountInv, ShapeInv, TypeOK, Encoded, Reference, Value, Thrown,
       Undecodable, NoAnswer
  <2>2. LostTo(id)' = {} /\ LeadsTo(id, Wanted(g))
    BY <1>2, <2>1
  <2>3. map[id] # None
    BY <1>2, <2>2, RegistryAssumption DEF LeadsTo
  <2>4. g \in Answered(id)' /\ ~Bare(g)'
    BY <1>2, <2>1 DEF Answered, Bare, Supported
  <2>5. map'[id] # None
    <3>1. /\ map'[id] # None <=> counts'[id] > 0
          /\ passed'[id] \in Nat /\ inner'[id] \in Nat
      BY DEF CountInv, ShapeInv, RegistryInv, CountedIffMapped, TypeOK
    <3>2. counts'[id] = IF executor = "exporter"
                     THEN Cardinality(Answered(id)')
                     ELSE IF Owed(id)' > Cardinality(LostTo(id)')
                          THEN Owed(id)' - Cardinality(LostTo(id)') ELSE 0
      BY DEF CountInv, AnswersCounted
    <3>3. /\ IsFiniteSet(Answered(id)') /\ IsFiniteSet(Counted(id)')
          /\ IsFiniteSet(Results(id)')
      BY FS_Subset, ExecutorAssumption DEF Answered, Counted, Results
    <3>4. g \in Counted(id)'
      BY <2>4 DEF Counted
    <3>5. /\ Cardinality(Answered(id)') \in Nat /\ Cardinality(Answered(id)') # 0
          /\ Cardinality(Counted(id)') \in Nat /\ Cardinality(Counted(id)') # 0
          /\ Cardinality(Results(id)') \in Nat
      BY <2>4, <3>3, <3>4, FS_CardinalityType, FS_EmptySet
    <3>6. Cardinality(LostTo(id)') = 0
      BY <2>2, FS_EmptySet
    <3>7. Owed(id)' = passed'[id] + inner'[id] + Cardinality(Counted(id)')
                         + Cardinality(Results(id)')
      BY DEF Owed, Results
    <3> QED BY <3>1, <3>2, <3>5, <3>6, <3>7
  <2>6. map'[id] = map[id]
    BY <2>3, <2>5 DEF EntriesPersist
  <2> QED BY <1>1, <2>1, <2>2, <2>6 DEF LeadsTo
<1>3. CASE Supported(g)
  <2>1. /\ Wanted(g) \in {Raises, Coroutine} => answer[g] = Thrown
        /\ Wanted(g) \in Objects =>
             /\ answer[g].kind = "reference"
             /\ LostTo(answer[g].id) = {} => LeadsTo(answer[g].id, Wanted(g))
        /\ Wanted(g) \notin Objects \cup {Raises, Coroutine} =>
             answer[g] = Value(Wanted(g))
    BY <1>3 DEF AnswerRight
  <2>2. (Wanted(g) \in Objects =>
             /\ answer[g].kind = "reference"
             /\ LostTo(answer[g].id) = {} => LeadsTo(answer[g].id, Wanted(g)))'
    BY <1>1, <1>2, <1>3, <2>1
  <2> QED BY <1>1, <2>1, <2>2 DEF AnswerRight
<1> QED BY <1>1, <1>3 DEF AnswerRight

\* The handlers that do not move carry on.
LEMMA OthersCarry ==
    ASSUME MeanInv, CountInv', executor' = executor, EntriesPersist,
           NEW g \in Handlers, pc[g] # "running",
           start'[g] = start[g], chain'[g] = chain[g], begin'[g] = begin[g],
           rest'[g] = rest[g], called'[g] = called[g], answer'[g] = answer[g],
           pc'[g] = pc[g] \/ pc'[g] = "released",
           \A id \in Ids : LostTo(id)' = {} => LostTo(id) = {}
    PROVE  Carries(g)'
<1>1. Carries(g)
  BY DEF MeanInv
<1>2. SoFar(g)' = SoFar(g) /\ (Supported(g)' <=> Supported(g))
  BY DEF SoFar, Supported
<1>3. AnswerRight(g)'
  <2>1. CASE pc'[g] = "answered"
    BY <1>1, <2>1, AnswersPersist DEF Carries
  <2>2. CASE pc'[g] # "answered"
    BY <2>2 DEF AnswerRight
  <2> QED BY <2>1, <2>2
<1>4. pc'[g] = "awaiting" /\ Supported(g)' =>
          begin'[g] # None /\ Outcome(called'[g]) = Local(SoFar(g)', "apply")
  BY <1>1, <1>2 DEF Carries
<1> QED BY <1>3, <1>4 DEF Carries

\* A step of one handler.
LEMMA OneCarries ==
    ASSUME MeanInv, CountInv', EntriesPersist, NEW h \in Handlers, OthersStay(h),
           pc[h] # "released", pc[h] = "running" \/ LoopIsFree, Carries(h)'
    PROVE  MeanInv'
<1>1. ASSUME NEW id \in Ids, LostTo(id)' = {} PROVE LostTo(id) = {}
  <2>1. ASSUME NEW g \in LostTo(id) PROVE g \in LostTo(id)'
    <3>1. g \in Handlers \ {h} /\ pc[g] = "released"
      BY DEF LostTo
    <3>2. /\ executor' = executor /\ chain'[g] = chain[g] /\ answer'[g] = answer[g]
          /\ pc'[g] = "released"
      BY <3>1 DEF OthersStay
    <3> QED BY <3>1, <3>2 DEF LostTo, Bare
  <2> QED BY <1>1, <2>1
<1>2. ASSUME NEW g \in Handlers \ {h} PROVE Carries(g)'
  <2>1. pc[g] # "running"
    BY DEF MeanInv, CountInv, ShapeInv, Solo, LoopIsFree
  <2> QED BY <1>1, <2>1, OthersCarry DEF OthersStay
<1> QED BY <1>2 DEF MeanInv
LEMMA InstructionOthers ==
    ASSUME ShapeInv, NEW h \in Handlers, Instruction(h)
    PROVE  OthersStay(h) /\ EntriesPersist
<1>1. Moves(h) /\ UNCHANGED <<executor, passed, start, chain, begin>> /\ RegistryInv
  BY InstructionMoves DEF ShapeInv
<1>2. ASSUME UNCHANGED registryVars PROVE EntriesPersist
  BY <1>2 DEF registryVars, EntriesPersist
<1>3. CASE ThrowMove(h)
  BY <1>1, <1>2, <1>3 DEF ThrowMove, Throw, OthersStay, ShapeInv, TypeOK
<1>4. CASE AwaitMove(h)
  BY <1>1, <1>2, <1>4 DEF AwaitMove, OthersStay, ShapeInv, TypeOK
<1>5. ASSUME NEW x \in StackValues, PlainMove(h, x) PROVE OthersStay(h) /\ EntriesPersist
  BY <1>1, <1>2, <1>5 DEF PlainMove, PushMove, OthersStay, ShapeInv, TypeOK
<1>6. ASSUME NEW v \in Objects, NEW id \in Ids, ResultMove(h, v, id)
      PROVE  OthersStay(h) /\ EntriesPersist
  <2>1. OthersStay(h)
    BY <1>1, <1>6 DEF ResultMove, PushMove, OthersStay, ShapeInv, TypeOK
  <2>2. EntriesPersist
    BY <1>1, <1>6, RegisterPersists DEF ResultMove
  <2> QED BY <2>1, <2>2
<1>7. ASSUME NEW g \in Handlers, ReleaseMove(h, g) PROVE OthersStay(h) /\ EntriesPersist
  <2>1. /\ pc[g] = "answered" /\ answer[g].kind = "reference"
        /\ pc' = [pc EXCEPT ![g] = "released"] /\ answer[g].id \in Ids
        /\ Delete(answer[g].id)
    BY <1>7, GiveBackMoves DEF ReleaseMove, GiveBack
  <2>2. OthersStay(h)
    BY <1>1, <1>7, <2>1 DEF ReleaseMove, PushMove, OthersStay, ShapeInv, TypeOK
  <2>3. EntriesPersist
    BY <1>1, <2>1, DeletePersists
  <2> QED BY <2>2, <2>3
<1> QED BY <1>1, <1>3, <1>4, <1>5, <1>6, <1>7 DEF Moves

\* The next value of the course is what the next instruction yields.
LEMMA NextValue ==
    ASSUME ShapeInv, NEW h \in Handlers, Suffix(h), rest[h] # <<>>
    PROVE  LET i == Len(chain[h]) - Len(rest[h]) + 1
           IN  /\ i \in 0..Len(chain[h])
               /\ i = Len(chain[h]) - Len(Tail(rest[h]))
               /\ Course(begin[h], chain[h])[i] = Local(SoFar(h), Head(rest[h]))
<1> DEFINE n == Len(chain[h])
           r == Len(rest[h])
           c == Course(begin[h], chain[h])
<1>1. n \in Nat /\ r \in 1..n /\ Len(Tail(rest[h])) = r - 1
  BY SuffixTail, ChainType DEF ShapeInv
<1>2. Head(rest[h]) = rest[h][1]
  BY TailFacts DEF ShapeInv, TypeOK
<1>3. \A j \in 1..r : rest[h][j] = chain[h][n - r + j]
  BY DEF Suffix
<1>4. \A j \in 1..n : c[j] = Local(c[j - 1], chain[h][j])
  BY <1>1, CourseFacts
<1>5. SoFar(h) = c[n - r]
  BY DEF SoFar
<1> HIDE DEF n, r, c
<1>6. 1 \in 1..r /\ n - r + 1 \in 1..n /\ (n - r + 1) - 1 = n - r
      /\ n - r + 1 = n - (r - 1) /\ n - r + 1 \in 0..n
  BY <1>1
<1>7. rest[h][1] = chain[h][n - r + 1]
  BY <1>3, <1>6
<1>8. c[n - r + 1] = Local(c[(n - r + 1) - 1], chain[h][n - r + 1])
  BY <1>4, <1>6
<1>9. c[n - r + 1] = Local(SoFar(h), Head(rest[h]))
  BY <1>2, <1>5, <1>6, <1>7, <1>8
<1> QED BY <1>1, <1>6, <1>9 DEF n, r, c

LEMMA SoFarMoves ==
    ASSUME ShapeInv, NEW h \in Handlers, Suffix(h), rest[h] # <<>>,
           rest'[h] = Tail(rest[h]), chain'[h] = chain[h], begin'[h] = begin[h]
    PROVE  SoFar(h)' = Local(SoFar(h), Head(rest[h]))
BY NextValue DEF SoFar

\* THROW is right for a reference that leads nowhere and for an exception.
LEMMA ThrowRight ==
    ASSUME ShapeInv, NEW h \in Handlers, Throw(h),
           chain'[h] = chain[h], begin'[h] = begin[h],
           \/ begin[h] = None
           \/ Suffix(h) /\ rest[h] # <<>> /\ Local(SoFar(h), Head(rest[h])) = Raises
    PROVE  Carries(h)'
<1>1. pc'[h] = "answered" /\ answer'[h] = Thrown
  BY DEF Throw, ShapeInv, TypeOK
<1>2. Wanted(h)' = Raises
  <2>1. CASE begin[h] = None
    BY <2>1 DEF Wanted
  <2>2. CASE Suffix(h) /\ rest[h] # <<>> /\ Local(SoFar(h), Head(rest[h])) = Raises
    <3> DEFINE i == Len(chain[h]) - Len(rest[h]) + 1
    <3>1. i \in 0..Len(chain[h]) /\ Course(begin[h], chain[h])[i] = Raises
      BY <2>2, NextValue
    <3>2. Len(chain[h]) \in Nat
      BY ChainType DEF ShapeInv
    <3> HIDE DEF i
    <3>3. Course(begin[h], chain[h])[Len(chain[h])] = Raises
      BY <3>1, <3>2, RaisesForGood
    <3> QED BY <3>3 DEF Wanted, Meaning
  <2> QED BY <2>1, <2>2
<1>3. Raises \notin Objects
  BY ExecutorAssumption DEF Values
<1>4. AnswerRight(h)'
  BY <1>1, <1>2, <1>3 DEF AnswerRight
<1> QED BY <1>1, <1>4 DEF Carries

LEMMA AwaitRight ==
    ASSUME ShapeInv, NEW h \in Handlers, begin[h] # None, pc'[h] = "awaiting",
           UNCHANGED rest, chain'[h] = chain[h], begin'[h] = begin[h],
           Outcome(called'[h]) = Local(SoFar(h), "apply")
    PROVE  Carries(h)'
<1>1. SoFar(h)' = SoFar(h)
  BY DEF SoFar
<1> QED BY <1>1 DEF Carries, AnswerRight

\* The exporter pushes the value that the instruction yields.
LEMMA ExporterPushRight ==
    ASSUME ShapeInv, NEW h \in Handlers, executor = "exporter", executor' = executor,
           Suffix(h), rest[h] # <<>>, begin[h] # None,
           NEW v, v = Local(SoFar(h), Head(rest[h])), v # Raises,
           stack'[h] = <<v>>, rest'[h] = Tail(rest[h]), pc'[h] = "running",
           chain'[h] = chain[h], begin'[h] = begin[h]
    PROVE  Carries(h)'
<1>1. SoFar(h)' = v
  BY SoFarMoves
<1>2. Target(h)' = v /\ ~Starting(h)'
  BY DEF Target, Top, Starting
<1> QED BY <1>1, <1>2 DEF Carries, ExporterCarries, AnswerRight

\* The importer pushes a reference that leads to the result, or its value.
LEMMA ImporterPushRight ==
    ASSUME ShapeInv, NEW h \in Handlers, executor = "importer", executor' = executor,
           Suffix(h), rest[h] # <<>>, begin[h] # None,
           NEW v, v = Local(SoFar(h), Head(rest[h])), v # Raises,
           \/ v \in Objects /\ \E id \in Ids : stack'[h] = <<Reference(id)>> /\ LeadsTo(id, v)'
           \/ v \in Plain \cup {None} /\ stack'[h] = <<Value(v)>>,
           rest'[h] = Tail(rest[h]), pc'[h] = "running",
           chain'[h] = chain[h], begin'[h] = begin[h]
    PROVE  Carries(h)'
<1>1. SoFar(h)' = v
  BY SoFarMoves
<1>2. ~Starting(h)'
  <2>1. \A x : <<x>> # <<>>
    OBVIOUS
  <2>2. \E x : stack'[h] = <<x>>
    OBVIOUS
  <2>3. stack'[h] # <<>>
    BY <2>1, <2>2
  <2> QED BY <2>3 DEF Starting
<1>3. ImporterCarries(h)'
  BY <1>1 DEF ImporterCarries, LeadsTo
<1> QED BY <1>2, <1>3 DEF Carries, AnswerRight

LEMMA RegisterLeads ==
    ASSUME RegistryInv, NEW o \in Objects, NEW id \in Ids, Register(o, id)
    PROVE  LeadsTo(id, o)'
<1>1. [\A a \in Objects, i \in Ids : Register(a, i) =>
          IF a \in WeakRefable
          THEN map'[i] \in WeakRefable /\ KeyOf[map'[i]] = KeyOf[a]
          ELSE map'[i] = a]_registryVars
  BY RegisterFindsEqual
<1>2. ~ UNCHANGED registryVars
  BY RegisterCounts DEF registryVars, RegistryInv, RegistryTypeOK
<1>3. IF o \in WeakRefable
      THEN map'[id] \in WeakRefable /\ KeyOf[map'[id]] = KeyOf[o]
      ELSE map'[id] = o
  BY <1>1, <1>2
<1> QED BY <1>3 DEF LeadsTo

\* A call has ended with what the chain means.
LEMMA DeliverRight ==
    ASSUME ShapeInv, NEW h \in Handlers, Suffix(h), rest[h] # <<>>, begin[h] # None,
           NEW v \in Values \cup {Raises, Coroutine}, v = Coroutine => executor = "exporter",
           v = Local(SoFar(h), Head(rest[h])), Deliver(h, v, <<>>),
           UNCHANGED <<executor, start, chain, begin>>
    PROVE  Carries(h)'
<1>1. CASE v = Raises /\ Throw(h)
  BY <1>1, ThrowRight
<1>2. \A x : Append(<<>>, x) = <<x>>
  OBVIOUS
<1>3. ASSUME v # Raises, executor = "exporter", Advance(h, Append(<<>>, v)),
             pc' = [pc EXCEPT ![h] = "running"]
      PROVE  Carries(h)'
  <2>1. stack'[h] = <<v>> /\ rest'[h] = Tail(rest[h]) /\ pc'[h] = "running"
    BY <1>2, <1>3 DEF Advance, ShapeInv, TypeOK
  <2> QED BY <1>3, <2>1, ExporterPushRight
<1>4. ASSUME v # Raises, executor = "importer", v \in Objects, NEW id \in Ids,
             Register(v, id), Advance(h, Append(<<>>, Reference(id))),
             pc' = [pc EXCEPT ![h] = "running"]
      PROVE  Carries(h)'
  <2>1. /\ stack'[h] = <<Reference(id)>> /\ rest'[h] = Tail(rest[h])
        /\ pc'[h] = "running"
    BY <1>2, <1>4 DEF Advance, ShapeInv, TypeOK
  <2>2. LeadsTo(id, v)'
    BY <1>4, RegisterLeads DEF ShapeInv
  <2> QED BY <1>4, <2>1, <2>2, ImporterPushRight
<1>5. ASSUME v # Raises, executor = "importer", v \notin Objects,
             Advance(h, Append(<<>>, Value(v))), pc' = [pc EXCEPT ![h] = "running"]
      PROVE  Carries(h)'
  <2>1. stack'[h] = <<Value(v)>> /\ rest'[h] = Tail(rest[h]) /\ pc'[h] = "running"
    BY <1>2, <1>5 DEF Advance, ShapeInv, TypeOK
  <2>2. v \in Plain \cup {None}
    BY <1>5 DEF Values
  <2> QED BY <1>5, <2>1, <2>2, ImporterPushRight
<1> QED BY <1>1, <1>3, <1>4, <1>5 DEF Deliver
\* Pushing the reference begins the course, unless it leads nowhere.
LEMMA PushReferenceRight ==
    ASSUME MeanInv, NEW h \in Handlers, PushReference(h)
    PROVE  Carries(h)'
<1>1. ShapeInv /\ Carries(h)
  BY DEF MeanInv, CountInv
<1>2. /\ At(h, "reference") /\ Starting(h) /\ UNCHANGED registryVars
      /\ executor' = executor /\ start' = start /\ chain' = chain /\ begin' = begin
  BY <1>1, AtReference DEF PushReference
<1>3. begin[h] = map[start[h]] /\ start[h] \in Ids /\ pc[h] = "running" /\ map' = map
  BY <1>1, <1>2 DEF Carries, At, Starting, Get, ShapeInv, TypeOK, registryVars
<1>4. stack[h] = <<>> /\ \A x : Append(stack[h], x) = <<x>>
  BY <1>2 DEF Starting
<1>5. CASE executor = "exporter" /\ Get(start[h]) = None /\ Throw(h)
  <2>1. begin[h] = None
    BY <1>3, <1>5 DEF Get
  <2> QED BY <1>1, <1>2, <1>5, <2>1, ThrowRight
<1>6. ASSUME NEW x, Advance(h, Append(stack[h], x)), UNCHANGED <<pc, answer>>
      PROVE  /\ stack'[h] = <<x>> /\ rest'[h] = chain'[h] /\ pc'[h] = "running"
             /\ ~Starting(h)' /\ SoFar(h)' = begin'[h]
  <2>1. stack'[h] = <<x>> /\ rest'[h] = Tail(rest[h])
    BY <1>1, <1>4, <1>6 DEF Advance, ShapeInv, TypeOK
  <2>2. rest'[h] = chain'[h]
    BY <1>2, <2>1 DEF Starting
  <2>3. PICK n \in Nat : n = Len(chain'[h])
    <3>1. Len(chain[h]) \in Nat /\ chain' = chain
      BY <1>1, <1>2, ChainType DEF ShapeInv
    <3> QED BY <3>1
  <2>4. SoFar(h)' = Course(begin'[h], chain'[h])[0]
    <3>1. n - n = 0
      OBVIOUS
    <3> QED BY <2>2, <2>3, <3>1 DEF SoFar
  <2>5. SoFar(h)' = begin'[h]
    BY <2>3, <2>4, CourseFacts
  <2>6. ~Starting(h)'
    BY <2>1 DEF Starting
  <2> QED BY <1>3, <1>6, <2>1, <2>2, <2>5, <2>6
<1>7. ASSUME executor = "exporter", Get(start[h]) # None,
             Advance(h, Append(stack[h], Get(start[h]))), UNCHANGED <<pc, answer>>
      PROVE  Carries(h)'
  <2>1. begin[h] \in Objects /\ begin[h] # None /\ begin[h] = Get(start[h])
    BY <1>1, <1>3, <1>7 DEF Get, ShapeInv, TypeOK
  <2>2. stack'[h] = <<begin[h]>> /\ SoFar(h)' = begin[h] /\ pc'[h] = "running"
        /\ ~Starting(h)'
    BY <1>2, <1>6, <1>7, <2>1
  <2>3. Target(h)' = begin[h]
    BY <1>2, <1>7, <2>2 DEF Target, Top
  <2>4. begin[h] # Raises
    BY <2>1, ExecutorAssumption DEF Values
  <2> QED BY <1>2, <1>7, <2>1, <2>2, <2>3, <2>4 DEF Carries, ExporterCarries, AnswerRight
<1>8. ASSUME executor = "importer", Advance(h, Append(stack[h], Reference(start[h]))),
             UNCHANGED <<pc, answer>>
      PROVE  Carries(h)'
  <2>1. /\ stack'[h] = <<Reference(start[h])>> /\ SoFar(h)' = begin[h] /\ pc'[h] = "running"
        /\ ~Starting(h)' /\ rest'[h] = chain'[h]
    BY <1>2, <1>6, <1>8
  <2>2. ASSUME Supported(h)' PROVE ImporterCarries(h)'
    <3>1. rest'[h] # <<>>
      BY <1>2, <1>8, <2>1, <2>2 DEF Supported
    <3>2. CASE begin[h] = None
      BY <1>2, <1>3, <2>1, <3>1, <3>2 DEF ImporterCarries
    <3>3. CASE begin[h] # None
      <4>1. begin[h] \in Objects /\ map'[start[h]] = begin[h]
        BY <1>1, <1>3, <3>3 DEF ShapeInv, TypeOK
      <4>2. LeadsTo(start[h], SoFar(h))'
        BY <1>2, <2>1, <4>1 DEF LeadsTo
      <4> QED BY <1>2, <1>3, <2>1, <3>3, <4>1, <4>2 DEF ImporterCarries
    <3> QED BY <3>2, <3>3
  <2> QED BY <1>2, <1>8, <2>1, <2>2 DEF Carries, AnswerRight
<1> QED BY <1>2, <1>5, <1>7, <1>8 DEF PushReference

LEMMA OutcomeType == \A v : Outcome(v) \in Values \cup {Raises} /\ Outcome(v) # Coroutine
BY ExecutorAssumption DEF Outcome, Values

LEMMA ExporterInstructionRight ==
    ASSUME MeanInv, NEW h \in Handlers, Instruction(h), executor = "exporter"
    PROVE  Carries(h)'
<1>1. ShapeInv /\ Carries(h)
  BY DEF MeanInv, CountInv
<1>2. UNCHANGED <<executor, start, chain, begin>>
  BY <1>1, InstructionMoves
<1>3. ASSUME NEW kind \in Operations, Takes(h, kind)
      PROVE  /\ Suffix(h) /\ rest[h] # <<>> /\ Head(rest[h]) = kind /\ pc[h] = "running"
             /\ begin[h] # None /\ Target(h) = SoFar(h) /\ SoFar(h) # Raises
             /\ Remaining(h) = <<>>
  <2>1. At(h, kind)
    BY <1>3 DEF Takes
  <2>2. Executing(h) /\ ~Starting(h) /\ Len(rest[h]) \in 1..Len(chain[h])
    BY <1>1, <2>1, AtOperation
  <2>3. Len(chain[h]) # 0
    BY <1>1, <2>2, ChainType DEF ShapeInv
  <2>4. Supported(h)
    <3>1. chain[h] # <<>>
      BY <1>1, <2>3, ChainType, EmptyIsNot DEF ShapeInv
    <3> QED BY <3>1 DEF Supported
  <2>5. ExporterCarries(h)
    BY <1>1, <2>1, <2>2, <2>4 DEF Carries, At
  <2>6. Remaining(h) = <<>>
    BY <1>1, OneOnStack DEF ShapeInv
  <2> QED BY <2>1, <2>2, <2>5, <2>6 DEF At, Executing, ExporterCarries
<1>4. \A x : Append(<<>>, x) = <<x>>
  OBVIOUS
<1>5. CASE ExecuteGet(h)
  <2>1. Takes(h, "get") /\ "get" \in Operations
    BY <1>5 DEF ExecuteGet, Operations
  <2>2. /\ Advance(h, <<GetMember(Target(h))>>) /\ UNCHANGED pc
    BY <1>3, <1>4, <1>5, <2>1 DEF ExecuteGet
  <2>3. GetMember(Target(h)) = Local(SoFar(h), "get") /\ GetMember(Target(h)) # Raises
    BY <1>3, <2>1, ExecutorAssumption DEF Local, GetMember, Values
  <2>4. /\ stack'[h] = <<GetMember(Target(h))>> /\ rest'[h] = Tail(rest[h])
        /\ pc'[h] = "running"
    BY <1>1, <1>3, <2>1, <2>2 DEF Advance, ShapeInv, TypeOK
  <2> QED BY <1>1, <1>2, <1>3, <2>1, <2>3, <2>4, ExporterPushRight
<1>6. CASE ExecuteApply(h)
  <2>1. Takes(h, "apply") /\ "apply" \in Operations
    BY <1>6 DEF ExecuteApply, Operations
  <2>2. Outcome(Target(h)) = Local(SoFar(h), "apply")
    BY <1>3, <2>1 DEF Local, Outcome
  <2>3. CASE Deliver(h, Outcome(Target(h)), Remaining(h))
    <3>1. Deliver(h, Outcome(Target(h)), <<>>)
      BY <1>3, <2>1, <2>3
    <3> QED BY <1>1, <1>2, <1>3, <2>1, <2>2, <3>1, OutcomeType, DeliverRight
  <2>4. CASE /\ called' = [called EXCEPT ![h] = Target(h)]
             /\ pc' = [pc EXCEPT ![h] = "awaiting"] /\ UNCHANGED rest
    <3>1. called'[h] = Target(h) /\ pc'[h] = "awaiting"
      BY <1>1, <2>4 DEF ShapeInv, TypeOK
    <3> QED BY <1>1, <1>2, <1>3, <2>1, <2>2, <2>4, <3>1, AwaitRight
  <2> QED BY <1>6, <2>3, <2>4 DEF ExecuteApply
<1>7. CASE Resume(h)
  <2>1. Suffix(h) /\ rest[h] # <<>> /\ Head(rest[h]) = "apply" /\ stack[h] = <<>>
        /\ pc[h] = "awaiting"
    BY <1>1, <1>7 DEF Resume, ShapeInv, Shapes, Shape
  <2>2. Supported(h)
    <3>1. Len(rest[h]) \in 1..Len(chain[h])
      BY <1>1, <2>1, SuffixTail
    <3>2. chain[h] # <<>>
      BY <1>1, <3>1, ChainType, EmptyIsNot DEF ShapeInv
    <3> QED BY <3>2 DEF Supported
  <2>3. begin[h] # None /\ Outcome(called[h]) = Local(SoFar(h), "apply")
    BY <1>1, <2>1, <2>2 DEF Carries
  <2>4. Deliver(h, Outcome(called[h]), <<>>)
    BY <1>7, <2>1 DEF Resume
  <2> QED BY <1>1, <1>2, <2>1, <2>3, <2>4, OutcomeType, DeliverRight
<1>8. CASE ExecuteConstruct(h)
  <2>1. Takes(h, "construct") /\ "construct" \in Operations
    BY <1>8 DEF ExecuteConstruct, Operations
  <2>2. Deliver(h, Unawaited(Target(h)), <<>>)
    BY <1>3, <1>8, <2>1 DEF ExecuteConstruct
  <2>3. Unawaited(Target(h)) = Local(SoFar(h), "construct")
    BY <1>3, <2>1 DEF Local, Outcome, Unawaited
  <2>4. Unawaited(Target(h)) \in Values \cup {Raises, Coroutine}
    BY OutcomeType DEF Unawaited
  <2> QED BY <1>1, <1>2, <1>3, <2>1, <2>2, <2>3, <2>4, DeliverRight
<1>9. CASE ExecuteRelease(h)
  <2>1. Takes(h, "release") /\ "release" \in Operations
    BY <1>9 DEF ExecuteRelease, Operations
  <2>2. Advance(h, <<None>>)
    BY <1>3, <1>4, <1>9, <2>1 DEF ExecuteRelease
  <2>3. None = Local(SoFar(h), "release") /\ None # Raises
    BY <1>3, <2>1, ExecutorAssumption DEF Local, Values
  <2>4. stack'[h] = <<None>> /\ rest'[h] = Tail(rest[h])
    BY <1>1, <2>2 DEF Advance, ShapeInv, TypeOK
  <2>5. pc'[h] = "running"
    <3>1. pc[h] = "running"
      BY <1>3, <2>1
    <3>2. CASE UNCHANGED pc
      BY <3>1, <3>2
    <3>3. ASSUME NEW g \in Handlers, GiveBack(g) PROVE pc'[h] = "running"
      <4>1. pc[g] = "answered" /\ pc' = [pc EXCEPT ![g] = "released"]
        BY <3>3 DEF GiveBack
      <4> QED BY <1>1, <3>1, <4>1 DEF ShapeInv, TypeOK
    <3> QED BY <1>9, <3>2, <3>3 DEF ExecuteRelease
  <2> QED BY <1>1, <1>2, <1>3, <2>1, <2>3, <2>4, <2>5, ExporterPushRight
<1>10. CASE ExecuteUnknown(h)
  <2>1. Takes(h, "unknown") /\ "unknown" \in Operations
    BY <1>10 DEF ExecuteUnknown, Operations
  <2>2. Local(SoFar(h), "unknown") = Raises
    BY DEF Local
  <2>3. Throw(h)
    BY <1>10 DEF ExecuteUnknown
  <2> QED BY <1>1, <1>2, <1>3, <2>1, <2>2, <2>3, ThrowRight
<1> QED BY <1>5, <1>6, <1>7, <1>8, <1>9, <1>10, PushReferenceRight DEF Instruction

LEMMA ImporterInstructionRight ==
    ASSUME MeanInv, EqualObjectsAlike, NEW h \in Handlers, Instruction(h),
           executor = "importer"
    PROVE  Carries(h)'
<1>1. ShapeInv /\ Carries(h)
  BY DEF MeanInv, CountInv
<1>2. UNCHANGED <<executor, start, chain, begin>> /\ Moves(h)
  BY <1>1, InstructionMoves
<1>3. Supported(h)' <=> Supported(h)
  BY <1>2 DEF Supported
<1>4. CASE ~Supported(h) /\ ~PushReference(h)
  <2>1. ASSUME Starting(h)', pc'[h] = "running" PROVE FALSE
    <3>1. ASSUME NEW x \in StackValues, PushMove(h, x) PROVE FALSE
      <4>1. stack'[h] = <<x>>
        BY <1>1, <3>1 DEF PushMove, ShapeInv, TypeOK
      <4>2. stack'[h] = <<>>
        BY <2>1 DEF Starting
      <4> QED BY <4>1, <4>2
    <3>2. ~ThrowMove(h) /\ ~AwaitMove(h)
      BY <1>1, <2>1 DEF ThrowMove, Throw, AwaitMove, ShapeInv, TypeOK
    <3>3. \E x \in StackValues : PushMove(h, x)
      BY <1>2, <3>2 DEF Moves, PlainMove, ResultMove, ReleaseMove, PushMove
    <3> QED BY <3>1, <3>3
  <2> QED BY <1>3, <1>4, <2>1 DEF Carries, AnswerRight
<1>5. ASSUME NEW kind \in Operations, Takes(h, kind), Supported(h)
      PROVE  /\ kind = "apply" /\ Suffix(h) /\ rest[h] # <<>> /\ Head(rest[h]) = "apply"
             /\ ImporterCarries(h) /\ Remaining(h) = <<>>
  <2>1. At(h, kind)
    BY <1>5 DEF Takes
  <2>2. /\ Executing(h) /\ ~Starting(h) /\ Len(rest[h]) \in 1..Len(chain[h])
        /\ chain[h][Len(chain[h]) - Len(rest[h]) + 1] = kind
    BY <1>1, <2>1, AtOperation
  <2>3. kind = "apply"
    <3> DEFINE n == Len(chain[h])
               r == Len(rest[h])
    <3>1. DOMAIN chain[h] = 1..n /\ n \in Nat
      BY <1>1, ChainType DEF ShapeInv
    <3>2. \A i \in 1..n : chain[h][i] = "apply"
      BY <1>5, <3>1 DEF Supported
    <3>3. r \in 1..n /\ chain[h][n - r + 1] = kind
      BY <2>2
    <3> HIDE DEF n, r
    <3>4. n - r + 1 \in 1..n
      BY <3>1, <3>3
    <3> QED BY <3>2, <3>3, <3>4
  <2>4. ImporterCarries(h)
    BY <1>1, <1>5, <2>1, <2>2 DEF Carries, At
  <2>5. Remaining(h) = <<>>
    BY <1>1, OneOnStack DEF ShapeInv
  <2> QED BY <2>1, <2>2, <2>3, <2>4, <2>5 DEF At, Executing
<1>6. CASE ExecuteApply(h) /\ Supported(h)
  <2>1. /\ Takes(h, "apply") /\ "apply" \in Operations
    BY <1>6 DEF ExecuteApply, Operations
  <2>2. /\ Suffix(h) /\ rest[h] # <<>> /\ Head(rest[h]) = "apply"
        /\ ImporterCarries(h) /\ Remaining(h) = <<>>
    BY <1>5, <1>6, <2>1
  <2>3. CASE begin[h] = None
    <3>1. PICK id \in Ids : stack[h] = <<Reference(id)>> /\ map[id] = None
      BY <2>2, <2>3 DEF ImporterCarries
    <3>2. Target(h) = None
      BY <3>1 DEF Target, Top, Reference, Get
    <3>3. None \notin Async /\ Outcome(None) = Raises
      BY ExecutorAssumption, RegistryAssumption DEF Outcome
    <3>4. Throw(h)
      BY <1>6, <3>2, <3>3 DEF ExecuteApply, Deliver
    <3> QED BY <1>1, <1>2, <2>3, <3>4, ThrowRight
  <2>4. CASE begin[h] # None
    <3>1. Outcome(Target(h)) = Local(SoFar(h), "apply")
      <4>1. CASE SoFar(h) \in Objects
                 /\ \E id \in Ids : stack[h] = <<Reference(id)>> /\ LeadsTo(id, SoFar(h))
        <5>1. PICK id \in Ids : stack[h] = <<Reference(id)>> /\ LeadsTo(id, SoFar(h))
          BY <4>1
        <5>2. Target(h) = map[id]
          BY <1>6, <5>1 DEF Target, Top, Reference, Get
        <5>3. map[id] \in Objects /\ Applied[map[id]] = Applied[SoFar(h)]
          BY <4>1, <5>1, RegistryAssumption DEF LeadsTo, EqualObjectsAlike
        <5>4. SoFar(h) # Raises
          BY <4>1, ExecutorAssumption DEF Values
        <5> QED BY <4>1, <5>2, <5>3, <5>4 DEF Outcome, Local
      <4>2. CASE SoFar(h) \in Plain \cup {None} /\ stack[h] = <<Value(SoFar(h))>>
        <5>1. Target(h) = None
          BY <4>2 DEF Target, Top, Value
        <5>2. SoFar(h) \notin Objects /\ None \notin Objects
          BY <4>2, ExecutorAssumption, RegistryAssumption
        <5> QED BY <5>1, <5>2 DEF Outcome, Local
      <4> QED BY <2>2, <2>4, <4>1, <4>2 DEF ImporterCarries
    <3>2. CASE Deliver(h, Outcome(Target(h)), Remaining(h))
      <4>1. Deliver(h, Outcome(Target(h)), <<>>)
        BY <2>2, <3>2
      <4> QED BY <1>1, <1>2, <2>2, <2>4, <3>1, <4>1, OutcomeType, DeliverRight
    <3>3. CASE /\ called' = [called EXCEPT ![h] = Target(h)]
               /\ pc' = [pc EXCEPT ![h] = "awaiting"] /\ UNCHANGED rest
      <4>1. called'[h] = Target(h) /\ pc'[h] = "awaiting"
        BY <1>1, <3>3 DEF ShapeInv, TypeOK
      <4> QED BY <1>1, <1>2, <2>4, <3>1, <3>3, <4>1, AwaitRight
    <3> QED BY <1>6, <3>2, <3>3 DEF ExecuteApply
  <2> QED BY <2>3, <2>4
<1>7. CASE Resume(h) /\ Supported(h)
  <2>1. Suffix(h) /\ rest[h] # <<>> /\ Head(rest[h]) = "apply" /\ stack[h] = <<>>
        /\ pc[h] = "awaiting"
    BY <1>1, <1>7 DEF Resume, ShapeInv, Shapes, Shape
  <2>2. begin[h] # None /\ Outcome(called[h]) = Local(SoFar(h), "apply")
    BY <1>1, <1>7, <2>1 DEF Carries
  <2>3. Deliver(h, Outcome(called[h]), <<>>)
    BY <1>7, <2>1 DEF Resume
  <2> QED BY <1>1, <1>2, <2>1, <2>2, <2>3, OutcomeType, DeliverRight
<1>8. ASSUME Supported(h), ExecuteGet(h) \/ ExecuteConstruct(h) \/ ExecuteRelease(h)
               \/ ExecuteUnknown(h)
      PROVE  FALSE
  <2>1. PICK kind \in Operations : kind # "apply" /\ Takes(h, kind)
    BY <1>8 DEF ExecuteGet, ExecuteConstruct, ExecuteRelease, ExecuteUnknown, Operations
  <2> QED BY <1>5, <1>8, <2>1
<1> QED BY <1>4, <1>6, <1>7, <1>8, PushReferenceRight DEF Instruction
\* At the end of its chain a handler answers with what it carries.
LEMMA AnswerIsRight ==
    ASSUME MeanInv, NEW h \in Handlers, Answer(h)
    PROVE  Carries(h)'
<1>1. ShapeInv /\ Carries(h)
  BY DEF MeanInv, CountInv
<1>2. /\ pc[h] = "running" /\ rest[h] = <<>> /\ pc' = [pc EXCEPT ![h] = "answered"]
      /\ UNCHANGED <<executor, start, chain, begin>>
  BY DEF Answer
<1>3. pc'[h] = "answered" /\ (Supported(h)' <=> Supported(h)) /\ Wanted(h)' = Wanted(h)
  BY <1>1, <1>2 DEF ShapeInv, TypeOK, Supported, Wanted, Meaning
<1>4. AnswerRight(h)' => Carries(h)'
  BY <1>3 DEF Carries
<1>5. CASE ~Supported(h)
  BY <1>3, <1>4, <1>5 DEF AnswerRight
<1>6. CASE Supported(h)
  <2>1. Len(chain[h]) \in Nat /\ Len(rest[h]) = 0
    BY <1>1, <1>2, ChainType DEF ShapeInv
  <2>2. ~Starting(h) /\ Executing(h)
    BY <1>1, <1>2, <2>1 DEF Starting, ShapeInv, Shapes, Shape
  <2>3. SoFar(h) = Meaning(h)
    <3> DEFINE n == Len(chain[h])
    <3>1. n \in Nat /\ SoFar(h) = Course(begin[h], chain[h])[n - 0]
      BY <2>1 DEF SoFar
    <3>2. Meaning(h) = Course(begin[h], chain[h])[n]
      BY DEF Meaning
    <3> HIDE DEF n
    <3>3. n - 0 = n
      BY <3>1
    <3> QED BY <3>1, <3>2, <3>3
  <2>4. stack[h] # <<>>
    <3>1. CASE stack[h] = <<>>
      <4>1. start[h] = None /\ Len(rest[h]) = Len(chain[h])
        BY <2>2, <3>1 DEF Executing
      <4>2. chain[h] = <<>>
        BY <1>1, <2>1, <4>1, ChainType, EmptyIsNot DEF ShapeInv
      <4>3. executor = "exporter"
        BY <1>1, <1>2, <4>1 DEF ShapeInv, Shapes, Shape
      <4> QED BY <1>6, <4>1, <4>2, <4>3 DEF Supported
    <3> QED BY <3>1
  <2>5. Objects \cap (Plain \cup {None, Raises, Coroutine}) = {}
        /\ {Raises, Coroutine} \cap (Plain \cup {None}) = {}
    BY ExecutorAssumption, RegistryAssumption DEF Values
  <2>6. CASE executor = "exporter"
    <3>1. begin[h] # None /\ Top(h) = Wanted(h) /\ Wanted(h) # Raises
      BY <1>1, <1>2, <1>6, <2>2, <2>3, <2>4, <2>6
      DEF Carries, ExporterCarries, Target, Wanted
    <3>2. Top(h) \in Values \cup {Coroutine}
      BY <1>1, <2>4, <2>6, OneOnStack DEF ShapeInv
    <3>3. ASSUME Top(h) \in Objects, NEW id \in Ids, Register(Top(h), id),
                 answer' = [answer EXCEPT ![h] = Reference(id)]
          PROVE  AnswerRight(h)'
      <4>1. answer'[h] = Reference(id)
        BY <1>1, <3>3 DEF ShapeInv, TypeOK
      <4>2. PICK w \in Objects : w = Top(h)
        BY <3>3
      <4>3. Wanted(h)' = w /\ w \notin {Raises, Coroutine}
        BY <1>3, <2>5, <3>1, <4>2
      <4>4. LeadsTo(id, w)'
        BY <1>1, <3>3, <4>2, RegisterLeads DEF ShapeInv
      <4>5. LeadsTo(id, Wanted(h))'
        BY <4>3, <4>4 DEF LeadsTo
      <4> QED BY <4>1, <4>3, <4>5 DEF AnswerRight, Reference
    <3>4. ASSUME Top(h) \notin Objects,
                 answer' = [answer EXCEPT ![h] =
                               IF Top(h) = Coroutine THEN Thrown ELSE Value(Top(h))]
          PROVE  AnswerRight(h)'
      <4>1. answer'[h] = IF Top(h) = Coroutine THEN Thrown ELSE Value(Top(h))
        BY <1>1, <3>4 DEF ShapeInv, TypeOK
      <4>2. PICK w : w = Wanted(h)
        OBVIOUS
      <4>3. Wanted(h)' = w /\ Top(h) = w /\ w \notin Objects /\ w # Raises
        BY <1>3, <3>1, <3>4, <4>2
      <4> QED BY <4>1, <4>3 DEF AnswerRight
    <3> QED BY <1>4, <2>4, <2>6, <3>3, <3>4 DEF Answer
  <2>7. CASE executor = "importer"
    <3>1. ImporterCarries(h)
      BY <1>1, <1>2, <1>6, <2>2, <2>7 DEF Carries
    <3>2. answer' = [answer EXCEPT ![h] = Top(h)] /\ UNCHANGED registryVars
      BY <2>4, <2>7 DEF Answer
    <3>3. answer'[h] = Top(h)
      BY <1>1, <3>2 DEF ShapeInv, TypeOK
    <3>4. begin[h] # None /\ SoFar(h) = Wanted(h)
      BY <1>2, <2>3, <3>1 DEF ImporterCarries, Wanted
    <3>5. PICK w : w = Wanted(h) /\ Wanted(h)' = w
      BY <1>3
    <3>6. ASSUME w \in Objects, NEW id \in Ids, stack[h] = <<Reference(id)>>, LeadsTo(id, w)
          PROVE  AnswerRight(h)'
      <4>1. answer'[h] = Reference(id)
        BY <3>3, <3>6 DEF Top
      <4>2. LeadsTo(id, Wanted(h))'
        BY <3>2, <3>5, <3>6 DEF LeadsTo, registryVars
      <4> QED BY <2>5, <3>5, <3>6, <4>1, <4>2 DEF AnswerRight, Reference
    <3>7. ASSUME w \in Plain \cup {None}, stack[h] = <<Value(w)>>
          PROVE  AnswerRight(h)'
      <4>1. answer'[h] = Value(w)
        BY <3>3, <3>7 DEF Top
      <4>2. w \notin Objects /\ w # Raises /\ w # Coroutine
        BY <2>5, <3>7
      <4> QED BY <3>5, <4>1, <4>2 DEF AnswerRight
    <3> QED BY <1>4, <3>1, <3>4, <3>5, <3>6, <3>7 DEF ImporterCarries
  <2>8. executor \in {"exporter", "importer"}
    BY <1>1, ExecutorAssumption DEF ShapeInv, TypeOK
  <2> QED BY <2>6, <2>7, <2>8
<1> QED BY <1>5, <1>6

LEMMA ReceiveRight ==
    ASSUME MeanInv, NEW h \in Handlers, NEW id \in Ids \cup {None},
           NEW ops \in Chains, Receive(h, id, ops)
    PROVE  Carries(h)'
<1>1. /\ ShapeInv /\ pc'[h] = "running" /\ start'[h] = id /\ chain'[h] = ops
      /\ rest'[h] = (IF id = None THEN ops ELSE <<"reference">> \o ops)
      /\ begin'[h] = (IF id = None THEN RootObject ELSE Get(id))
      /\ executor' = executor /\ stack' = stack /\ UNCHANGED registryVars
      /\ pc[h] = "idle" /\ (id = None => executor = "exporter")
  BY DEF Receive, MeanInv, CountInv, ShapeInv, TypeOK
<1>2. stack[h] = <<>> /\ Len(ops) \in Nat
  BY <1>1, ExecutorAssumption DEF ShapeInv, Shapes, Shape
<1>3. CASE id = None
  <2>1. ~Starting(h)'
    BY <1>1, <1>3 DEF Starting
  <2>2. SoFar(h)' = RootObject
    <3>1. SoFar(h)' = Course(RootObject, ops)[Len(ops) - Len(ops)]
      BY <1>1, <1>3 DEF SoFar
    <3>2. PICK n \in Nat : n = Len(ops)
      BY <1>2
    <3>3. n - n = 0
      OBVIOUS
    <3>4. Course(RootObject, ops)[0] = RootObject
      BY <1>2, CourseFacts
    <3> QED BY <3>1, <3>2, <3>3, <3>4
  <2>3. Target(h)' = RootObject
    BY <1>1, <1>2, <1>3 DEF Target
  <2>4. RootObject # None /\ RootObject # Raises
    BY ExecutorAssumption, RegistryAssumption DEF Values
  <2> QED BY <1>1, <1>3, <2>1, <2>2, <2>3, <2>4 DEF Carries, ExporterCarries, AnswerRight
<1>4. CASE id # None
  <2>1. Starting(h)'
    <3>1. /\ Len(<<"reference">> \o ops) = Len(ops) + 1
          /\ Head(<<"reference">> \o ops) = "reference"
          /\ Tail(<<"reference">> \o ops) = ops
      <4>1. ops \in Seq(Operations)
        BY ExecutorAssumption
      <4> QED BY <4>1
    <3> QED BY <1>1, <1>2, <1>4, <3>1 DEF Starting
  <2>2. begin'[h] = Get(start[h])'
    BY <1>1, <1>4 DEF Get, registryVars
  <2> QED BY <1>1, <2>1, <2>2 DEF Carries, AnswerRight
<1> QED BY <1>3, <1>4

LEMMA InitMeanInv == Init => MeanInv
<1> SUFFICES ASSUME Init PROVE MeanInv
  OBVIOUS
<1>1. CountInv
  BY InitCountInv
<1>2. \A h \in Handlers : pc[h] = "idle"
  BY DEF Init
<1> QED BY <1>1, <1>2 DEF MeanInv, Carries, AnswerRight

LEMMA NextMeanInv ==
    ("importer" \in Executors => EqualObjectsAlike) /\ MeanInv /\ [Next]_vars => MeanInv'
<1> SUFFICES ASSUME "importer" \in Executors => EqualObjectsAlike, MeanInv, [Next]_vars
             PROVE  MeanInv'
  OBVIOUS
<1>1. CountInv' /\ ShapeInv /\ CountInv /\ RegistryInv
  BY NextCountInv DEF MeanInv, CountInv, ShapeInv
<1>2. executor \in {"exporter", "importer"} /\ executor \in Executors
  BY <1>1, ExecutorAssumption DEF ShapeInv, TypeOK
<1>3. CASE UNCHANGED vars
  <2>1. /\ UNCHANGED <<map, executor, start, chain, rest, stack, called, pc, answer, begin>>
    BY <1>3 DEF vars, registryVars, execVars
  <2>2. ASSUME NEW h \in Handlers PROVE Carries(h)'
    <3>1. /\ SoFar(h)' = SoFar(h) /\ Wanted(h)' = Wanted(h) /\ Target(h)' = Target(h)
          /\ (Supported(h)' <=> Supported(h)) /\ (Starting(h)' <=> Starting(h))
      BY <2>1 DEF SoFar, Wanted, Meaning, Target, Top, Get, Supported, Starting
    <3>2. /\ \A id : LostTo(id)' = LostTo(id)
          /\ \A id, o : LeadsTo(id, o)' <=> LeadsTo(id, o)
      BY <2>1 DEF LostTo, Bare, LeadsTo
    <3>3. AnswerRight(h)' <=> AnswerRight(h)
      BY <2>1, <3>1, <3>2 DEF AnswerRight
    <3>4. /\ ExporterCarries(h)' <=> ExporterCarries(h)
          /\ ImporterCarries(h)' <=> ImporterCarries(h)
      BY <2>1, <3>1, <3>2 DEF ExporterCarries, ImporterCarries
    <3> QED BY <2>1, <3>1, <3>3, <3>4 DEF Carries, MeanInv, Get
  <2> QED BY <1>1, <2>2 DEF MeanInv
<1>4. ASSUME NEW o \in Objects, NEW id \in Ids, PassArgument(o, id) PROVE MeanInv'
  <2>1. /\ LoopIsFree
        /\ UNCHANGED <<executor, start, chain, rest, called, pc, answer, begin>>
    BY <1>4 DEF PassArgument
  <2>2. EntriesPersist
    BY <1>1, <1>4, RegisterPersists DEF PassArgument, EntriesPersist
  <2>3. \A i \in Ids : LostTo(i)' = LostTo(i)
    BY <2>1 DEF LostTo, Bare
  <2>4. ASSUME NEW g \in Handlers PROVE Carries(g)'
    BY <1>1, <2>1, <2>2, <2>3, OthersCarry DEF LoopIsFree
  <2> QED BY <1>1, <2>4 DEF MeanInv
<1>5. ASSUME NEW h \in Handlers, NEW id \in Ids \cup {None}, NEW ops \in Chains,
             Receive(h, id, ops)
      PROVE  MeanInv'
  <2>1. Carries(h)'
    BY <1>5, ReceiveRight
  <2>2. OthersStay(h) /\ EntriesPersist /\ pc[h] = "idle" /\ LoopIsFree
    BY <1>1, <1>5 DEF Receive, OthersStay, EntriesPersist, registryVars, ShapeInv, TypeOK
  <2> QED BY <1>1, <2>1, <2>2, OneCarries
<1>6. ASSUME NEW h \in Handlers, Instruction(h) PROVE MeanInv'
  <2>1. Carries(h)'
    BY <1>2, <1>6, ExporterInstructionRight, ImporterInstructionRight
  <2>2. OthersStay(h) /\ EntriesPersist
    BY <1>1, <1>6, InstructionOthers
  <2>3. pc[h] # "released" /\ (pc[h] = "running" \/ LoopIsFree)
    BY <1>1, <1>6, InstructionMoves
  <2> QED BY <1>1, <2>1, <2>2, <2>3, OneCarries
<1>7. ASSUME NEW h \in Handlers, Answer(h) PROVE MeanInv'
  <2>1. Carries(h)'
    BY <1>7, AnswerIsRight
  <2>2. PICK a : AnswerMove(h, a)
    BY <1>1, <1>7, AnswerMoves
  <2>3. EntriesPersist
    BY <1>1, <2>2, RegisterPersists DEF AnswerMove, EntriesPersist, registryVars
  <2>4. OthersStay(h) /\ pc[h] = "running"
    BY <1>1, <1>7, <2>2 DEF Answer, AnswerMove, OthersStay, ShapeInv, TypeOK
  <2> QED BY <1>1, <2>1, <2>3, <2>4, OneCarries
<1>8. ASSUME NEW h \in Handlers, ReleaseAnswer(h) PROVE MeanInv'
  <2>1. /\ LoopIsFree /\ GiveBack(h)
        /\ UNCHANGED <<executor, start, chain, rest, stack, called, answer, begin>>
    BY <1>8 DEF ReleaseAnswer
  <2>2. /\ pc[h] = "answered" /\ answer[h].kind = "reference" /\ answer[h].id \in Ids
        /\ pc' = [pc EXCEPT ![h] = "released"] /\ Delete(answer[h].id)
    BY <1>1, <2>1, GiveBackMoves DEF GiveBack
  <2>3. OthersStay(h) /\ pc'[h] = "released"
    BY <1>1, <2>1, <2>2 DEF OthersStay, ShapeInv, TypeOK
  <2>4. EntriesPersist
    BY <1>1, <2>2, DeletePersists
  <2>5. Carries(h)'
    BY <2>3 DEF Carries, AnswerRight
  <2> QED BY <1>1, <2>1, <2>2, <2>3, <2>4, <2>5, OneCarries
<1>9. CASE Next
  BY <1>4, <1>5, <1>6, <1>7, <1>8, <1>9, NextSteps
<1> QED BY <1>3, <1>9

\* A remote chain answers what it means locally, for every chain, object graph and
\* number of handlers, whatever other handlers, releases and arguments did while
\* it waited (exported.py, _execute; imported.py, _execute_incoming).  The
\* importer calls what the registry holds in place of the object, so there equal
\* objects must be called alike; of the exporter nothing is assumed.
THEOREM ChainsMeanWhatTheySay ==
    ASSUME "importer" \in Executors => EqualObjectsAlike
    PROVE  Spec => []AnswerMeans
<1>1. MeanInv => AnswerMeans
  <2> SUFFICES ASSUME MeanInv, NEW h \in Handlers, pc[h] = "answered", Supported(h)
               PROVE  LET m == Wanted(h)
                      IN  CASE m \in {Raises, Coroutine} -> answer[h] = Thrown
                            [] m \in Objects -> /\ answer[h].kind = "reference"
                                                /\ LostTo(answer[h].id) = {} =>
                                                       LeadsTo(answer[h].id, m)
                            [] OTHER         -> answer[h] = Value(m)
    BY DEF AnswerMeans, Wanted
  <2>1. /\ Wanted(h) \in {Raises, Coroutine} => answer[h] = Thrown
        /\ Wanted(h) \in Objects =>
             /\ answer[h].kind = "reference"
             /\ LostTo(answer[h].id) = {} => LeadsTo(answer[h].id, Wanted(h))
        /\ Wanted(h) \notin Objects \cup {Raises, Coroutine} =>
             answer[h] = Value(Wanted(h))
    BY DEF MeanInv, Carries, AnswerRight
  <2>2. Objects \cap {Raises, Coroutine} = {}
    BY ExecutorAssumption DEF Values
  <2> QED BY <2>1, <2>2
<1>2. MeanInv /\ [Next]_vars => MeanInv'
  BY NextMeanInv
<1> QED BY <1>1, <1>2, InitMeanInv, PTL DEF Spec
===============================================================================
