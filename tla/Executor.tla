------------------------------- MODULE Executor -------------------------------
(***************************************************************************)
(* How one end of a connection executes the instruction chains the other   *)
(* end sends: the exporter (exported.py, _execute) serves the proxies of   *)
(* the importer, and the importer (imported.py, _execute_incoming) serves  *)
(* the callbacks it has passed as arguments.  The two are written apart    *)
(* and differ: the exporter keeps Python values on its stack and registers *)
(* the final result, the importer keeps encoded values and registers every *)
(* result.                                                                 *)
(*                                                                         *)
(* Every request has a handler task.  It runs without interruption until   *)
(* it answers or awaits a coroutine function; meanwhile other handlers     *)
(* run, references are released and arguments are registered.              *)
(***************************************************************************)
EXTENDS ObjectRegistry, Sequences, FiniteSets

CONSTANTS
    Executors,     \* which executors to look at: "exporter", "importer"
    Handlers,      \* requests served during a run
    Chains,        \* what follows the reference a chain starts with:
                   \* sequences of instructions
    RootObject,    \* the exported object, target of a chain without reference
    Plain,         \* values that are passed by value, besides Python's None
    Member,        \* object -> what GET yields on it
    Applied,       \* object -> what calling it yields, or Raises
    Async,         \* objects that are coroutine functions
    Coroutine,     \* what a coroutine function returns when nobody awaits it
    Raises         \* an exception

Values == Objects \cup Plain \cup {None}
Operations == {"get", "apply", "construct", "release", "unknown"}

ASSUME ExecutorAssumption ==
    /\ Executors \subseteq {"exporter", "importer"}
    /\ IsFiniteSet(Handlers)
    /\ Chains \subseteq Seq(Operations)
    /\ RootObject \in Objects
    /\ Plain \cap (Objects \cup {None}) = {}
    /\ Coroutine # Raises /\ {Coroutine, Raises} \cap Values = {}
    /\ Member \in [Objects -> Values]
    /\ Applied \in [Objects -> Values \cup {Raises}]
    /\ Async \subseteq Objects

VARIABLES
    executor,   \* the one that executes in this run
    passed,     \* identifier -> how often it was passed as an argument
    inner,      \* identifier -> how often it was the result of a call in the
                \* middle of a chain
    start,      \* handler -> the reference its chain starts with, or None
    chain,      \* handler -> what follows
    rest,       \* handler -> what is left to execute
    stack,      \* handler -> its stack
    called,     \* handler -> the coroutine function it awaits, or None
    pc,         \* handler -> idle, running, awaiting, answered or released
    answer,     \* handler -> what it answers
    begin       \* history: handler -> the object its chain started with

execVars == <<executor, passed, inner, start, chain, rest, stack, called, pc,
              answer, begin>>
vars == <<registryVars, execVars>>

\* What travels: an object by reference, other values as they are.
Reference(id) == [kind |-> "reference", id |-> id]
Value(v)      == [kind |-> "value", value |-> v]
Thrown        == [kind |-> "thrown"]
Undecodable   == [kind |-> "undecodable"]   \* RETURN without data
NoAnswer      == [kind |-> "none"]

Encoded == {Reference(id) : id \in Ids} \cup
           {Value(v) : v \in Plain \cup {None}}

TypeOK ==
    /\ RegistryTypeOK
    /\ executor \in Executors
    /\ {passed, inner} \subseteq [Ids -> Nat]
    /\ start \in [Handlers -> Ids \cup {None}]
    /\ chain \in [Handlers -> Seq(Operations)]
    /\ rest \in [Handlers -> Seq(Operations \cup {"reference"})]
    /\ stack \in [Handlers -> Seq(IF executor = "exporter"
                                THEN Values \cup {Coroutine} ELSE Encoded)]
    /\ called \in [Handlers -> Async \cup {None}]
    /\ pc \in [Handlers ->
              {"idle", "running", "awaiting", "answered", "released"}]
    /\ answer \in [Handlers -> Encoded \cup {Thrown, Undecodable, NoAnswer}]
    /\ begin \in [Handlers -> Objects \cup {None}]
    /\ \A h \in Handlers : Len(stack[h]) <= 1

Init ==
    /\ RegistryInit
    /\ executor \in Executors
    /\ passed = [id \in Ids |-> 0]
    /\ inner = [id \in Ids |-> 0]
    /\ start = [h \in Handlers |-> None]
    /\ chain = [h \in Handlers |-> <<>>]
    /\ rest = [h \in Handlers |-> <<>>]
    /\ stack = [h \in Handlers |-> <<>>]
    /\ called = [h \in Handlers |-> None]
    /\ pc = [h \in Handlers |-> "idle"]
    /\ answer = [h \in Handlers |-> NoAnswer]
    /\ begin = [h \in Handlers |-> None]

-------------------------------------------------------------------------------
(* What the other end does *)

\* No handler is between two awaits.
LoopIsFree == \A h \in Handlers : pc[h] # "running"

Answered(id) ==
    {h \in Handlers : pc[h] = "answered" /\ answer[h] = Reference(id)}

\* References the other end has seen; some may be released already.
Known == {id \in Ids : passed[id] > 0} \cup
         {id \in Ids : \E h \in Handlers : answer[h] = Reference(id)}

\* A program passes an object as an argument: __call__ registers it, and no
\* finalizer will ever release it.  An importer registers it where its handlers
\* look.  The exporter calls back through an importer of its own, whose registry
\* they never see: there only a new identifier is of interest.
PassArgument(o, id) ==
    /\ LoopIsFree
    /\ passed[id] < MaxRetains
    /\ \/ executor = "importer" /\ Register(o, id)
       \/ /\ executor = "exporter"
          /\ id \notin issued
          /\ issued' = issued \cup {id}
          /\ UNCHANGED <<map, counts, weak_map>>
    /\ passed' = [passed EXCEPT ![id] = @ + 1]
    /\ UNCHANGED <<executor, inner, start, chain, rest, stack, called, pc,
                   answer, begin>>

\* An EXECUTE arrives and its handler starts.  A chain without a reference is
\* meant for the root object, which only an exporter has.
Receive(h, id, ops) ==
    /\ LoopIsFree
    /\ pc[h] = "idle"
    /\ id = None => executor = "exporter"
    /\ start' = [start EXCEPT ![h] = id]
    /\ chain' = [chain EXCEPT ![h] = ops]
    /\ rest' = [rest EXCEPT ![h] = IF id = None THEN ops
                                                ELSE <<"reference">> \o ops]
    /\ begin' = [begin EXCEPT ![h] = IF id = None THEN RootObject ELSE Get(id)]
    /\ pc' = [pc EXCEPT ![h] = "running"]
    /\ UNCHANGED <<registryVars, executor, passed, inner, stack, called, answer>>

\* Releasing the reference handler h has answered with.
GiveBack(h) ==
    /\ pc[h] = "answered" /\ answer[h].kind = "reference"
    /\ Delete(answer[h].id)
    /\ pc' = [pc EXCEPT ![h] = "released"]

\* The cursor made of an answer is collected, and its RELEASE executed.
ReleaseAnswer(h) ==
    /\ LoopIsFree
    /\ GiveBack(h)
    /\ UNCHANGED <<executor, passed, inner, start, chain, rest, stack, called,
                   answer, begin>>

-------------------------------------------------------------------------------
(* The loop over the instructions *)

At(h, kind) == pc[h] = "running" /\ rest[h] # <<>> /\ Head(rest[h]) = kind

\* The importer has a result of the chain on its stack, registered under id.
HasResult(h, id) ==
    /\ executor = "importer"
    /\ Len(rest[h]) < Len(chain[h])
    /\ stack[h] = <<Reference(id)>>

\* The next instruction takes its target from the stack.  A result that the
\* importer has registered is never sent then, nor released.
Takes(h, kind) ==
    /\ At(h, kind)
    /\ inner' = [id \in Ids |-> inner[id] + IF HasResult(h, id) THEN 1 ELSE 0]

\* The next instruction, with stack s.
Advance(h, s) ==
    /\ stack' = [stack EXCEPT ![h] = s]
    /\ rest' = [rest EXCEPT ![h] = Tail(@)]

\* THROW: the handler ends here.
Throw(h) ==
    /\ answer' = [answer EXCEPT ![h] = Thrown]
    /\ pc' = [pc EXCEPT ![h] = "answered"]
    /\ stack' = [stack EXCEPT ![h] = <<>>]
    /\ rest' = [rest EXCEPT ![h] = <<>>]

\* The exporter looks the reference up at once, the importer when it needs it.
PushReference(h) ==
    /\ At(h, "reference")
    /\ \/ /\ executor = "exporter"
          /\ Get(start[h]) = None
          /\ Throw(h)
       \/ /\ executor = "exporter"
          /\ Get(start[h]) # None
          /\ Advance(h, Append(stack[h], Get(start[h])))
          /\ UNCHANGED <<pc, answer>>
       \/ /\ executor = "importer"
          /\ Advance(h, Append(stack[h], Reference(start[h])))
          /\ UNCHANGED <<pc, answer>>
    /\ UNCHANGED <<registryVars, executor, passed, inner, start, chain, called,
                   begin>>

\* A mistake to catch: the target stays on the stack.
RemainingKept(h) == stack[h]

\* stack[-1]
Top(h) == stack[h][Len(stack[h])]

\* The stack without the target of the next instruction.
Remaining(h) ==
    IF stack[h] = <<>> THEN <<>> ELSE SubSeq(stack[h], 1, Len(stack[h]) - 1)

\* The target: the value on the stack, or what the reference there leads to.
Target(h) ==
    IF executor = "exporter"
    THEN IF stack[h] = <<>> THEN RootObject ELSE Top(h)
    ELSE IF stack[h] # <<>> /\ Top(h).kind = "reference"
         THEN Get(Top(h).id) ELSE None

\* GET: the member, or None for want of one; the importer refuses GET.
GetMember(v) == IF v \in Objects THEN Member[v] ELSE None

ExecuteGet(h) ==
    /\ Takes(h, "get")
    /\ IF executor = "exporter"
       THEN /\ Advance(h, Append(Remaining(h), GetMember(Target(h))))
            /\ UNCHANGED <<pc, answer>>
       ELSE Throw(h)
    /\ UNCHANGED <<registryVars, executor, passed, start, chain, called,
                   begin>>

\* A mistake to catch: a coroutine is taken for a result.
OutcomeUnawaited(v) ==
    IF v \in Async THEN None ELSE IF v \in Objects THEN Applied[v] ELSE Raises

\* Calling a value; only objects may be callable.
Outcome(v) == IF v \in Objects THEN Applied[v] ELSE Raises

\* A call has ended with v: the exporter pushes the value, the importer
\* registers an object and pushes its reference.
Deliver(h, v, s) ==
    \/ v = Raises /\ Throw(h) /\ UNCHANGED registryVars
    \/ /\ v # Raises
       /\ pc' = [pc EXCEPT ![h] = "running"]
       /\ UNCHANGED answer
       /\ \/ /\ executor = "exporter"
             /\ Advance(h, Append(s, v))
             /\ UNCHANGED registryVars
          \/ /\ executor = "importer" /\ v \in Objects
             /\ \E id \in Ids : /\ Register(v, id)
                                /\ Advance(h, Append(s, Reference(id)))
          \/ /\ executor = "importer" /\ v \notin Objects
             /\ Advance(h, Append(s, Value(v)))
             /\ UNCHANGED registryVars

\* APPLY of a function runs at once, APPLY of a coroutine function is awaited.
ExecuteApply(h) ==
    /\ Takes(h, "apply")
    /\ \/ /\ Target(h) \notin Async
          /\ Deliver(h, Outcome(Target(h)), Remaining(h))
          /\ UNCHANGED called
       \/ /\ Target(h) \in Async
          /\ called' = [called EXCEPT ![h] = Target(h)]
          /\ stack' = [stack EXCEPT ![h] = Remaining(h)]
          /\ pc' = [pc EXCEPT ![h] = "awaiting"]
          /\ UNCHANGED <<registryVars, rest, answer>>
    /\ UNCHANGED <<executor, passed, start, chain, begin>>

\* The awaited function returns or raises, and the handler runs on.
Resume(h) ==
    /\ LoopIsFree
    /\ pc[h] = "awaiting"
    /\ Deliver(h, Outcome(called[h]), stack[h])
    /\ called' = [called EXCEPT ![h] = None]
    /\ UNCHANGED <<executor, passed, inner, start, chain, begin>>

\* Calling a value without awaiting what it returns.
Unawaited(v) == IF v \in Async THEN Coroutine ELSE Outcome(v)

\* CONSTRUCT calls a class and awaits nothing; the importer refuses it.
ExecuteConstruct(h) ==
    /\ Takes(h, "construct")
    /\ IF executor = "exporter"
       THEN Deliver(h, Unawaited(Target(h)), Remaining(h))
       ELSE Throw(h) /\ UNCHANGED registryVars
    /\ UNCHANGED <<executor, passed, start, chain, called, begin>>

\* RELEASE inside a chain gives back a reference that was answered before, or
\* does nothing for an identifier that is gone, and leaves None in place of the
\* target; the importer refuses it.
ExecuteRelease(h) ==
    /\ Takes(h, "release")
    /\ IF executor = "exporter"
       THEN /\ \/ \E g \in Handlers : GiveBack(g)
               \/ UNCHANGED <<registryVars, pc>>
            /\ Advance(h, Append(Remaining(h), None))
            /\ UNCHANGED answer
       ELSE Throw(h) /\ UNCHANGED registryVars
    /\ UNCHANGED <<executor, passed, start, chain, called, begin>>

\* Both refuse any other kind.
ExecuteUnknown(h) ==
    /\ Takes(h, "unknown")
    /\ Throw(h)
    /\ UNCHANGED <<registryVars, executor, passed, start, chain, called,
                   begin>>

\* The chain is done.  The exporter registers an object it answers with, and
\* fails to encode a coroutine; the importer answers with what is on its stack,
\* which for a chain of nothing but a reference is that reference, uncounted.
Answer(h) ==
    /\ pc[h] = "running" /\ rest[h] = <<>>
    /\ pc' = [pc EXCEPT ![h] = "answered"]
    /\ stack' = [stack EXCEPT ![h] = <<>>]
    /\ \/ /\ stack[h] = <<>>
          /\ answer' = [answer EXCEPT ![h] = Undecodable]
          /\ UNCHANGED registryVars
       \/ /\ stack[h] # <<>> /\ executor = "exporter"
          /\ LET v == Top(h)
             IN  \/ /\ v \in Objects
                    /\ \E id \in Ids :
                          /\ Register(v, id)
                          /\ answer' = [answer EXCEPT ![h] = Reference(id)]
                 \/ /\ v \notin Objects
                    /\ answer' = [answer EXCEPT ![h] =
                                     IF v = Coroutine THEN Thrown ELSE Value(v)]
                    /\ UNCHANGED registryVars
       \/ /\ stack[h] # <<>> /\ executor = "importer"
          /\ answer' = [answer EXCEPT ![h] = Top(h)]
          /\ UNCHANGED registryVars
    /\ UNCHANGED <<executor, passed, inner, start, chain, rest, called, begin>>

-------------------------------------------------------------------------------

Next ==
    \/ \E o \in Objects, id \in Ids : PassArgument(o, id)
    \/ \E h \in Handlers, id \in Known \cup {None}, ops \in Chains :
          Receive(h, id, ops)
    \/ \E h \in Handlers :
          \/ PushReference(h) \/ ExecuteGet(h) \/ ExecuteApply(h) \/ Resume(h)
          \/ ExecuteConstruct(h) \/ ExecuteRelease(h) \/ ExecuteUnknown(h)
          \/ Answer(h) \/ ReleaseAnswer(h)

Spec == Init /\ [][Next]_vars

-------------------------------------------------------------------------------
(* Properties *)

\* What a chain means for a local object: member access and calls from left to
\* right, ended by the first exception.
Local(v, op) ==
    IF v = Raises THEN Raises
    ELSE CASE op = "get"       -> GetMember(v)
           [] op = "apply"     -> IF v \in Objects THEN Applied[v] ELSE Raises
           [] op = "release"   -> None
           [] op = "unknown"   -> Raises
           [] op = "construct" -> IF v \in Async THEN Coroutine
                                  ELSE IF v \in Objects THEN Applied[v] ELSE Raises

\* The values that operations yield one after the other, from v on.
Course(v, ops) ==
    LET c[i \in 0..Len(ops)] == IF i = 0 THEN v ELSE Local(c[i - 1], ops[i])
    IN  c

Meaning(h) == Course(begin[h], chain[h])[Len(chain[h])]

\* An object and what a reference leads to, as far as the registry tells.
LeadsTo(id, o) ==
    \/ map[id] = o
    \/ {map[id], o} \subseteq WeakRefable /\ KeyOf[map[id]] = KeyOf[o]

\* Chains the executor can answer: not those without any instruction, and an
\* importer only calls.
Supported(h) ==
    IF executor = "exporter"
    THEN start[h] # None \/ chain[h] # <<>>
    ELSE chain[h] # <<>> /\ \A i \in DOMAIN chain[h] : chain[h][i] = "apply"

\* Awaiting a callback is a chain of nothing but a reference.  The importer
\* answers with that reference and does not count it; collecting the answer all
\* the same sends RELEASE.
Bare(h) == executor = "importer" /\ chain[h] = <<>>
LostTo(id) ==
    {h \in Handlers :
        Bare(h) /\ pc[h] = "released" /\ answer[h] = Reference(id)}
Counted(id) == {h \in Answered(id) : ~Bare(h)}

\* A remote chain answers what it means locally: the same value, a reference
\* that leads to the same object for as long as the other end holds it, or an
\* exception; whatever other handlers, releases and arguments did while it
\* waited.  A reference that leads nowhere any more, and a coroutine nobody
\* awaited, are answered by THROW.
AnswerMeans ==
    \A h \in Handlers : pc[h] = "answered" /\ Supported(h) =>
        LET m == IF begin[h] = None THEN Raises ELSE Meaning(h)
        IN  CASE m \in {Raises, Coroutine} -> answer[h] = Thrown
              [] m \in Objects -> /\ answer[h].kind = "reference"
                                  /\ LostTo(answer[h].id) = {} =>
                                         LeadsTo(answer[h].id, m)
              [] OTHER         -> answer[h] = Value(m)

\* What the importer has registered under an identifier and not got back.
Owed(id) ==
    passed[id] + inner[id] + Cardinality(Counted(id))
        + Cardinality({h \in Handlers : HasResult(h, id)})

\* The exporter counts exactly the references it has answered with and that
\* were not given back.  The importer counts besides, for ever, the arguments
\* it passed and the results inside chains, and loses one reference to every
\* awaited callback that is collected.
AnswersCounted ==
    \A id \in Ids :
        counts[id] = IF executor = "exporter"
                     THEN Cardinality(Answered(id))
                     ELSE IF Owed(id) > Cardinality(LostTo(id))
                          THEN Owed(id) - Cardinality(LostTo(id)) ELSE 0

\* A callback can be called for as long as it was passed more often than it was
\* awaited and the answer collected, whatever references to it were passed,
\* answered and released in between.
CallbacksStay ==
    executor = "importer" =>
        \A id \in Ids :
            passed[id] > Cardinality(LostTo(id)) => map[id] # None

\* Objects passed as arguments "are automatically registered and hydrated as
\* proxies on the other side" (README.md:10): a chain that starts with one finds
\* it.
ArgumentsResolve ==
    \A h \in Handlers : start[h] # None =>
        (passed[start[h]] > 0 => begin[h] # None)
===============================================================================
