# A TLA+ model of proxyables

proxyables is a peer-to-peer RPC library: a program exports an object on a byte
stream, the program at the other end imports it and uses it through proxies.
This directory holds TLA+ models of its core logic, the TLC configurations that
check them, and proofs of their main properties. Paths of code are relative to
the root of the repository.

## The system

| Part | Code | State | Operations |
|---|---|---|---|
| Object registry | `proxyables/registry.py` | `map` (id to object), `counts`, `weak_map` (object to id) | `register`, `get`, `delete` |
| Identifiers | `proxyables/muid.py` | `last_timestamp`, `counter` | `make` |
| Exporter | `proxyables/exported.py` | root object, registry, an importer of its own for callbacks | accept loop, one task per stream, `_execute` of EXECUTE and RELEASE |
| Importer and cursors | `proxyables/imported.py` | stream pool, registry of callback arguments, finalizers of cursors | build an instruction chain, `_execute` it, release a reference, serve callbacks |
| Stream pool | `proxyables/stream_pool.py` | `active_count`, `idle`, `pending` | `acquire`, `release` |
| Session and streams | `proxyables/yamux/session.py`, `stream.py` | stream table, accept queue, `running`; per stream a read queue and two flags | open, accept, read, write, close; the read loop |
| Codecs | `proxyables/encoder.py`, `decoder.py`, `types.py`, `instructions.py`, `yamux/frame.py` | none | msgpack, frame header |
| Transport, facade | `proxyables/transport.py`, `proxyable.py`, `__init__.py` | none | adapt asyncio streams; wire a session to an exporter or importer |
| Parity agent | `parity/agent.py` | one registry for all clients of its server; test fixtures | scenarios for a cross-language harness; a driver that watches the registry of the server |

All code runs on asyncio event loops: a task runs without interruption from one
`await` to the next, and everything that can interleave does so at an `await`.
A call goes: cursor -> pool (a stream) -> stream -> session -> wire -> session
of the peer -> accept queue -> a handler task of the exporter -> registry, and
back on the same stream. A finalizer sends RELEASE on a stream of its own. What
is hard:

- *Reference counting over a network*: the exporter counts references that
  peers hold; registration, reply, garbage collection, release, cancelled
  callers and lost connections interleave.
- *The pool*: a slot is taken before an `await`, waiters are served by
  `release` or by background tasks, callers may be cancelled anywhere.
- *Nested calls*: a handler may call back before it answers, and each side takes
  the streams for its calls from a pool of its own, which is limited.
- *The session*: two ends close streams, sessions and transports independently;
  `close()` awaits in the middle; one queue per stream carries data and end
  markers.
- *Identifiers*: they must not repeat, on a clock that is not monotone.

## Modules

| Module | Models | Correspondence |
|---|---|---|
| `ObjectRegistry` | the registry | one variable per dictionary; `None` and 0 stand for absent keys. `Retain`/`Enter` are the two ways through `register`, `ReleaseOne`/`Remove` those through `delete`. `KeyOf` gives the equality class by which a `WeakKeyDictionary` finds a key; objects outside `WeakRefable` raise `TypeError` there |
| `ReferenceContract` | what distributed garbage collection promises | an abstract specification without registry, counts or messages: an entry is collected only when nobody holds it, and does not come back |
| `RemoteReferences` (extends `ObjectRegistry`) | exporter, importers and the connections between them, as far as references go | one `phase` per call from the cursor that is built to the RELEASE that ends its reference; see the head of the module |
| `StreamPool` | the pool and its use by `ProxyCursor._execute` | `pc` is where a call's task stands; every action runs from one `await` to the next, `ProcessPending` is the loop of `_process_pending` including the `InvalidStateError` of a cancelled future. `Lost` are the calls that were cut off where the code gives no slot back |
| `CallPath` (two instances of `StreamPool`) | a connection with calls both ways | the pool of the importer and that of the exporter's own importer are instances of `StreamPool`; `handler` is where the task at the other end stands, `within` says in whose handler a call is made, `made` which of its calls a handler has made. A handler may make several, one after the other or at once. `Release` of the pool is part of `End` and of `Abandon` |
| `YamuxSession` | both sessions on a connection and their streams | a frame kind per handler of the read loop; `CloseSession`/`FinishClose` are `close()` before and after its `await`, `CloseStream`/`QueueMarker` those of `Stream.close`, `BeginRead`/`EndRead` those of `read` |
| `StreamContract` | what a stream promises | an abstract specification without frames, tables, queues and markers: an ordered channel each way, closed at one end or the other, and cut by a reset or the end of a session |
| `Executor` (extends `ObjectRegistry`) | the stack machines that execute instruction chains: `_execute` of the exporter, `_execute_incoming` of the importer | a handler per request; one action per instruction kind, `ExecuteApply`/`Resume` are an APPLY before and after the `await` of a coroutine function, `Answer` is `_create_value` and the reply, `PassArgument` is `_create_value` in `__call__`. `executor` picks the side; where the two differ, the difference is a disjunct |
| `Muid` | `MUIDGenerator.make` | an identifier is the pair of timestamp and counter |
| `ParityDriver` (extends `ObjectRegistry`) | the server of the parity agent, whose connections share one registry, and the driver's scenarios of garbage collection | `Strangers` are the other clients; `step` is where `drive` stands, `Observe`/`Judge` are the two halves of `poll_until`: the state is read on a connection of its own and judged later |
| `ObjectRegistryProofs`, `RemoteReferencesProofs`, `StreamPoolProofs`, `CallPathProofs`, `YamuxSessionProofs`, `ExecutorProofs`, `MuidProofs`, `ParityDriverProofs` | theorems about them | |
| `MC...` | instances for TLC | |

Operators introduced by "A mistake to catch" are wrong variants of the
definition that follows each of them. Putting one in its place shows that a
property notices the mistake; they are not part of the model.

### Abstractions

- Values are model values. Objects differ only in equality, identity and
  whether they can be weak keys; payloads are the numbers of the writes.
- `RemoteReferences` has no frames. Requests of one connection may be executed
  in any order, because two tasks may open their streams in one order and write
  in the other, and each request has its own handler task. One order is kept:
  a RELEASE opens its stream after the finalizer has run, so it stays behind
  every request that was written before (`ahead`). That rests on the session
  delivering SYN frames in order and the event loop starting handler tasks in
  the order they were created; `YamuxSession` shows the first.
- In `CallPath` a stream delivers: that it does is what `YamuxSession` shows. Each
  call of a handler has a name of its own and is made once while that handler runs,
  and a call is made anew only when the handler of its last one is through (bounds
  of the model: a handler is named by its call).
- `ObjectRegistry` takes it that `muid()` never returns an identifier twice (the
  guard of `Enter`, `NextIds` in `ParityDriver`), and so do all properties of
  references. `Muid` models the generator and shows when that holds: as long as the
  clock is not set back during an overflow.
- The exporter's lookup happens when the request is read. A chain of several
  instructions is one call: the handler holds the target while it runs. What a
  chain does step by step is in `Executor`.
- In `Executor` the result of a GET or of a call depends on the object only
  (`Member`, `Applied`); arguments, and functions that change what they return,
  are left out but for what their registration does to a registry. Everything
  between two awaits runs at once (`LoopIsFree`). The other end sends any chain on
  any reference it has ever seen, also after it released it.
- `write_lock` serves its waiters in order, so a frame is on the wire when its
  `write_frame` is called. Handling a frame is one step: the only `await`s in it
  are a put into an unbounded queue and the answer to PING.
- The transport carries bytes in order or breaks. A frame is a record: the codec
  is not modelled.
- In `YamuxSession` a peer written in another language may also send RST, PING
  and GO_AWAY, which this code handles and never sends itself.
- In `StreamPool` `Streams` are recycled once nobody holds them, so that calls
  may go on for ever.

## What the runs check

| Run | Question and answer |
|---|---|
| `references` | Two peers, cancelled callers, lost connections: is every count the number of outstanding references, does every held reference resolve, does a call written while its cursor is held find its target, and does all this implement `ReferenceContract`? Yes |
| `references_live` | Is an entry nobody refers to removed in the end, when callers give up and connections are lost? Yes, but for the entries whose own reference was lost with a caller or a connection: nothing releases those |
| `references_derived` | Does every use of a derived cursor find its object? No: `p = (await root.make()).name` keeps no reference to the cursor whose finalizer releases the object, and awaiting `p` later fails with "Object ... not found" |
| `pool` | Is the count right, does nobody wait while a slot or a stream is free, is a stream with one call only? Yes, with every fault and for both values of `reuse`: the count is the number of streams in use plus one for each call that was cut off without giving its slot back. Does every waiter get a stream? Yes, whoever is cancelled and also when the session is lost, unless the task that opens its stream failed or as many calls lost a slot as the pool has |
| `pool_limit` | Does the pool keep to `max_streams`? No, with `reuse=False` (what the importer passes): the first free slot starts a background task for every waiter, and the count rises only when those start |
| `session` | Is what one end writes read once and in order, does end of stream mean that all was read, is every reader of a closed session released, and does all this implement `StreamContract`? Yes, also with a close at either end and a broken connection |
| `session_live` | Does the end of a stream or a session reach the other side? Yes, also through RST, GO_AWAY and a broken connection |
| `callpath` | Does every call end, and every handler, also one nobody waits for any more, however calls are nested in handlers and whoever gives up? Yes as long as, in one direction at least, the calls that lead to a call back cannot take every stream; nothing else stops a connection |
| `executor` | Does a chain answer what it means for a local object, whatever other handlers, releases and arguments do while it awaits? Yes. Is every count what was passed and answered and not given back, and does a callback stay callable? Yes, but for the callbacks that the other end awaits (below) |
| `executor_arguments` | Can a callback use the objects the server passes to it? No: the exporter registers them in a registry that no handler looks into |
| `parity` | Do the three dictionaries stay consistent, and does a reference lead to (an object equal to) what was registered, for any sequence of `register` and `delete` by clients that share a registry? Yes; it may be an equal object that is another one: `WeakKeyDictionary` compares with `==`. Is what the driver among them reports as released gone, and does it come to a report? Yes, unless an older entry goes meanwhile |
| `muid` | Are identifiers unique, does every wait end? Unique until a wait for the next millisecond ends in an earlier one, which needs a clock that is set back during an overflow; the wait ends |

Other behaviour that the models have, reached by changing the constants of a
run or dropping a condition of a property:

- `references_live` without `LostReference` in `EventuallyCollected`: the reference
  in the reply to a cancelled call, or in one that cannot be written, is never
  released, nor is one whose RELEASE is lost with its connection; nothing tells the
  registry that a peer is gone, and the entry stays in `map`.
- `pool` without the exceptions of `WaiterServed`: a waiter whose background
  `open_stream` fails waits for ever, and once every slot is lost to calls that were
  cancelled inside `acquire`, so do all later callers.
- `pool` with `reuse` keeps streams that the peer closes while they are idle, and
  `AcquireIdle` hands them out unseen. The importer passes `reuse=False`.
- `callpath` without `Roomy` in `CallsEnd`: with two streams each way, one call that
  is nested until client and server have made two each that wait for a further one
  stops the connection for good; so do calls back that call again on both sides.
- `parity` without `~Disturbed` in `ReportTruthful`: a RELEASE of an earlier
  scenario that gave up arrives late, the totals come down to the baseline, and a
  reference still held is reported as released. The driver itself leaves the
  reference to every scripted result counted (`RunScripted`).
- `muid` with `MaxStepBacks` above 0: `UniqueIds` fails.

`Executor` names what the code answers otherwise than locally or keeps for ever. A
server that awaits its callback (a chain of nothing but a reference, `Bare`) gets
that reference back uncounted, so that collecting the answer takes away one of the
references the argument was passed with, at last the callback itself. The importer
registers the result of every call of a chain and so keeps all but the last
(`inner`), as both programs keep what they pass as arguments (`passed`); it refuses
every instruction but a call; a chain without instructions is answered with a RETURN
that cannot be decoded.

### Bounds

- `parity`: two equal objects of other clients and the shared dict, four
  identifiers, two references per entry, two scenarios: enough for an entry to be
  shared, released, entered anew and released late, and for a second scenario to
  begin while a RELEASE of the first is on its way. Identifiers are given out in
  one order.
- `references`: three calls over two peers and three identifiers (symmetric),
  enough for two peers to share an entry while a third reference is derived,
  dropped or lost. `references_live` has two peers and three calls too, and one object,
  which is registered once however often it is returned, so that references of
  several calls meet in one entry and some of them are lost.
- `pool`: three calls; with one slot a holder, two waiters, background openers and
  new callers compete, with two slots one may be lost and the other must still
  serve. Three streams never run out: no more calls than that hold one.
- `callpath`: three calls of the client and two of the server over two streams each
  way, in five nestings: `MCCallPath` says what each is for.
- `session`: one stream, two payloads one way and one the other; streams share
  nothing but the table and the wire. The stream is the client's in `session` and
  the server's in `session_live`. Two streams at once exceed the time of a run.
- `executor`: three requests, enough for one to await while a second answers and
  a third one, or a RELEASE, removes what it was started with; chains of up to
  two instructions after the reference, of every kind; three identifiers; an
  object passed up to twice.
- `muid`: a counter of three values, milliseconds -2 to 3, two step backs.

### Fairness

The event loops run every task that is ready, and the code has no loop that
keeps others from running; so each task that can go on does (weak fairness of
its step). In `RemoteReferences` that covers handlers, replies and release
tasks and assumes that exported functions end; nothing makes a program await or
drop a cursor. In `StreamPool` calls end,
nobody has to call, and an open that was started returns. In `CallPath` handlers end
once the calls they make have, and nobody has to call or to give up. In
`ParityDriver` the driver polls and the server executes what arrives; no deadline
has to come. In `YamuxSession` only the read loop and a closing session
have to go on: nobody has to read, write or accept. In `Muid` time passes, and a
waiting `make` reads the clock again; the clock is set back finitely often.

## What is proved

TLAPS proves every invariant that a passing run checks, every action property but
those of fairness, and the refinement, each for every value of the constants. The
assumptions on the constants are the named ones of the modules: finite sets of
calls, handlers and (in `ParityDriver`) identifiers, a limit of at least one stream,
`None` no value. Each inductive invariant below was checked by TLC before it was
proved.

- `ObjectRegistryProofs`: the registry is consistent after any sequence of calls
  (`RegistryConsistent`), references lead to equal objects (`ReferencesAreEqual`). The invariant
  `RegistryInv` (types, `CountedIffMapped`, `KeysMatchEntries`) is inductive as it
  stands; that each operation keeps it is a lemma of its own, used again below.
  That identifiers never repeat is not proved here but assumed, by the guard of
  `Enter`; `MuidProofs` has what can be said of `muid()`.
- `RemoteReferencesProofs`: types, the balance of counts (`CountsBalance`), that
  held references resolve (`ReferencesResolve`). The inductive invariant adds to the
  registry's that a counted call has an identifier and that each count is the
  cardinality of the calls counted under it. All steps but two leave both sides of
  that equation alone (`UncountedStep`); `ReturnReference` adds one call to the set
  and `ReceiveRelease` takes one away. A positive cardinality then gives a positive
  count, and the registry's invariant an object. For calls written while their cursor
  was live (`HeldUsesResolve`) the target of the call must be kept until it arrives:
  its cursor is live, or its RELEASE is behind the call (`HeldTargets`). `ContractKept`
  takes each step to a step of `ReferenceContract` or to none: an entry is collected
  when its count reaches 0, so by the balance nobody holds it.
- `StreamPoolProofs`: the count is exact (`CountIsRight`), nobody waits while
  something is free (`WakeupsAreNotLost`), no stream is with two calls
  (`StreamsAreExclusive`). The three need each other and two more: a waiter is in one
  place only (`Queued`), and a call has a stream exactly when it was granted one
  (`Held`). That every slot counted is in use or was lost with one call of its own
  (`Counts`) makes the count exact at each of the many steps that fail. The longest
  proof is that of `release`, whose loop hands out several slots in one step.
  Without faults every waiter is in the queue of a full pool or has a task that will
  serve it (`WaitersAreAttended`), so no call loses its slot then; `CallPath` needs
  that.
- `CallPathProofs`: every step of a connection is a step of each pool or leaves it
  alone, so what `StreamPoolProofs` shows holds of both (`ClientPoolInv`,
  `ServerPoolInv`). `NestingAloneBlocks` is freedom from deadlock up to full pools:
  when nothing can happen and some call has not ended, the calls that lead to a call
  back hold every stream both ways. Its core is `NoCircle`, that calls which would each
  be made in the handler of another never begin, and that of a finite set of calls that
  wait for each other without a circle one can go on.
- `YamuxSessionProofs`: types, with odd and even stream identifiers
  (`SessionTypesKept`); readers are released (`ReadersAreReleased`): a stream some
  task has is in the table or was ended (`Listed`), an ended stream has a marker for its
  reader (`Told`). Nothing is lost (`NothingIsLost`) and reads are a beginning of the
  writes (`ReadsArePrefixes`): `WireInv` says that a payload on the wire comes behind the
  SYN and before an RST of its stream, and that a stream that was announced is
  in the table of who announced it, so each payload finds its stream; `FlowInv` says
  that what is read, queued and on the wire is `<<1, 2, ...>>`, as long as what was
  written while the connection holds. End of stream means that all was read
  (`EndsMeanAll`): by `EndInv` no payload is on the wire behind a FIN, nor in the queue
  behind a marker. `StreamsKeepContract` puts these together: every step is one of
  `StreamContract` or none, because the payload at the head of a queue is the next of
  `FlowInv`, and who reads an end may (`EofMeansAll` after the step).
- `ExecutorProofs`: types (`ExecutorTypesKept`), the counts of all references that
  answers, arguments and chains bring about (`EveryReferenceCounted`), that callbacks
  stay (`PassedCallbacksStay`), and that a chain of any length answers what it means
  (`ChainsMeanWhatTheySay`). The last one takes a hypothesis on the importer's side:
  equal objects are called alike, because the registry may hold an equal object in
  place of the one passed (`ReferenceIsEqual`); of the exporter nothing is assumed.
- `ParityDriverProofs`: the shared registry (`SharedRegistryConsistent`,
  `SharedReferencesEqual`), and that a report of released
  references is true (`ReportsAreTruthful`): nothing the driver polls for can enter the
  registry behind its back, so the number it read last bounds what is left.
- `MuidProofs`: identifiers are unique until a wait ends in an earlier
  millisecond (`UniqueUntilRegress`), and always on a clock that is not set back
  (`UniqueIfMonotone`), for every width of the counter. Everything made so far
  sorts at or before the generator's position, and every step moves it on.

The prover cannot take an induction rule with a predicate as its parameter.
Where a fact is about sequences of any length (`Picked` in the session, `Course` in the
executor) the proof takes the least counterexample (`WFMin` on
the natural numbers) and shows that a smaller one exists.

Only model-checked, because they need fairness, which the prover does not handle:
`EventuallyCollected`, `WaiterServed`, `CallsEnd`, `CloseReachesPeer`,
`CloseEndsBoth`, `EventuallyReported`, `WaitReturns`. The three violations are
counterexamples and so only TLC's.

## Not modelled

- `read_message`: this library writes a message with one `write`, so as one frame
  that one `read` returns, and one call at a time uses a stream. So the models take
  one message for one payload. (A second message in the same chunk is dropped.)
- The messages in which arguments travel: `Executor` has their registration and what
  becomes of their references, not the order of the calls that carry them.
- Codecs, transport and facade: no state and no order of events.
- The rest of the parity agent: benchmarks, the bridge to other languages, its
  arguments and its JSON lines; the fixture's scripted scenarios compute fixed
  dicts in one step.
- `Session.streams` grows with every stream, since only RST and `close()` remove
  entries; stream identifiers are packed into 32 bits; accept loops wait for ever
  after `close()`. These are facts of resource use and show in no property.
- The machine part of an identifier: a registry compares only identifiers that
  its own process made.

## Plan

1. The safety half of liveness as theorems, as `WaitersAreAttended` and
   `NestingAloneBlocks` are: in every state where a property of liveness is still
   open, some step that is fair can be taken.
2. `CallPath` over the channels of `StreamContract`, which may be cut, in place of
   streams that always deliver.
