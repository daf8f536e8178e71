--------------------------- MODULE StreamPoolProofs ---------------------------
(***************************************************************************)
(* Proofs about StreamPool, for every set of calls, limit and way of using *)
(* the pool.  The three invariants of the pool need each other:            *)
(* _process_pending hands over as it should because at most one stream is  *)
(* idle when somebody waits (NoLostWakeup), the count stays exact because  *)
(* a waiter is in one place only (Queued), and nobody is handed a stream   *)
(* somebody has because streams are with calls that use them (Held).       *)
(***************************************************************************)
EXTENDS StreamPool, FiniteSetTheorems, SequenceTheorems, TLAPS

\* Calls that have a stream are those that were granted one or hold it.
Held == \A c \in Calls : stream[c] # NoStream <=> pc[c] \in {"granted", "holding"}

Waiters == {c \in Calls : pc[c] \in {"waiting", "cancelled"}}

\* Who is queued or has a task that opens a stream for him waits, in one place.
Queued ==
    /\ Elements(pending) \cup spawned \cup resolving \subseteq Waiters
    /\ Elements(pending) \cap spawned = {}
    /\ Elements(pending) \cap resolving = {}
    /\ spawned \cap resolving = {}
    /\ \A i, j \in DOMAIN pending : i # j => pending[i] # pending[j]

\* What faults and the reuse of streams alone bring about.
Modes ==
    /\ ~faulty => up /\ \A c \in Calls : pc[c] \notin {"failed", "cancelled"}
    /\ ~reuse => idle = <<>>

\* Every slot counted is in use or was lost with a call of its own.
Counts == active_count = SlotsInUse + Cardinality(Lost)

IInv == /\ PoolTypeOK /\ Held /\ Queued /\ Modes
        /\ Counts /\ NoLostWakeup /\ ExclusiveHold

-------------------------------------------------------------------------------
(* Sequences *)

LEMMA AppendElements ==
    ASSUME NEW S, NEW q \in Seq(S), NEW e \in S
    PROVE  /\ Append(q, e) \in Seq(S)
           /\ Len(Append(q, e)) = Len(q) + 1
           /\ Elements(Append(q, e)) = Elements(q) \cup {e}
           /\ (\A i, j \in DOMAIN q : i # j => q[i] # q[j]) /\ e \notin Elements(q)
              => \A i, j \in DOMAIN Append(q, e) :
                    i # j => Append(q, e)[i] # Append(q, e)[j]
  <1> DEFINE a == Append(q, e)
  <1>1. /\ a \in Seq(S)
        /\ DOMAIN q = 1..Len(q) /\ DOMAIN a = 1..Len(a) /\ Len(q) \in Nat
        /\ Len(a) = Len(q) + 1
        /\ \A i \in 1..Len(q) : a[i] = q[i]
        /\ a[Len(q) + 1] = e
    BY AppendProperties, LenProperties
  <1>2. \A i \in DOMAIN a : i \in DOMAIN q \/ i = Len(q) + 1
    BY <1>1
  <1> HIDE DEF a
  <1>3. Elements(a) = Elements(q) \cup {e}
    BY <1>1, <1>2 DEF Elements
  <1>4. ASSUME \A i, j \in DOMAIN q : i # j => q[i] # q[j], e \notin Elements(q),
               NEW i \in DOMAIN a, NEW j \in DOMAIN a, i # j
        PROVE  a[i] # a[j]
    BY <1>1, <1>2, <1>4 DEF Elements
  <1> QED
    BY <1>1, <1>3, <1>4 DEF a

LEMMA FrontElements ==
    ASSUME NEW S, NEW q \in Seq(S), q # <<>>,
           \A i, j \in DOMAIN q : i # j => q[i] # q[j]
    PROVE  /\ Front(q) \in Seq(S)
           /\ Len(Front(q)) = Len(q) - 1
           /\ Last(q) \in Elements(q)
           /\ Elements(Front(q)) = Elements(q) \ {Last(q)}
           /\ \A i, j \in DOMAIN Front(q) : i # j => Front(q)[i] # Front(q)[j]
  <1>1. Len(q) \in Nat \ {0} /\ DOMAIN q = 1..Len(q)
    BY EmptySeq, LenProperties
  <1>2. \A i \in 1..(Len(q) - 1) : q[i] \in S
    BY <1>1, ElementOfSeq
  <1>3. /\ Front(q) \in Seq(S)
        /\ Len(Front(q)) = Len(q) - 1
        /\ \A i \in 1..(Len(q) - 1) : Front(q)[i] = q[i]
    BY <1>1, <1>2, SubSeqProperties DEF Front
  <1>4. DOMAIN Front(q) = 1..(Len(q) - 1)
    BY <1>3, LenProperties
  <1>5. Last(q) \in Elements(q)
    BY <1>1 DEF Last, Elements
  <1>6. Elements(Front(q)) = Elements(q) \ {Last(q)}
    BY <1>1, <1>3, <1>4 DEF Elements, Last
  <1> QED
    BY <1>1, <1>3, <1>4, <1>5, <1>6

LEMMA TailElements ==
    ASSUME NEW S, NEW q \in Seq(S), q # <<>>,
           \A i, j \in DOMAIN q : i # j => q[i] # q[j]
    PROVE  /\ Tail(q) \in Seq(S)
           /\ Head(q) = q[1] /\ q[1] \in Elements(q)
           /\ Elements(Tail(q)) = Elements(q) \ {Head(q)}
           /\ \A i, j \in DOMAIN Tail(q) : i # j => Tail(q)[i] # Tail(q)[j]
  <1>1. Len(q) \in Nat \ {0} /\ DOMAIN q = 1..Len(q)
    BY EmptySeq, LenProperties
  <1>2. /\ Tail(q) \in Seq(S)
        /\ Len(Tail(q)) = Len(q) - 1
        /\ \A i \in 1..Len(Tail(q)) : Tail(q)[i] = q[i + 1]
    BY HeadTailProperties
  <1>3. DOMAIN Tail(q) = 1..(Len(q) - 1)
    BY <1>2, LenProperties
  <1>4. Head(q) = q[1]
    BY <1>1
  <1>5. q[1] \in Elements(q)
    BY <1>1 DEF Elements
  <1>6. Elements(Tail(q)) = Elements(q) \ {Head(q)}
    <2>1. ASSUME NEW x \in Elements(q) \ {Head(q)} PROVE x \in Elements(Tail(q))
      <3>1. PICK i \in DOMAIN q : x = q[i]
        BY DEF Elements
      <3>2. i # 1
        BY <1>4, <2>1, <3>1
      <3>3. i - 1 \in DOMAIN Tail(q) /\ Tail(q)[i - 1] = x
        BY <1>1, <1>2, <1>3, <3>1, <3>2
      <3> QED
        BY <3>3 DEF Elements
    <2>2. ASSUME NEW x \in Elements(Tail(q)) PROVE x \in Elements(q) \ {Head(q)}
      <3>1. PICK i \in DOMAIN Tail(q) : x = Tail(q)[i]
        BY DEF Elements
      <3>2. i + 1 \in DOMAIN q /\ i + 1 # 1 /\ 1 \in DOMAIN q /\ q[i + 1] = x
        BY <1>1, <1>2, <1>3, <3>1
      <3> QED
        BY <1>4, <3>2 DEF Elements
    <2> QED
      BY <2>1, <2>2
  <1> QED
    BY <1>1, <1>2, <1>3, <1>4, <1>5, <1>6

-------------------------------------------------------------------------------
(* _process_pending.  At most one stream is idle when somebody waits. *)

\* Nobody waits.
LEMMA ProcessNone ==
    ASSUME pending = <<>>, NEW I \in Seq(Streams), NEW n \in Int
    PROVE  /\ ProcessPending(I, n).idle = I
           /\ ProcessPending(I, n).pending = <<>>
           /\ ProcessPending(I, n).spawned = {}
           /\ DOMAIN ProcessPending(I, n).granted = {}
  <1>1. Len(pending) = 0 /\ Len(I) \in Nat
    BY EmptySeq, LenProperties
  <1>2. Paired(I) = 0
    BY <1>1 DEF Paired
  <1>3. Raises(I) = {} /\ Taken(I) = 0
    BY <1>2 DEF Raises, Taken
  <1>4. Served(I) = {}
    BY <1>3 DEF Served
  <1>5. Rest(I) = <<>> /\ SubSeq(I, 1, Len(I) - Taken(I)) = I
    BY <1>1, <1>3, SubSeqEmpty, SubSeqFull DEF Rest
  <1>6. Elements(<<>>) = {}
    BY DEF Elements
  <1> QED
    BY <1>4, <1>5, <1>6 DEF ProcessPending

\* Somebody waits and no stream is idle.
LEMMA ProcessDry ==
    ASSUME PoolTypeOK, pending # <<>>, NEW n \in Int
    PROVE  /\ ProcessPending(<<>>, n).idle = <<>>
           /\ ProcessPending(<<>>, n).pending = IF SlotFree(n) THEN <<>> ELSE pending
           /\ ProcessPending(<<>>, n).spawned =
                  IF SlotFree(n) THEN Elements(pending) ELSE {}
           /\ DOMAIN ProcessPending(<<>>, n).granted = {}
  <1>1. Len(pending) \in Nat \ {0} /\ Len(<<>>) = 0
    BY EmptySeq DEF PoolTypeOK
  <1>2. Paired(<<>>) = 0
    BY <1>1 DEF Paired
  <1>3. Raises(<<>>) = {} /\ Taken(<<>>) = 0
    BY <1>2 DEF Raises, Taken
  <1>4. Served(<<>>) = {}
    BY <1>3 DEF Served
  <1>5. Rest(<<>>) = pending /\ SubSeq(<<>>, 1, Len(<<>>) - Taken(<<>>)) = <<>>
    BY <1>1, <1>3, SubSeqEmpty, SubSeqFull DEF Rest, PoolTypeOK
  <1>6. Spawns(<<>>, n) <=> SlotFree(n)
    BY <1>1, <1>3 DEF Spawns
  <1> QED
    BY <1>4, <1>5, <1>6 DEF ProcessPending

\* Somebody waits, one stream is idle and no slot is free: the first waiter gets
\* it, and if he was cancelled it is lost.
LEMMA ProcessOne ==
    ASSUME PoolTypeOK, pending # <<>>, NEW I \in Seq(Streams), Len(I) = 1,
           NEW n \in Int, ~SlotFree(n)
    PROVE  /\ ProcessPending(I, n).idle = <<>>
           /\ ProcessPending(I, n).pending = Tail(pending)
           /\ ProcessPending(I, n).spawned = {}
           /\ IF IsCancelled(pending[1])
              THEN DOMAIN ProcessPending(I, n).granted = {}
              ELSE /\ DOMAIN ProcessPending(I, n).granted = {pending[1]}
                   /\ ProcessPending(I, n).granted[pending[1]] = I[1]
  <1>1. Len(pending) \in Nat \ {0}
    BY EmptySeq DEF PoolTypeOK
  <1>2. Paired(I) = 1
    <2>1. Len(I) < Len(pending) \/ Len(pending) = 1
      BY <1>1
    <2> QED
      BY <2>1 DEF Paired
  <1>3. Taken(I) = 1
    <2>1. CASE Raises(I) = {}
      BY <1>2, <2>1 DEF Taken
    <2>2. CASE Raises(I) # {}
      <3>1. Raises(I) = {1}
        BY <1>2, <2>2 DEF Raises
      <3>2. (CHOOSE i \in {1} : \A j \in {1} : i <= j) = 1
        OBVIOUS
      <3> QED
        BY <3>1, <3>2 DEF Taken
    <2> QED
      BY <2>1, <2>2
  <1>4. Rest(I) = Tail(pending) /\ SubSeq(I, 1, Len(I) - Taken(I)) = <<>>
    BY <1>3, TailIsSubSeq, SubSeqEmpty DEF Rest, PoolTypeOK
  <1>5. ~Spawns(I, n)
    BY DEF Spawns
  <1>6. CASE IsCancelled(pending[1])
    <2>1. Served(I) = {}
      BY <1>3, <1>6 DEF Served
    <2> QED
      BY <1>4, <1>5, <1>6, <2>1 DEF ProcessPending
  <1>7. CASE ~IsCancelled(pending[1])
    <2>1. Served(I) = {1}
      BY <1>3, <1>7 DEF Served
    <2>2. {pending[i] : i \in {1}} = {pending[1]}
      OBVIOUS
    <2>3. (CHOOSE i \in {1} : pending[i] = pending[1]) = 1
      OBVIOUS
    <2> QED
      BY <1>4, <1>5, <1>7, <2>1, <2>2, <2>3 DEF ProcessPending
  <1> QED
    BY <1>6, <1>7

-------------------------------------------------------------------------------
(* What one release comes to *)

\* Nobody else's call changes.
Leaves(c) ==
    /\ pc' = [pc EXCEPT ![c] = "ready"]
    /\ stream' = [stream EXCEPT ![c] = NoStream]

\* Nobody waits: the stream is idle, or its slot is free.
ToPool(c) ==
    /\ pending = <<>> /\ pending' = <<>> /\ spawned' = spawned
    /\ idle' = IF Keeps(stream[c]) THEN Append(idle, stream[c]) ELSE idle
    /\ active_count' = IF Keeps(stream[c]) THEN active_count ELSE active_count - 1
    /\ Leaves(c)

\* The stream goes to the first waiter.
ToWaiter(c, w) ==
    /\ w = pending[1] /\ ~IsCancelled(w)
    /\ pending' = Tail(pending) /\ spawned' = spawned
    /\ active_count' = active_count
    /\ pc' = [pc EXCEPT ![c] = "ready", ![w] = "granted"]
    /\ stream' = [stream EXCEPT ![c] = NoStream, ![w] = stream[c]]

\* It is lost with a first waiter who was cancelled.
ToNobody(c, w) ==
    /\ w = pending[1] /\ IsCancelled(w)
    /\ pending' = Tail(pending) /\ spawned' = spawned
    /\ active_count' = active_count
    /\ Leaves(c)

\* The stream is closed, and every waiter gets a task that opens one.
ToTasks(c) ==
    /\ pending' = <<>> /\ spawned' = spawned \cup Elements(pending)
    /\ active_count' = active_count - 1
    /\ Leaves(c)

\* The stream is closed, and no slot is free even now.
ToNext(c) ==
    /\ pending' = pending /\ spawned' = spawned
    /\ active_count' = active_count - 1 /\ active_count' >= max_streams'
    /\ Leaves(c)

LEMMA ReleaseOutcomes ==
    ASSUME IInv, NEW c \in Calls, Release(c)
    PROVE  /\ UNCHANGED <<max_streams, reuse, resolving, remote_closed, world>>
           /\ pc[c] = "holding" /\ stream[c] \in Streams
           /\ \/ ToPool(c)
              \/ /\ pending # <<>> /\ idle = <<>> /\ idle' = <<>>
                 /\ \/ Keeps(stream[c]) /\ \E w \in Calls \ {c} :
                          w \in Elements(pending)
                          /\ (ToWaiter(c, w) \/ ToNobody(c, w))
                    \/ ToTasks(c)
                    \/ ToNext(c)
  <1> DEFINE keep == Keeps(stream[c])
             I == IF keep THEN Append(idle, stream[c]) ELSE idle
             n == IF keep THEN active_count ELSE active_count - 1
             P == ProcessPending(I, n)
  <1>1. /\ pc[c] = "holding"
        /\ active_count' = n
        /\ idle' = P.idle
        /\ pending' = P.pending
        /\ spawned' = spawned \cup P.spawned
        /\ pc' = [t \in Calls |-> CASE t = c                  -> "ready"
                                    [] t \in DOMAIN P.granted -> "granted"
                                    [] OTHER                  -> pc[t]]
        /\ stream' = [t \in Calls |-> CASE t = c                  -> NoStream
                                        [] t \in DOMAIN P.granted -> P.granted[t]
                                        [] OTHER                  -> stream[t]]
        /\ UNCHANGED <<max_streams, reuse, resolving, remote_closed, world>>
    BY Zenon DEF Release
  <1>2. stream[c] \in Streams /\ idle \in Seq(Streams) /\ active_count \in Nat
    BY <1>1 DEF IInv, PoolTypeOK, Held
  <1>3. I \in Seq(Streams) /\ n \in Int
    BY <1>2, AppendProperties
  <1>4. ASSUME DOMAIN P.granted = {} PROVE Leaves(c)
    <2>1. pc' = [t \in Calls |-> IF t = c THEN "ready" ELSE pc[t]]
      BY <1>1, <1>4, Zenon
    <2>2. stream' = [t \in Calls |-> IF t = c THEN NoStream ELSE stream[t]]
      BY <1>1, <1>4, Zenon
    <2> QED
      BY <2>1, <2>2 DEF Leaves, IInv, PoolTypeOK
  <1> HIDE DEF P
  <1>5. CASE pending = <<>>
    <2>1. P.idle = I /\ P.pending = <<>> /\ P.spawned = {} /\ DOMAIN P.granted = {}
      <3> HIDE DEF I, n
      <3> QED
        BY <1>3, <1>5, ProcessNone DEF P
    <2> QED
      BY <1>1, <1>2, <1>4, <1>5, <2>1 DEF ToPool
  <1>6. CASE pending # <<>>
    <2>1. idle = <<>> /\ active_count >= max_streams
      BY <1>6 DEF IInv, NoLostWakeup
    <2>2. pending[1] \in Elements(pending)
      BY <1>6, TailElements DEF IInv, PoolTypeOK, Queued
    <2>3. pending[1] \in Calls \ {c}
      BY <1>1, <2>2 DEF IInv, Queued, Waiters
    <2>4. CASE keep
      <3>1. Len(I) = 1 /\ I[1] = stream[c] /\ ~SlotFree(n)
        <4>1. Len(idle) = 0
          BY <2>1, EmptySeq
        <4>2. Len(I) = 1 /\ I[1] = stream[c]
          BY <1>2, <2>4, <4>1, AppendProperties
        <4>3. n = active_count
          BY <2>4
        <4> QED
          BY <1>2, <2>1, <4>2, <4>3, PoolAssumption DEF SlotFree, IInv, PoolTypeOK
      <3>2. /\ P.idle = <<>> /\ P.pending = Tail(pending) /\ P.spawned = {}
            /\ IF IsCancelled(pending[1])
               THEN DOMAIN P.granted = {}
               ELSE /\ DOMAIN P.granted = {pending[1]}
                    /\ P.granted[pending[1]] = stream[c]
        <4> HIDE DEF I, n
        <4> QED
          BY <1>3, <1>6, <3>1, ProcessOne DEF IInv, P
      <3>3. CASE IsCancelled(pending[1])
        BY <1>1, <1>2, <1>4, <1>6, <2>1, <2>2, <2>3, <2>4, <3>2, <3>3
           DEF ToNobody
      <3>4. CASE ~IsCancelled(pending[1])
        <4> DEFINE w == pending[1]
        <4>0. /\ \A t : t \in DOMAIN P.granted <=> t = w
              /\ P.granted[w] = stream[c]
          BY <3>2, <3>4
        <4> HIDE DEF w
        <4>1. pc' = [t \in Calls |-> IF t = c THEN "ready"
                                     ELSE IF t = w THEN "granted" ELSE pc[t]]
          <5>1. ASSUME NEW t \in Calls
                PROVE  (CASE t = c                  -> "ready"
                          [] t \in DOMAIN P.granted -> "granted"
                          [] OTHER                  -> pc[t])
                       = IF t = c THEN "ready" ELSE IF t = w THEN "granted" ELSE pc[t]
            BY <2>3, <4>0 DEF w
          <5> QED
            BY <1>1, <5>1, Zenon
        <4>2. stream' = [t \in Calls |-> IF t = c THEN NoStream
                            ELSE IF t = w THEN stream[c] ELSE stream[t]]
          <5>1. ASSUME NEW t \in Calls
                PROVE  (CASE t = c                  -> NoStream
                          [] t \in DOMAIN P.granted -> P.granted[t]
                          [] OTHER                  -> stream[t])
                       = IF t = c THEN NoStream ELSE IF t = w THEN stream[c] ELSE stream[t]
            BY <2>3, <4>0 DEF w
          <5> QED
            BY <1>1, <5>1, Zenon
        <4> USE DEF w
        <4>3. ToWaiter(c, pending[1])
          <5>1. pc' = [pc EXCEPT ![c] = "ready", ![pending[1]] = "granted"]
            BY <2>3, <4>1 DEF IInv, PoolTypeOK
          <5>2. stream' = [stream EXCEPT ![c] = NoStream, ![pending[1]] = stream[c]]
            BY <2>3, <4>2 DEF IInv, PoolTypeOK
          <5> QED
            BY <1>1, <2>4, <3>2, <3>4, <5>1, <5>2 DEF ToWaiter
        <4> QED
          BY <1>1, <1>2, <1>6, <2>1, <2>2, <2>3, <2>4, <3>2, <4>3
      <3> QED
        BY <3>3, <3>4
    <2>5. CASE ~keep
      <3>1. /\ P.idle = <<>>
            /\ P.pending = IF SlotFree(n) THEN <<>> ELSE pending
            /\ P.spawned = IF SlotFree(n) THEN Elements(pending) ELSE {}
            /\ DOMAIN P.granted = {}
        <4>1. I = <<>>
          BY <2>1, <2>5
        <4> HIDE DEF I, n
        <4> QED
          BY <1>3, <1>6, <4>1, ProcessDry DEF IInv, P
      <3>2. n = active_count - 1
        BY <2>5
      <3>3. CASE SlotFree(n)
        BY <1>1, <1>2, <1>4, <1>6, <2>1, <3>1, <3>2, <3>3 DEF ToTasks
      <3>4. CASE ~SlotFree(n)
        BY <1>1, <1>2, <1>4, <1>6, <2>1, <3>1, <3>2, <3>4, PoolAssumption
           DEF ToNext, SlotFree, IInv, PoolTypeOK
      <3> QED
        BY <3>3, <3>4
    <2> QED
      BY <2>4, <2>5
  <1> QED
    BY <1>5, <1>6

-------------------------------------------------------------------------------
(* Every step keeps the invariant *)

LEMMA InitIInv == Init => IInv
  <1> SUFFICES ASSUME Init PROVE IInv
    OBVIOUS
  <1> USE PoolAssumption
  <1>1. Elements(<<>>) = {} /\ Len(<<>>) = 0
    BY EmptySeq DEF Elements
  <1>2. Occupying = {}
    BY DEF Init, Occupying
  <1>3. Counts
    <2>1. Lost = {}
      BY DEF Init, Lost
    <2> QED
      BY <1>1, <1>2, <2>1, FS_EmptySet DEF Init, Counts, SlotsInUse
  <1>4. PoolTypeOK
    BY DEF Init, PoolTypeOK
  <1>5. Held /\ Modes /\ NoLostWakeup
    BY DEF Init, Held, Modes, NoLostWakeup
  <1>6. Queued
    BY <1>1 DEF Init, Queued
  <1>7. ExclusiveHold
    BY <1>1 DEF Init, ExclusiveHold
  <1> QED
    BY <1>3, <1>4, <1>5, <1>6, <1>7 DEF IInv

\* What the count speaks of can be counted.
LEMMA Countable ==
    ASSUME PoolTypeOK
    PROVE  /\ IsFiniteSet(Occupying) /\ Cardinality(Occupying) \in Nat
           /\ IsFiniteSet(resolving) /\ Cardinality(resolving) \in Nat
           /\ IsFiniteSet(Lost) /\ Cardinality(Lost) \in Nat
           /\ SlotsInUse \in Nat
           /\ Len(idle) \in Nat
           /\ active_count \in Nat /\ max_streams \in Nat \ {0}
  <1>1. Occupying \in SUBSET Calls /\ resolving \in SUBSET Calls /\ Lost \in SUBSET Calls
    BY DEF Occupying, Lost, PoolTypeOK
  <1>2. IsFiniteSet(Occupying) /\ IsFiniteSet(resolving) /\ IsFiniteSet(Lost)
    BY <1>1, FS_Subset, PoolAssumption
  <1>3. /\ Cardinality(Occupying) \in Nat /\ Cardinality(resolving) \in Nat
        /\ Cardinality(Lost) \in Nat /\ Len(idle) \in Nat
    BY <1>2, FS_CardinalityType, LenProperties DEF PoolTypeOK
  <1> QED
    BY <1>2, <1>3, PoolAssumption DEF PoolTypeOK, SlotsInUse

\* Nobody is handed a stream that somebody has, and who opens one gets one.
LEMMA NewIsUnused ==
    ASSUME PoolTypeOK, NEW c \in Calls, TakeNew(c)
    PROVE  \E new \in Unused :
              /\ new \in Streams /\ new # NoStream
              /\ stream' = [stream EXCEPT ![c] = new]
              /\ remote_closed' = remote_closed \ {new}
  BY PoolAssumption DEF TakeNew, Unused

\* A new stream is exclusively held.
LEMMA NewExclusive ==
    ASSUME PoolTypeOK, ExclusiveHold, NEW c \in Calls, TakeNew(c), UNCHANGED idle
    PROVE  ExclusiveHold'
  <1>1. PICK new \in Unused : stream' = [stream EXCEPT ![c] = new]
    BY NewIsUnused
  <1>2. new \notin Elements(idle) /\ \A d \in Calls : stream[d] # new
    BY DEF Unused
  <1> QED
    BY <1>1, <1>2 DEF ExclusiveHold, PoolTypeOK, Elements

LEMMA AcquireIdleIInv == ASSUME IInv, NEW c \in Calls, AcquireIdle(c) PROVE IInv'
  <1> USE DEF IInv
  <1>1. /\ Front(idle) \in Seq(Streams)
        /\ Len(Front(idle)) = Len(idle) - 1
        /\ Last(idle) \in Elements(idle)
        /\ Elements(Front(idle)) = Elements(idle) \ {Last(idle)}
        /\ \A i, j \in DOMAIN Front(idle) : i # j => Front(idle)[i] # Front(idle)[j]
    BY FrontElements DEF AcquireIdle, PoolTypeOK, ExclusiveHold
  <1>2. Last(idle) \in Streams
    <2>1. \A i \in DOMAIN idle : idle[i] \in Streams
      BY LenProperties, ElementOfSeq DEF PoolTypeOK
    <2> QED
      BY <1>1, <2>1 DEF Elements
  <1>3. PoolTypeOK'
    BY <1>1, <1>2 DEF AcquireIdle, PoolTypeOK, poolVars, world
  <1>4. Held'
    BY <1>2, PoolAssumption DEF AcquireIdle, Held, PoolTypeOK
  <1>5. Queued'
    BY DEF AcquireIdle, Queued, Waiters, PoolTypeOK, Elements
  <1>6. Modes'
    BY DEF AcquireIdle, Modes, PoolTypeOK, world
  <1>7. Counts'
    <2>1. Occupying' = Occupying \cup {c} /\ c \notin Occupying
      BY DEF AcquireIdle, Occupying, PoolTypeOK
    <2>2. Cardinality(Occupying') = Cardinality(Occupying) + 1
      BY <2>1, Countable, FS_AddElement
    <2>3. /\ active_count' = active_count /\ resolving' = resolving
          /\ Len(idle') = Len(idle) - 1 /\ faulty' = faulty
      BY <1>1 DEF AcquireIdle, world
    <2>4. SlotsInUse' = SlotsInUse
      BY <2>2, <2>3, Countable DEF SlotsInUse
    <2>5. Lost' = Lost
      BY DEF AcquireIdle, Lost, PoolTypeOK, Elements
    <2> QED
      BY <2>3, <2>4, <2>5 DEF Counts
  <1>8. NoLostWakeup'
    BY DEF AcquireIdle, NoLostWakeup
  <1>9. ExclusiveHold'
    BY <1>1, <1>2 DEF AcquireIdle, ExclusiveHold, PoolTypeOK
  <1> QED
    BY <1>3, <1>4, <1>5, <1>6, <1>7, <1>8, <1>9

LEMMA AcquireNewIInv == ASSUME IInv, NEW c \in Calls, AcquireNew(c) PROVE IInv'
  <1> USE DEF IInv
  <1>1. PoolTypeOK'
    BY DEF AcquireNew, PoolTypeOK, world
  <1>2. Held'
    BY DEF AcquireNew, Held, PoolTypeOK
  <1>3. Queued'
    BY DEF AcquireNew, Queued, Waiters, PoolTypeOK, Elements
  <1>4. Modes'
    BY DEF AcquireNew, Modes, PoolTypeOK, world
  <1>5. Counts'
    <2>1. Occupying' = Occupying \cup {c} /\ c \notin Occupying
      BY DEF AcquireNew, Occupying, PoolTypeOK
    <2>2. Cardinality(Occupying') = Cardinality(Occupying) + 1
      BY <2>1, Countable, FS_AddElement
    <2>3. /\ active_count' = active_count + 1 /\ resolving' = resolving
          /\ idle' = idle /\ faulty' = faulty
      BY DEF AcquireNew, world
    <2>4. SlotsInUse' = SlotsInUse + 1
      BY <2>2, <2>3, Countable DEF SlotsInUse
    <2>5. Lost' = Lost
      BY DEF AcquireNew, Lost, PoolTypeOK, Elements
    <2> QED
      BY <2>3, <2>4, <2>5, Countable DEF Counts
  <1>6. NoLostWakeup'
    BY Countable DEF AcquireNew, NoLostWakeup
  <1>7. ExclusiveHold'
    BY DEF AcquireNew, ExclusiveHold, Elements
  <1> QED
    BY <1>1, <1>2, <1>3, <1>4, <1>5, <1>6, <1>7

LEMMA OpenedIInv == ASSUME IInv, NEW c \in Calls, Opened(c) PROVE IInv'
  <1> USE DEF IInv
  <1>1. UNCHANGED <<poolVars, world>>
    BY DEF Opened
  <1>2. CASE up /\ pc' = [pc EXCEPT ![c] = "holding"] /\ TakeNew(c)
    <2>1. PICK new \in Unused :
              /\ new \in Streams /\ new # NoStream
              /\ stream' = [stream EXCEPT ![c] = new]
              /\ remote_closed' = remote_closed \ {new}
      BY <1>2, NewIsUnused
    <2>2. pc[c] = "opening"
      BY DEF Opened
    <2>3. PoolTypeOK'
      BY <1>1, <1>2, <2>1 DEF PoolTypeOK, poolVars, world
    <2>4. Held'
      BY <1>2, <2>1 DEF Held, PoolTypeOK
    <2>5. Queued'
      BY <1>1, <1>2, <2>2 DEF Queued, Waiters, PoolTypeOK, Elements, poolVars
    <2>6. Modes'
      BY <1>1, <1>2 DEF Modes, PoolTypeOK, poolVars, world
    <2>7. Counts'
      <3>1. Occupying' = Occupying
        BY <1>2, <2>2 DEF Occupying, PoolTypeOK
      <3>2. Lost' = Lost
        BY <1>1, <1>2, <2>2 DEF Lost, PoolTypeOK, Elements, poolVars
      <3> QED
        BY <1>1, <3>1, <3>2 DEF Counts, SlotsInUse, poolVars
    <2>8. NoLostWakeup'
      BY <1>1 DEF NoLostWakeup, poolVars
    <2>9. ExclusiveHold'
      BY <1>1, <1>2, NewExclusive DEF poolVars
    <2> QED
      BY <2>3, <2>4, <2>5, <2>6, <2>7, <2>8, <2>9
  <1>3. CASE ~up /\ pc' = [pc EXCEPT ![c] = "failed"] /\ UNCHANGED <<stream, remote_closed>>
    <2>1. pc[c] = "opening" /\ faulty
      BY <1>3 DEF Opened, Modes
    <2>2. PoolTypeOK'
      BY <1>1, <1>3 DEF PoolTypeOK, poolVars, world
    <2>3. Held'
      BY <1>3, <2>1 DEF Held, PoolTypeOK
    <2>4. Queued'
      BY <1>1, <1>3, <2>1 DEF Queued, Waiters, PoolTypeOK, Elements, poolVars
    <2>5. Modes'
      BY <1>1, <1>3, <2>1 DEF Modes, PoolTypeOK, poolVars, world
    <2>6. Counts'
      <3>1. Occupying' = Occupying \ {c} /\ c \in Occupying
        BY <1>3, <2>1 DEF Occupying, PoolTypeOK
      <3>2. Cardinality(Occupying') = Cardinality(Occupying) - 1
        BY <3>1, Countable, FS_RemoveElement
      <3>3. SlotsInUse' = SlotsInUse - 1
        BY <1>1, <3>2, Countable DEF SlotsInUse, poolVars
      <3>4. Lost' = Lost \cup {c} /\ c \notin Lost
        BY <1>1, <1>3, <2>1 DEF Lost, Queued, Waiters, PoolTypeOK, Elements, poolVars
      <3>5. Cardinality(Lost') = Cardinality(Lost) + 1
        BY <3>4, Countable, FS_AddElement
      <3> QED
        BY <1>1, <3>3, <3>5, Countable DEF Counts, poolVars
    <2>7. NoLostWakeup'
      BY <1>1 DEF NoLostWakeup, poolVars
    <2>8. ExclusiveHold'
      BY <1>1, <1>3 DEF ExclusiveHold, poolVars, Elements
    <2> QED
      BY <2>2, <2>3, <2>4, <2>5, <2>6, <2>7, <2>8
  <1> QED
    BY <1>2, <1>3 DEF Opened

LEMMA AcquireWaitIInv == ASSUME IInv, NEW c \in Calls, AcquireWait(c) PROVE IInv'
  <1> USE DEF IInv
  <1>1. c \notin Elements(pending) \cup spawned \cup resolving
    BY DEF AcquireWait, Queued, Waiters
  <1>2. /\ Append(pending, c) \in Seq(Calls)
        /\ Elements(Append(pending, c)) = Elements(pending) \cup {c}
        /\ \A i, j \in DOMAIN Append(pending, c) :
              i # j => Append(pending, c)[i] # Append(pending, c)[j]
    BY <1>1, AppendElements DEF PoolTypeOK, Queued
  <1>3. PoolTypeOK'
    BY <1>2 DEF AcquireWait, PoolTypeOK, world
  <1>4. Held'
    BY DEF AcquireWait, Held, PoolTypeOK
  <1>5. Queued'
    <2>1. Waiters' = Waiters \cup {c}
      BY DEF AcquireWait, Waiters, PoolTypeOK
    <2>2. Elements(pending') = Elements(pending) \cup {c}
      BY <1>2 DEF AcquireWait
    <2> QED
      BY <1>1, <1>2, <2>1, <2>2 DEF AcquireWait, Queued, Elements
  <1>6. Modes'
    BY DEF AcquireWait, Modes, PoolTypeOK, world
  <1>7. Counts'
    <2>1. Occupying' = Occupying
      BY DEF AcquireWait, Occupying, PoolTypeOK
    <2>2. Elements(pending') = Elements(pending) \cup {c}
      BY <1>2 DEF AcquireWait
    <2>3. Lost' = Lost
      BY <2>2 DEF AcquireWait, Lost, PoolTypeOK
    <2> QED
      BY <2>1, <2>3 DEF AcquireWait, Counts, SlotsInUse
  <1>8. NoLostWakeup'
    BY Countable DEF AcquireWait, NoLostWakeup, Modes, PoolTypeOK
  <1>9. ExclusiveHold'
    BY DEF AcquireWait, ExclusiveHold, Elements
  <1> QED
    BY <1>3, <1>4, <1>5, <1>6, <1>7, <1>8, <1>9

LEMMA ResumeIInv == ASSUME IInv, NEW c \in Calls, Resume(c) PROVE IInv'
  <1> USE DEF IInv
  <1>1. PoolTypeOK'
    BY DEF Resume, PoolTypeOK, poolVars, world
  <1>2. Held'
    BY DEF Resume, Held, PoolTypeOK
  <1>3. Queued'
    BY DEF Resume, Queued, Waiters, PoolTypeOK, Elements, poolVars
  <1>4. Modes'
    BY DEF Resume, Modes, PoolTypeOK, poolVars, world
  <1>5. Counts'
    <2>1. Occupying' = Occupying
      BY DEF Resume, Occupying, PoolTypeOK
    <2>2. Lost' = Lost
      BY DEF Resume, Lost, PoolTypeOK, Elements, poolVars
    <2> QED
      BY <2>1, <2>2 DEF Resume, Counts, SlotsInUse, poolVars
  <1>6. NoLostWakeup'
    BY DEF Resume, NoLostWakeup, poolVars
  <1>7. ExclusiveHold'
    BY DEF Resume, ExclusiveHold, Elements, poolVars
  <1> QED
    BY <1>1, <1>2, <1>3, <1>4, <1>5, <1>6, <1>7

LEMMA StartResolveIInv == ASSUME IInv, NEW c \in Calls, StartResolve(c) PROVE IInv'
  <1> USE DEF IInv
  <1>1. PoolTypeOK'
    BY DEF StartResolve, PoolTypeOK, world
  <1>2. Held'
    BY DEF StartResolve, Held
  <1>3. Queued'
    BY DEF StartResolve, Queued, Waiters, Elements
  <1>4. Modes'
    BY DEF StartResolve, Modes, world
  <1>5. Counts'
    <2>1. resolving' = resolving \cup {c} /\ c \notin resolving
      BY DEF StartResolve, Queued
    <2>2. Cardinality(resolving') = Cardinality(resolving) + 1
      BY <2>1, Countable, FS_AddElement
    <2>3. /\ active_count' = active_count + 1 /\ Occupying' = Occupying
          /\ idle' = idle /\ faulty' = faulty
      BY DEF StartResolve, Occupying, world
    <2>4. SlotsInUse' = SlotsInUse + 1
      BY <2>2, <2>3, Countable DEF SlotsInUse
    <2>5. Lost' = Lost
      BY DEF StartResolve, Lost, Elements
    <2> QED
      BY <2>3, <2>4, <2>5, Countable DEF Counts
  <1>6. NoLostWakeup'
    BY Countable DEF StartResolve, NoLostWakeup
  <1>7. ExclusiveHold'
    BY DEF StartResolve, ExclusiveHold, Elements
  <1> QED
    BY <1>1, <1>2, <1>3, <1>4, <1>5, <1>6, <1>7

LEMMA FinishResolveIInv == ASSUME IInv, NEW c \in Calls, FinishResolve(c) PROVE IInv'
  <1> USE DEF IInv
  <1>1. /\ c \in resolving /\ resolving' = resolving \ {c}
        /\ UNCHANGED <<max_streams, reuse, active_count, idle, pending, spawned, world>>
    BY DEF FinishResolve
  <1>2. Cardinality(resolving') = Cardinality(resolving) - 1
    BY <1>1, Countable, FS_RemoveElement
  <1>3. NoLostWakeup'
    BY <1>1 DEF NoLostWakeup
  <1>4. CASE /\ up /\ pc[c] = "waiting"
             /\ pc' = [pc EXCEPT ![c] = "granted"] /\ TakeNew(c)
    <2>1. PICK new \in Unused :
              /\ new \in Streams /\ new # NoStream
              /\ stream' = [stream EXCEPT ![c] = new]
              /\ remote_closed' = remote_closed \ {new}
      BY <1>4, NewIsUnused
    <2>2. PoolTypeOK'
      BY <1>1, <1>4, <2>1 DEF PoolTypeOK, world
    <2>3. Held'
      BY <1>4, <2>1 DEF Held, PoolTypeOK
    <2>4. Queued'
      <3>1. Waiters' = Waiters \ {c}
        BY <1>4 DEF Waiters, PoolTypeOK
      <3>2. c \notin Elements(pending) \cup spawned
        BY <1>1 DEF Queued
      <3> QED
        BY <1>1, <3>1, <3>2 DEF Queued, Elements
    <2>5. Modes'
      BY <1>1, <1>4 DEF Modes, PoolTypeOK, world
    <2>6. Counts'
      <3>1. Occupying' = Occupying \cup {c} /\ c \notin Occupying
        BY <1>4 DEF Occupying, PoolTypeOK
      <3>2. Cardinality(Occupying') = Cardinality(Occupying) + 1
        BY <3>1, Countable, FS_AddElement
      <3>3. SlotsInUse' = SlotsInUse
        BY <1>1, <1>2, <3>2, Countable DEF SlotsInUse
      <3>4. Lost' = Lost
        BY <1>1, <1>4 DEF Lost, PoolTypeOK, Elements
      <3> QED
        BY <1>1, <3>3, <3>4 DEF Counts
    <2>7. ExclusiveHold'
      BY <1>1, <1>4, NewExclusive
    <2> QED
      BY <1>3, <2>2, <2>3, <2>4, <2>5, <2>6, <2>7
  <1>5. CASE ~(up /\ pc[c] = "waiting") /\ UNCHANGED <<pc, stream, remote_closed>>
    <2>1. c \in Waiters /\ c \notin Elements(pending) \cup spawned
      BY <1>1 DEF Queued
    <2>2. PoolTypeOK'
      BY <1>1, <1>5 DEF PoolTypeOK, world
    <2>3. Held'
      BY <1>5 DEF Held
    <2>4. Queued'
      BY <1>1, <1>5 DEF Queued, Waiters, Elements
    <2>5. Modes'
      BY <1>1, <1>5 DEF Modes, world
    <2>6. Counts'
      <3>1. Occupying' = Occupying
        BY <1>5 DEF Occupying
      <3>2. SlotsInUse' = SlotsInUse - 1
        BY <1>1, <1>2, <3>1, Countable DEF SlotsInUse
      <3>3. Lost' = Lost \cup {c} /\ c \notin Lost
        BY <1>1, <1>5, <2>1 DEF Lost, Waiters, Elements
      <3>4. Cardinality(Lost') = Cardinality(Lost) + 1
        BY <3>3, Countable, FS_AddElement
      <3> QED
        BY <1>1, <3>2, <3>4, Countable DEF Counts
    <2>7. ExclusiveHold'
      BY <1>1, <1>5 DEF ExclusiveHold, Elements
    <2> QED
      BY <1>3, <2>2, <2>3, <2>4, <2>5, <2>6, <2>7
  <1> QED
    BY <1>4, <1>5 DEF FinishResolve

LEMMA CancelIInv == ASSUME IInv, NEW c \in Calls, Cancel(c) PROVE IInv'
  <1> USE DEF IInv
  <1>1. faulty /\ faulty' = faulty
    BY DEF Cancel, world
  <1>2. PoolTypeOK'
    BY DEF Cancel, PoolTypeOK, poolVars, world
  <1>3. Held'
    BY DEF Cancel, Held, PoolTypeOK
  <1>4. Queued'
    BY DEF Cancel, Queued, Waiters, PoolTypeOK, Elements, poolVars
  <1>5. Modes'
    BY <1>1 DEF Cancel, Modes, PoolTypeOK, poolVars
  <1>6. Counts'
    <2>1. CASE pc[c] = "waiting"
      <3>1. Occupying' = Occupying /\ Lost' = Lost
        BY <2>1 DEF Cancel, Occupying, Lost, PoolTypeOK, Elements, poolVars
      <3> QED
        BY <3>1 DEF Cancel, Counts, SlotsInUse, poolVars
    <2>2. CASE pc[c] \in {"opening", "granted"}
      <3>1. Occupying' = Occupying \ {c} /\ c \in Occupying
        BY <2>2 DEF Cancel, Occupying, PoolTypeOK
      <3>2. Cardinality(Occupying') = Cardinality(Occupying) - 1
        BY <3>1, Countable, FS_RemoveElement
      <3>3. Lost' = Lost \cup {c} /\ c \notin Lost
        BY <2>2 DEF Cancel, Lost, Queued, Waiters, PoolTypeOK, Elements, poolVars
      <3>4. Cardinality(Lost') = Cardinality(Lost) + 1
        BY <3>3, Countable, FS_AddElement
      <3>5. SlotsInUse' = SlotsInUse - 1
        BY <3>2, Countable DEF Cancel, SlotsInUse, poolVars
      <3> QED
        BY <3>4, <3>5, Countable DEF Cancel, Counts, poolVars
    <2> QED
      BY <2>1, <2>2 DEF Cancel
  <1>7. NoLostWakeup'
    BY DEF Cancel, NoLostWakeup, poolVars
  <1>8. ExclusiveHold'
    <2>1. \A s \in Elements(idle) : s # NoStream
      BY PoolAssumption, LenProperties DEF Elements, PoolTypeOK
    <2> QED
      BY <2>1 DEF Cancel, ExclusiveHold, PoolTypeOK, Elements, poolVars
  <1> QED
    BY <1>2, <1>3, <1>4, <1>5, <1>6, <1>7, <1>8

\* What happens to streams touches neither the pool nor calls.
LEMMA WorldIInv ==
    ASSUME IInv, \/ \E s \in Streams : RemoteFin(s)
                 \/ SessionDown
                 \/ UNCHANGED vars
    PROVE  IInv'
  <1> USE DEF IInv
  <1>1. UNCHANGED <<poolVars, pc, stream, faulty>>
    BY DEF RemoteFin, SessionDown, vars, world
  <1>2. remote_closed' \subseteq Streams
    BY DEF RemoteFin, SessionDown, vars, PoolTypeOK
  <1>3. up' \in BOOLEAN /\ (~faulty => up' = up)
    BY DEF RemoteFin, SessionDown, vars, world, PoolTypeOK
  <1>4. PoolTypeOK' /\ Held' /\ Modes' /\ NoLostWakeup'
    BY <1>1, <1>2, <1>3 DEF PoolTypeOK, Held, Modes, NoLostWakeup, poolVars
  <1>5. Queued' /\ ExclusiveHold'
    BY <1>1 DEF Queued, Waiters, ExclusiveHold, Elements, poolVars
  <1>6. Counts'
    BY <1>1 DEF Counts, SlotsInUse, Occupying, Lost, Elements, poolVars
  <1> QED
    BY <1>4, <1>5, <1>6

\* A call that ends is counted no more.
LEMMA LeavesOccupying ==
    ASSUME IInv, NEW c \in Calls, pc[c] = "holding", Leaves(c)
    PROVE  /\ Occupying' = Occupying \ {c}
           /\ Cardinality(Occupying') = Cardinality(Occupying) - 1
           /\ Waiters' = Waiters
           /\ Held'
           /\ pc' \in [Calls -> {"ready", "opening", "waiting", "granted",
                                 "holding", "failed", "cancelled"}]
           /\ stream' \in [Calls -> Streams \cup {NoStream}]
  <1> USE DEF IInv, PoolTypeOK
  <1>1. Occupying' = Occupying \ {c} /\ c \in Occupying
    BY DEF Leaves, Occupying
  <1>2. Cardinality(Occupying') = Cardinality(Occupying) - 1
    BY <1>1, Countable, FS_RemoveElement
  <1>3. Waiters' = Waiters
    BY DEF Leaves, Waiters
  <1>4. Held'
    BY DEF Leaves, Held
  <1> QED
    BY <1>1, <1>2, <1>3, <1>4 DEF Leaves

LEMMA ToPoolIInv ==
    ASSUME IInv, NEW c \in Calls, Release(c), ToPool(c) PROVE IInv'
  <1> USE DEF IInv
  <1>1. /\ UNCHANGED <<max_streams, reuse, resolving, remote_closed, world>>
        /\ pc[c] = "holding" /\ stream[c] \in Streams
    BY ReleaseOutcomes
  <1>2. /\ pending = <<>> /\ pending' = <<>> /\ spawned' = spawned /\ Leaves(c)
        /\ idle' = IF Keeps(stream[c]) THEN Append(idle, stream[c]) ELSE idle
        /\ active_count' = IF Keeps(stream[c]) THEN active_count ELSE active_count - 1
    BY DEF ToPool
  <1>3. /\ Occupying' = Occupying \ {c}
        /\ Cardinality(Occupying') = Cardinality(Occupying) - 1
        /\ Waiters' = Waiters
        /\ Held'
        /\ pc' \in [Calls -> {"ready", "opening", "waiting", "granted",
                              "holding", "failed", "cancelled"}]
        /\ stream' \in [Calls -> Streams \cup {NoStream}]
    BY <1>1, <1>2, LeavesOccupying
  <1>4. stream[c] \notin Elements(idle)
    BY DEF ExclusiveHold
  <1>5. /\ Append(idle, stream[c]) \in Seq(Streams)
        /\ Len(Append(idle, stream[c])) = Len(idle) + 1
        /\ Elements(Append(idle, stream[c])) = Elements(idle) \cup {stream[c]}
        /\ \A i, j \in DOMAIN Append(idle, stream[c]) :
              i # j => Append(idle, stream[c])[i] # Append(idle, stream[c])[j]
    BY <1>1, <1>4, AppendElements DEF PoolTypeOK, ExclusiveHold
  <1>6. SlotsInUse' = IF Keeps(stream[c]) THEN SlotsInUse ELSE SlotsInUse - 1
    BY <1>1, <1>2, <1>3, <1>5, Countable DEF SlotsInUse
  <1>7. Lost' = Lost
    BY <1>1, <1>2 DEF Leaves, Lost, PoolTypeOK, Elements
  <1>8. Counts'
    BY <1>2, <1>6, <1>7, Countable DEF Counts
  <1>9. active_count' \in Nat
    <2>1. Cardinality(Occupying') \in Nat
      <3>1. IsFiniteSet(Occupying')
        BY <1>3, Countable, FS_RemoveElement
      <3> QED
        BY <3>1, FS_CardinalityType
    <2>2. SlotsInUse >= 1
      BY <1>3, <2>1, Countable DEF SlotsInUse
    <2> QED
      BY <1>2, <2>2, Countable DEF Counts
  <1>10. PoolTypeOK'
    BY <1>1, <1>2, <1>3, <1>5, <1>9, EmptySeq DEF PoolTypeOK, world
  <1>11. Queued'
    BY <1>1, <1>2, <1>3 DEF Queued, Elements
  <1>12. Modes'
    BY <1>1, <1>2 DEF Leaves, Modes, PoolTypeOK, world, Keeps
  <1>13. NoLostWakeup'
    BY <1>2 DEF NoLostWakeup
  <1>14. ExclusiveHold'
    <2>1. \A d, e \in Calls : d # e /\ stream'[d] # NoStream => stream'[d] # stream'[e]
      BY <1>2 DEF Leaves, ExclusiveHold, PoolTypeOK
    <2>2. NoStream \notin Elements(idle')
      BY <1>10, LenProperties, PoolAssumption DEF PoolTypeOK, Elements
    <2>3. \A d \in Calls : stream'[d] \notin Elements(idle')
      BY <1>1, <1>2, <1>5, <2>2 DEF Leaves, ExclusiveHold, PoolTypeOK
    <2>4. \A i, j \in DOMAIN idle' : i # j => idle'[i] # idle'[j]
      BY <1>2, <1>5 DEF ExclusiveHold
    <2> QED
      BY <2>1, <2>3, <2>4 DEF ExclusiveHold, Elements
  <1> QED
    BY <1>3, <1>8, <1>10, <1>11, <1>12, <1>13, <1>14

LEMMA ToWaiterIInv ==
    ASSUME IInv, NEW c \in Calls, Release(c), NEW w \in Calls \ {c},
           pending # <<>>, idle = <<>>, idle' = <<>>, Keeps(stream[c]),
           w \in Elements(pending), ToWaiter(c, w)
    PROVE  IInv'
  <1> USE DEF IInv
  <1>1. /\ UNCHANGED <<max_streams, reuse, resolving, remote_closed, world>>
        /\ pc[c] = "holding" /\ stream[c] \in Streams
    BY ReleaseOutcomes
  <1>2. /\ w = pending[1]
        /\ pending' = Tail(pending) /\ spawned' = spawned
        /\ active_count' = active_count
        /\ pc' = [pc EXCEPT ![c] = "ready", ![w] = "granted"]
        /\ stream' = [stream EXCEPT ![c] = NoStream, ![w] = stream[c]]
    BY DEF ToWaiter
  <1>3. pc[w] = "waiting" /\ w \notin spawned \cup resolving
    BY DEF ToWaiter, IsCancelled, Queued, Waiters
  <1>4. /\ Tail(pending) \in Seq(Calls)
        /\ Elements(Tail(pending)) = Elements(pending) \ {w}
        /\ \A i, j \in DOMAIN Tail(pending) : i # j => Tail(pending)[i] # Tail(pending)[j]
    BY <1>2, TailElements DEF PoolTypeOK, Queued
  <1>5. PoolTypeOK'
    BY <1>1, <1>2, <1>4 DEF PoolTypeOK, world
  <1>6. Held'
    BY <1>1, <1>2, PoolAssumption DEF Held, PoolTypeOK
  <1>7. Queued'
    <2>1. Waiters' = Waiters \ {w}
      BY <1>1, <1>2, <1>3 DEF Waiters, PoolTypeOK
    <2>2. Elements(pending') = Elements(pending) \ {w}
      BY <1>2, <1>4
    <2>3. \A i, j \in DOMAIN pending' : i # j => pending'[i] # pending'[j]
      BY <1>2, <1>4
    <2> QED
      BY <1>1, <1>2, <1>3, <2>1, <2>2, <2>3 DEF Queued, Elements
  <1>8. Modes'
    BY <1>1, <1>2 DEF Modes, PoolTypeOK, world
  <1>9. Counts'
    <2>1. Occupying' = (Occupying \ {c}) \cup {w} /\ c \in Occupying /\ w \notin Occupying
      BY <1>1, <1>2, <1>3 DEF Occupying, PoolTypeOK
    <2>2. /\ IsFiniteSet(Occupying \ {c})
          /\ Cardinality(Occupying \ {c}) = Cardinality(Occupying) - 1
      BY <2>1, Countable, FS_RemoveElement
    <2>3. Cardinality(Occupying') = Cardinality(Occupying \ {c}) + 1
      BY <2>1, <2>2, FS_AddElement
    <2>4. Cardinality(Occupying') = Cardinality(Occupying)
      BY <2>2, <2>3, Countable
    <2>5. SlotsInUse' = SlotsInUse
      BY <1>1, <2>4 DEF SlotsInUse
    <2>6. Elements(pending') = Elements(pending) \ {w}
      BY <1>2, <1>4
    <2>7. Lost' = Lost
      BY <1>1, <1>2, <1>3, <2>6 DEF Lost, PoolTypeOK
    <2> QED
      BY <1>2, <2>5, <2>7 DEF Counts
  <1>10. NoLostWakeup'
    BY <1>1, <1>2 DEF NoLostWakeup
  <1>11. ExclusiveHold'
    <2>1. Elements(idle') = {} /\ \A i, j \in DOMAIN idle' : i = j
      BY DEF Elements
    <2>2. \A d, e \in Calls : d # e /\ stream'[d] # NoStream => stream'[d] # stream'[e]
      <3>1. \A d \in Calls \ {c, w} : stream'[d] = stream[d] /\ stream[d] # stream[c]
        BY <1>1, <1>2, PoolAssumption DEF ExclusiveHold, PoolTypeOK
      <3>2. stream'[c] = NoStream /\ stream'[w] = stream[c] /\ stream[c] # NoStream
        BY <1>1, <1>2, PoolAssumption DEF PoolTypeOK
      <3> QED
        BY <3>1, <3>2 DEF ExclusiveHold
    <2>3. \A d \in Calls : stream'[d] \notin Elements(idle')
      BY <2>1
    <2>4. \A i, j \in DOMAIN idle' : i # j => idle'[i] # idle'[j]
      BY <2>1
    <2> QED
      BY <2>2, <2>3, <2>4 DEF ExclusiveHold, Elements
  <1> QED
    BY <1>5, <1>6, <1>7, <1>8, <1>9, <1>10, <1>11

\* The other outcomes when somebody waits: nobody is handed the stream.
LEMMA NotHandedIInv ==
    ASSUME IInv, NEW c \in Calls, Release(c), Leaves(c),
           pending # <<>>, idle = <<>>, idle' = <<>>,
           \/ Keeps(stream[c]) /\ \E w \in Calls \ {c} : ToNobody(c, w)
           \/ ToTasks(c)
           \/ ToNext(c)
    PROVE  IInv'
  <1> USE DEF IInv
  <1>1. /\ UNCHANGED <<max_streams, reuse, resolving, remote_closed, world>>
        /\ pc[c] = "holding" /\ stream[c] \in Streams
    BY ReleaseOutcomes
  <1>2. /\ Occupying' = Occupying \ {c}
        /\ Cardinality(Occupying') = Cardinality(Occupying) - 1
        /\ Waiters' = Waiters
        /\ Held'
        /\ pc' \in [Calls -> {"ready", "opening", "waiting", "granted",
                              "holding", "failed", "cancelled"}]
        /\ stream' \in [Calls -> Streams \cup {NoStream}]
    BY <1>1, LeavesOccupying
  <1>3. SlotsInUse' = SlotsInUse - 1 /\ SlotsInUse >= 1 /\ SlotsInUse \in Nat
    <2>1. Cardinality(Occupying') \in Nat
      <3>1. IsFiniteSet(Occupying')
        BY <1>2, Countable, FS_RemoveElement
      <3> QED
        BY <3>1, FS_CardinalityType
    <2>2. SlotsInUse' = SlotsInUse - 1
      BY <1>1, <1>2, Countable DEF SlotsInUse
    <2>3. SlotsInUse >= 1 /\ SlotsInUse \in Nat
      BY <1>2, <2>1, Countable DEF SlotsInUse
    <2> QED
      BY <2>2, <2>3
  <1>4. Modes'
    BY <1>1 DEF Leaves, Modes, PoolTypeOK, world
  <1>5. ExclusiveHold'
    <2>1. Elements(idle') = {} /\ \A i, j \in DOMAIN idle' : i = j
      BY DEF Elements
    <2>2. \A d, e \in Calls : d # e /\ stream'[d] # NoStream => stream'[d] # stream'[e]
      BY DEF Leaves, ExclusiveHold, PoolTypeOK
    <2>3. \A d \in Calls : stream'[d] \notin Elements(idle')
      BY <2>1
    <2>4. \A i, j \in DOMAIN idle' : i # j => idle'[i] # idle'[j]
      BY <2>1
    <2> QED
      BY <2>2, <2>3, <2>4 DEF ExclusiveHold, Elements
  <1>6. Elements(pending) \subseteq Calls /\ Elements(<<>>) = {}
    BY LenProperties DEF Elements, PoolTypeOK
  <1>7. CASE \E w \in Calls \ {c} : ToNobody(c, w)
    <2>1. PICK w \in Calls : ToNobody(c, w)
      BY <1>7
    <2>2. /\ Tail(pending) \in Seq(Calls)
          /\ Elements(Tail(pending)) = Elements(pending) \ {w}
          /\ \A i, j \in DOMAIN Tail(pending) :
                i # j => Tail(pending)[i] # Tail(pending)[j]
      BY <2>1, TailElements DEF ToNobody, PoolTypeOK, Queued
    <2>3. /\ w \in Calls /\ pc[w] = "cancelled"
          /\ pending' = Tail(pending) /\ spawned' = spawned
          /\ active_count' = active_count
      BY <2>1 DEF ToNobody, IsCancelled
    <2>4. w \in Elements(pending) /\ w \notin spawned \cup resolving
      BY <2>1, TailElements DEF ToNobody, PoolTypeOK, Queued
    <2>5. PoolTypeOK'
      BY <1>1, <1>2, <2>2, <2>3 DEF PoolTypeOK, world
    <2>6. Queued'
      <3>1. Elements(pending') = Elements(pending) \ {w}
        BY <2>2, <2>3
      <3>2. \A i, j \in DOMAIN pending' : i # j => pending'[i] # pending'[j]
        BY <2>2, <2>3
      <3> QED
        BY <1>1, <1>2, <2>3, <3>1, <3>2 DEF Queued, Elements
    <2>7. Counts'
      <3>1. Elements(pending') = Elements(pending) \ {w}
        BY <2>2, <2>3
      <3>2. Lost' = Lost \cup {w} /\ w \notin Lost
        BY <1>1, <2>1, <2>3, <2>4, <3>1 DEF Leaves, Lost, PoolTypeOK
      <3>3. Cardinality(Lost') = Cardinality(Lost) + 1
        BY <3>2, Countable, FS_AddElement
      <3> QED
        BY <1>3, <2>3, <3>3, Countable DEF Counts
    <2>8. NoLostWakeup'
      BY <1>1, <2>3 DEF NoLostWakeup
    <2> QED
      BY <1>2, <1>4, <1>5, <2>5, <2>6, <2>7, <2>8
  <1>8. CASE ToTasks(c) \/ ToNext(c)
    <2>1. active_count' = active_count - 1
      BY <1>8 DEF ToTasks, ToNext
    <2>2. active_count' \in Nat
      BY <1>3, <2>1, Countable DEF Counts
    <2>3. Counts'
      <3>1. Elements(pending) \cup spawned = Elements(pending') \cup spawned'
        BY <1>6, <1>8 DEF ToTasks, ToNext
      <3>2. Lost' = Lost
        BY <1>1, <3>1 DEF Leaves, Lost, PoolTypeOK
      <3> QED
        BY <1>3, <2>1, <3>2, Countable DEF Counts
    <2>4. CASE ToTasks(c)
      <3>1. pending' = <<>> /\ spawned' = spawned \cup Elements(pending)
        BY <2>4 DEF ToTasks
      <3>2. PoolTypeOK'
        BY <1>1, <1>2, <1>6, <2>2, <3>1 DEF PoolTypeOK, world
      <3>3. Elements(pending') = {} /\ \A i, j \in DOMAIN pending' : i = j
        BY <3>1 DEF Elements
      <3>4. Queued'
        BY <1>1, <1>2, <3>1, <3>3 DEF Queued, Elements
      <3>5. NoLostWakeup'
        BY <3>1 DEF NoLostWakeup
      <3> QED
        BY <1>2, <1>4, <1>5, <2>3, <3>2, <3>4, <3>5
    <2>5. CASE ToNext(c)
      <3>1. pending' = pending /\ spawned' = spawned /\ active_count' >= max_streams'
        BY <2>5 DEF ToNext
      <3>2. PoolTypeOK'
        BY <1>1, <1>2, <2>2, <3>1 DEF PoolTypeOK, world
      <3>3. Queued'
        BY <1>1, <1>2, <3>1 DEF Queued, Elements
      <3>4. NoLostWakeup'
        BY <3>1 DEF NoLostWakeup
      <3> QED
        BY <1>2, <1>4, <1>5, <2>3, <3>2, <3>3, <3>4
    <2> QED
      BY <1>8, <2>4, <2>5
  <1> QED
    BY <1>7, <1>8

LEMMA ReleaseIInv == ASSUME IInv, NEW c \in Calls, Release(c) PROVE IInv'
  <1>1. CASE ToPool(c)
    BY <1>1, ToPoolIInv
  <1>2. CASE pending # <<>> /\ idle = <<>> /\ idle' = <<>>
    <2>1. CASE \E w \in Calls \ {c} : /\ Keeps(stream[c]) /\ w \in Elements(pending)
                                      /\ ToWaiter(c, w)
      BY <1>2, <2>1, ToWaiterIInv
    <2>2. CASE \/ Keeps(stream[c]) /\ \E w \in Calls \ {c} : ToNobody(c, w)
               \/ ToTasks(c)
               \/ ToNext(c)
      <3>1. Leaves(c)
        BY <2>2 DEF ToNobody, ToTasks, ToNext
      <3> QED
        BY <1>2, <2>2, <3>1, NotHandedIInv
    <2>3. \/ ToPool(c)
          \/ Keeps(stream[c]) /\ \E w \in Calls \ {c} :
                 w \in Elements(pending) /\ (ToWaiter(c, w) \/ ToNobody(c, w))
          \/ ToTasks(c)
          \/ ToNext(c)
      BY ReleaseOutcomes
    <2> QED
      BY <1>1, <2>1, <2>2, <2>3
  <1> QED
    BY <1>1, <1>2, ReleaseOutcomes

LEMMA NextIInv == IInv /\ [Next]_vars => IInv'
  <1> SUFFICES ASSUME IInv, [Next]_vars PROVE IInv'
    OBVIOUS
  <1>1. ASSUME NEW c \in Calls, Acquire(c) PROVE IInv'
    BY <1>1, AcquireIdleIInv, AcquireNewIInv, AcquireWaitIInv DEF Acquire
  <1>2. ASSUME NEW c \in Calls, Proceed(c) PROVE IInv'
    BY <1>2, OpenedIInv, ResumeIInv, StartResolveIInv, FinishResolveIInv, ReleaseIInv
       DEF Proceed, Serve
  <1>3. ASSUME NEW c \in Calls, Cancel(c) PROVE IInv'
    BY <1>3, CancelIInv
  <1> QED
    BY <1>1, <1>2, <1>3, WorldIInv DEF Next

LEMMA AlwaysIInv == Spec => []IInv
  BY InitIInv, NextIInv, PTL DEF Spec

-------------------------------------------------------------------------------
(* What composed modules need besides *)

\* A waiter is forgotten only when the session is lost while its task opens a
\* stream.
Attended == ~faulty => Waiters \subseteq Elements(pending) \cup spawned \cup resolving

LEMMA InitAttended == Init => Attended
  BY DEF Init, Attended, Waiters

LEMMA NextAttended == IInv /\ Attended /\ [Next]_vars => Attended'
  <1> SUFFICES ASSUME IInv, Attended, [Next]_vars, ~faulty'
               PROVE  Waiters' \subseteq Elements(pending') \cup spawned' \cup resolving'
    BY DEF Attended, Elements
  <1> USE DEF IInv
  <1>1. ~faulty /\ Waiters \subseteq Elements(pending) \cup spawned \cup resolving
    BY DEF Next, Acquire, Proceed, Serve, AcquireIdle, AcquireNew, AcquireWait, Opened,
           Resume, StartResolve, FinishResolve, Release, Cancel, RemoteFin, SessionDown,
           vars, world, Attended
  <1>2. ASSUME NEW c \in Calls, AcquireIdle(c) \/ AcquireNew(c) \/ Resume(c)
        PROVE  Waiters' \subseteq Waiters /\ UNCHANGED <<pending, spawned, resolving>>
    BY <1>2 DEF AcquireIdle, AcquireNew, Resume, Waiters, PoolTypeOK, poolVars
  <1>3. ASSUME NEW c \in Calls, AcquireWait(c)
        PROVE  Waiters' \subseteq Elements(pending') \cup spawned' \cup resolving'
    <2>1. Elements(pending') = Elements(pending) \cup {c}
      BY <1>3, AppendElements DEF AcquireWait, PoolTypeOK
    <2> QED
      BY <1>1, <1>3, <2>1 DEF AcquireWait, Waiters, PoolTypeOK
  <1>4. ASSUME NEW c \in Calls, Opened(c)
        PROVE  Waiters' \subseteq Waiters /\ UNCHANGED <<pending, spawned, resolving>>
    BY <1>4 DEF Opened, Waiters, PoolTypeOK, poolVars
  <1>5. ASSUME NEW c \in Calls, StartResolve(c)
        PROVE  Waiters' \subseteq Elements(pending') \cup spawned' \cup resolving'
    BY <1>1, <1>5 DEF StartResolve, Waiters
  <1>6. ASSUME NEW c \in Calls, FinishResolve(c)
        PROVE  Waiters' \subseteq Elements(pending') \cup spawned' \cup resolving'
    <2>1. up /\ pc[c] = "waiting"
      BY <1>1, <1>6 DEF FinishResolve, Modes, Queued, Waiters
    <2>2. Waiters' = Waiters \ {c}
      BY <1>6, <2>1 DEF FinishResolve, Waiters, PoolTypeOK
    <2> QED
      BY <1>1, <1>6, <2>2 DEF FinishResolve
  <1>7. ASSUME NEW c \in Calls, Release(c)
        PROVE  Waiters' \subseteq Elements(pending') \cup spawned' \cup resolving'
    <2>1. pc[c] = "holding" /\ resolving' = resolving
      BY <1>7, ReleaseOutcomes
    <2>2. CASE ToPool(c) \/ ToTasks(c) \/ ToNext(c)
      <3>1. Waiters' = Waiters
        BY <1>7, <2>1, <2>2, LeavesOccupying DEF ToPool, ToTasks, ToNext
      <3>2. Elements(pending) \cup spawned \subseteq Elements(pending') \cup spawned'
        BY <2>2 DEF ToPool, ToTasks, ToNext
      <3> QED
        BY <1>1, <2>1, <3>1, <3>2
    <2>3. CASE \E w \in Calls \ {c} : ToWaiter(c, w) /\ pending # <<>>
      <3>1. PICK w \in Calls \ {c} : ToWaiter(c, w) /\ pending # <<>>
        BY <2>3
      <3>2. Elements(Tail(pending)) = Elements(pending) \ {w}
        BY <3>1, TailElements DEF ToWaiter, PoolTypeOK, Queued
      <3>3. Waiters' \subseteq Waiters \ {w}
        BY <2>1, <3>1 DEF ToWaiter, Waiters, PoolTypeOK
      <3> QED
        BY <1>1, <2>1, <3>1, <3>2, <3>3 DEF ToWaiter
    <2>4. ~\E w \in Calls : ToNobody(c, w)
      BY <1>1 DEF Modes, ToNobody, IsCancelled
    <2> QED
      BY <1>7, <2>2, <2>3, <2>4, ReleaseOutcomes
  <1>8. ASSUME NEW c \in Calls, Cancel(c) PROVE FALSE
    BY <1>1, <1>8 DEF Cancel
  <1>9. ASSUME \/ \E s \in Streams : RemoteFin(s)
               \/ SessionDown
               \/ UNCHANGED vars
        PROVE  Waiters' \subseteq Waiters /\ UNCHANGED <<pending, spawned, resolving>>
    BY <1>9 DEF RemoteFin, SessionDown, Waiters, poolVars, vars
  <1>10. ASSUME Waiters' \subseteq Waiters /\ UNCHANGED <<pending, spawned, resolving>>
         PROVE  Waiters' \subseteq Elements(pending') \cup spawned' \cup resolving'
    BY <1>1, <1>10 DEF Elements
  <1> QED
    BY <1>2, <1>3, <1>4, <1>5, <1>6, <1>7, <1>8, <1>9, <1>10
       DEF Next, Acquire, Proceed, Serve

\* Only acquire begins a call, and no other call than its own.
LEMMA OthersStayReady ==
    ASSUME IInv, NEW c \in Calls, Acquire(c) \/ Proceed(c),
           NEW d \in Calls, pc[d] = "ready", c # d \/ Proceed(c)
    PROVE  pc'[d] = "ready"
  <1> USE DEF IInv, PoolTypeOK
  <1>1. CASE Release(c)
    <2>1. CASE Leaves(c)
      BY <2>1 DEF Leaves
    <2>2. CASE \E w \in Calls : w \in Elements(pending) /\ ToWaiter(c, w)
      BY <2>2 DEF ToWaiter, Queued, Waiters
    <2> QED
      BY <1>1, <2>1, <2>2, ReleaseOutcomes DEF ToPool, ToNobody, ToTasks, ToNext
  <1>2. CASE Acquire(c) /\ c # d
    BY <1>2 DEF Acquire, AcquireIdle, AcquireNew, AcquireWait
  <1>3. CASE Opened(c) \/ Resume(c) \/ StartResolve(c) \/ FinishResolve(c)
    BY <1>3 DEF Opened, Resume, StartResolve, FinishResolve
  <1> QED
    BY <1>1, <1>2, <1>3 DEF Proceed, Serve

\* Who waits while nothing is on its way waits for streams that are all held.
LEMMA AllHeld ==
    ASSUME IInv, Attended, ~faulty, spawned = {}, resolving = {},
           \A c \in Calls : pc[c] \in {"ready", "waiting", "holding"},
           NEW w \in Calls, pc[w] = "waiting"
    PROVE  Cardinality({c \in Calls : pc[c] = "holding"}) >= max_streams
  <1>1. w \in Elements(pending)
    BY DEF Attended, Waiters
  <1>2. pending # <<>>
    BY <1>1, EmptySeq DEF Elements
  <1>3. idle = <<>> /\ active_count >= max_streams
    BY <1>2 DEF IInv, NoLostWakeup
  <1>4. Occupying = {c \in Calls : pc[c] = "holding"}
    BY DEF Occupying
  <1>5. Cardinality(resolving) = 0 /\ Len(idle) = 0
    BY <1>3, EmptySeq, FS_EmptySet
  <1>6. SlotsInUse = active_count
    <2>1. Lost = {}
      BY DEF Attended, Lost, Waiters
    <2> QED
      BY <2>1, FS_EmptySet, Countable DEF IInv, Counts
  <1> QED
    BY <1>3, <1>4, <1>5, <1>6, Countable DEF IInv, SlotsInUse

-------------------------------------------------------------------------------
(* Theorems *)

\* Every state of the pool has the types of its variables.
THEOREM PoolTypeCorrect == Spec => []PoolTypeOK
  <1>1. IInv => PoolTypeOK
    BY DEF IInv
  <1> QED
    BY <1>1, AlwaysIInv, PTL

\* active_count is the number of the streams in use, idle and being opened, and
\* of the calls that lost a slot when they were cut off; without faults there is
\* none: no path through acquire, release, _process_pending and _open_and_resolve
\* counts a slot twice, gives one back that was not taken, or loses two at once.
THEOREM CountIsRight == Spec => []CountCoversUse
  <1>1. IInv /\ Attended => CountCoversUse
    BY DEF IInv, Modes, Attended, Waiters, Lost, Counts, CountCoversUse
  <1> QED
    BY <1>1, InitIInv, InitAttended, NextIInv, NextAttended, PTL DEF Spec

\* However acquires, releases and failed hand-overs interleave, nobody is left
\* waiting while a stream is idle or a slot is free.
THEOREM WakeupsAreNotLost == Spec => []NoLostWakeup
  <1>1. IInv => NoLostWakeup
    BY DEF IInv
  <1> QED
    BY <1>1, AlwaysIInv, PTL

\* As long as no session is lost and nobody is cancelled, whoever waits is in the
\* queue or has a task that opens a stream for him: no release drops a future.
THEOREM WaitersAreAttended == Spec => []Attended
  BY InitIInv, InitAttended, NextIInv, NextAttended, PTL DEF Spec

\* A stream is with one call or idle, never with two calls.
THEOREM StreamsAreExclusive == Spec => []ExclusiveHold
  <1>1. IInv => ExclusiveHold
    BY DEF IInv
  <1> QED
    BY <1>1, AlwaysIInv, PTL
===============================================================================
