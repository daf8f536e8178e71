---------------------------- MODULE CallPathProofs ----------------------------
(***************************************************************************)
(* Proofs about CallPath.  What StreamPoolProofs shows of one pool holds   *)
(* of both pools of a connection, because every step of CallPath is a step *)
(* of each pool or leaves it alone.  That only calls nested both ways can  *)
(* stop the connection follows from the counts of the pools and from the   *)
(* fact that no circle of calls, each made in the handler of the next,     *)
(* ever begins.                                                            *)
(*                                                                         *)
(* CP and SP are C and S of CallPath with the lemmas.                      *)
(***************************************************************************)
EXTENDS CallPath, FiniteSetTheorems, TLAPS

CP == INSTANCE StreamPoolProofs WITH
    Calls <- ClientCalls, Reuses <- {FALSE}, Faults <- {FALSE}, MayFinish <- FALSE,
    Limits <- {MaxStreams}, max_streams <- MaxStreams + 0, reuse <- ~TRUE,
    active_count <- c_active, idle <- <<>> \o <<>>, pending <- c_pending,
    spawned <- c_spawned, resolving <- c_resolving, pc <- c_pc,
    stream <- c_stream, remote_closed <- {} \cup {},
    up <- ~FALSE, faulty <- ~TRUE

SP == INSTANCE StreamPoolProofs WITH
    Calls <- ServerCalls, Reuses <- {FALSE}, Faults <- {FALSE}, MayFinish <- FALSE,
    Limits <- {MaxStreams}, max_streams <- MaxStreams + 0, reuse <- ~TRUE,
    active_count <- s_active, idle <- <<>> \o <<>>, pending <- s_pending,
    spawned <- s_spawned, resolving <- s_resolving, pc <- s_pc,
    stream <- s_stream, remote_closed <- {} \cup {},
    up <- ~FALSE, faulty <- ~TRUE

ClientPoolInv == CP!IInv /\ CP!Attended

ServerPoolInv == SP!IInv /\ SP!Attended

-------------------------------------------------------------------------------
(* The pools *)

LEMMA FiniteCalls == IsFiniteSet(ClientCalls) /\ IsFiniteSet(ServerCalls)
  BY FS_Subset, PathAssumption DEF Calls

LEMMA ClientPoolAssumption == CP!PoolAssumption
  <1>1. CP!IsFiniteSet(ClientCalls)
    BY FiniteCalls DEF CP!IsFiniteSet, IsFiniteSet
  <1> QED
    BY <1>1, PathAssumption DEF CP!PoolAssumption

LEMMA ServerPoolAssumption == SP!PoolAssumption
  <1>1. SP!IsFiniteSet(ServerCalls)
    BY FiniteCalls DEF SP!IsFiniteSet, IsFiniteSet
  <1> QED
    BY <1>1, PathAssumption DEF SP!PoolAssumption

\* What CallPath takes from its instance of StreamPool and what the lemmas are
\* about are the same.
LEMMA ClientSteps ==
    ASSUME NEW c \in ClientCalls
    PROVE  /\ C!Init => CP!Init
           /\ C!Acquire(c) => CP!Acquire(c)
           /\ C!Serve(c) => CP!Serve(c)
           /\ C!Release(c) => CP!Release(c)
  <1>1. C!Init => CP!Init
    BY Zenon DEF C!Init, CP!Init
  <1>2. C!Acquire(c) => CP!Acquire(c)
    BY Zenon DEF C!Acquire, CP!Acquire, C!AcquireIdle, CP!AcquireIdle,
           C!AcquireNew, CP!AcquireNew, C!AcquireWait, CP!AcquireWait, C!Last,
           CP!Last, C!Front, CP!Front, C!world, CP!world
  <1>3. C!Serve(c) => CP!Serve(c)
    BY Zenon DEF C!Serve, CP!Serve, C!Opened, CP!Opened, C!Resume, CP!Resume,
           C!StartResolve, CP!StartResolve, C!FinishResolve, CP!FinishResolve,
           C!TakeNew, CP!TakeNew, C!Unused, CP!Unused, C!Elements, CP!Elements,
           C!poolVars, CP!poolVars, C!world, CP!world
  <1>4. C!Release(c) => CP!Release(c)
    BY Zenon DEF C!Release, CP!Release, C!ProcessPending, CP!ProcessPending,
           C!Spawns, CP!Spawns, C!SlotFree, CP!SlotFree, C!Rest, CP!Rest,
           C!Served, CP!Served, C!Taken, CP!Taken, C!Raises, CP!Raises,
           C!Paired, CP!Paired, C!IsCancelled, CP!IsCancelled, C!Keeps,
           CP!Keeps, C!Elements, CP!Elements, C!world, CP!world
  <1> QED
    BY <1>1, <1>2, <1>3, <1>4

LEMMA ClientTypes == CP!IInv => C!PoolTypeOK
  <1>1. CP!PoolTypeOK => C!PoolTypeOK
    BY Zenon DEF C!PoolTypeOK, CP!PoolTypeOK
  <1> QED
    BY <1>1 DEF CP!IInv

\* A step of the pool keeps what is known of it and begins no other call.
LEMMA ClientPoolStep ==
    ASSUME ClientPoolInv, NEW c \in ClientCalls,
           C!Acquire(c) \/ C!Serve(c) \/ C!Release(c)
    PROVE  /\ ClientPoolInv'
           /\ \A d \in ClientCalls :
                 c_pc[d] = "ready" /\ (c # d \/ C!Serve(c) \/ C!Release(c))
                     => c_pc'[d] = "ready"
  <1>1. CP!Acquire(c) \/ CP!Proceed(c)
    BY ClientSteps DEF CP!Proceed
  <1>2. CP!Next
    BY <1>1 DEF CP!Next
  <1>3. ClientPoolInv'
    BY <1>2, ClientPoolAssumption, CP!NextIInv, CP!NextAttended DEF ClientPoolInv
  <1>4. ASSUME NEW d \in ClientCalls, c_pc[d] = "ready",
               c # d \/ C!Serve(c) \/ C!Release(c)
        PROVE  c_pc'[d] = "ready"
    <2>1. c # d \/ CP!Proceed(c)
      BY <1>4, ClientSteps DEF CP!Proceed
    <2> QED
      BY <1>1, <1>4, <2>1, ClientPoolAssumption, CP!OthersStayReady
         DEF ClientPoolInv
  <1> QED
    BY <1>3, <1>4

LEMMA ClientPoolIdle == ClientPoolInv /\ UNCHANGED clientPool => ClientPoolInv'
  <1> SUFFICES ASSUME ClientPoolInv, UNCHANGED clientPool PROVE ClientPoolInv'
    OBVIOUS
  <1>1. UNCHANGED CP!vars
    BY DEF clientPool, CP!vars, CP!poolVars, CP!world
  <1> QED
    BY <1>1, ClientPoolAssumption, CP!NextIInv, CP!NextAttended
       DEF ClientPoolInv

\* What CallPath takes from its instance of StreamPool and what the lemmas are
\* about are the same.
LEMMA ServerSteps ==
    ASSUME NEW c \in ServerCalls
    PROVE  /\ S!Init => SP!Init
           /\ S!Acquire(c) => SP!Acquire(c)
           /\ S!Serve(c) => SP!Serve(c)
           /\ S!Release(c) => SP!Release(c)
  <1>1. S!Init => SP!Init
    BY Zenon DEF S!Init, SP!Init
  <1>2. S!Acquire(c) => SP!Acquire(c)
    BY Zenon DEF S!Acquire, SP!Acquire, S!AcquireIdle, SP!AcquireIdle,
           S!AcquireNew, SP!AcquireNew, S!AcquireWait, SP!AcquireWait, S!Last,
           SP!Last, S!Front, SP!Front, S!world, SP!world
  <1>3. S!Serve(c) => SP!Serve(c)
    BY Zenon DEF S!Serve, SP!Serve, S!Opened, SP!Opened, S!Resume, SP!Resume,
           S!StartResolve, SP!StartResolve, S!FinishResolve, SP!FinishResolve,
           S!TakeNew, SP!TakeNew, S!Unused, SP!Unused, S!Elements, SP!Elements,
           S!poolVars, SP!poolVars, S!world, SP!world
  <1>4. S!Release(c) => SP!Release(c)
    BY Zenon DEF S!Release, SP!Release, S!ProcessPending, SP!ProcessPending,
           S!Spawns, SP!Spawns, S!SlotFree, SP!SlotFree, S!Rest, SP!Rest,
           S!Served, SP!Served, S!Taken, SP!Taken, S!Raises, SP!Raises,
           S!Paired, SP!Paired, S!IsCancelled, SP!IsCancelled, S!Keeps,
           SP!Keeps, S!Elements, SP!Elements, S!world, SP!world
  <1> QED
    BY <1>1, <1>2, <1>3, <1>4

LEMMA ServerTypes == SP!IInv => S!PoolTypeOK
  <1>1. SP!PoolTypeOK => S!PoolTypeOK
    BY Zenon DEF S!PoolTypeOK, SP!PoolTypeOK
  <1> QED
    BY <1>1 DEF SP!IInv

\* A step of the pool keeps what is known of it and begins no other call.
LEMMA ServerPoolStep ==
    ASSUME ServerPoolInv, NEW c \in ServerCalls,
           S!Acquire(c) \/ S!Serve(c) \/ S!Release(c)
    PROVE  /\ ServerPoolInv'
           /\ \A d \in ServerCalls :
                 s_pc[d] = "ready" /\ (c # d \/ S!Serve(c) \/ S!Release(c))
                     => s_pc'[d] = "ready"
  <1>1. SP!Acquire(c) \/ SP!Proceed(c)
    BY ServerSteps DEF SP!Proceed
  <1>2. SP!Next
    BY <1>1 DEF SP!Next
  <1>3. ServerPoolInv'
    BY <1>2, ServerPoolAssumption, SP!NextIInv, SP!NextAttended DEF ServerPoolInv
  <1>4. ASSUME NEW d \in ServerCalls, s_pc[d] = "ready",
               c # d \/ S!Serve(c) \/ S!Release(c)
        PROVE  s_pc'[d] = "ready"
    <2>1. c # d \/ SP!Proceed(c)
      BY <1>4, ServerSteps DEF SP!Proceed
    <2> QED
      BY <1>1, <1>4, <2>1, ServerPoolAssumption, SP!OthersStayReady
         DEF ServerPoolInv
  <1> QED
    BY <1>3, <1>4

LEMMA ServerPoolIdle == ServerPoolInv /\ UNCHANGED serverPool => ServerPoolInv'
  <1> SUFFICES ASSUME ServerPoolInv, UNCHANGED serverPool PROVE ServerPoolInv'
    OBVIOUS
  <1>1. UNCHANGED SP!vars
    BY DEF serverPool, SP!vars, SP!poolVars, SP!world
  <1> QED
    BY <1>1, ServerPoolAssumption, SP!NextIInv, SP!NextAttended
       DEF ServerPoolInv

LEMMA ClientAllHeld ==
    ASSUME ClientPoolInv, c_spawned = {}, c_resolving = {},
           \A c \in ClientCalls : c_pc[c] \in {"ready", "waiting", "holding"},
           NEW w \in ClientCalls, c_pc[w] = "waiting"
    PROVE  Cardinality({c \in ClientCalls : c_pc[c] = "holding"}) >= MaxStreams
  <1>1. CP!Cardinality({c \in ClientCalls : c_pc[c] = "holding"}) >= MaxStreams
    BY ClientPoolAssumption, CP!AllHeld DEF ClientPoolInv
  <1>2. \A T : CP!Cardinality(T) = Cardinality(T)
    BY DEF CP!Cardinality, Cardinality, CP!IsFiniteSet, IsFiniteSet
  <1> QED
    BY <1>1, <1>2

LEMMA ServerAllHeld ==
    ASSUME ServerPoolInv, s_spawned = {}, s_resolving = {},
           \A c \in ServerCalls : s_pc[c] \in {"ready", "waiting", "holding"},
           NEW w \in ServerCalls, s_pc[w] = "waiting"
    PROVE  Cardinality({c \in ServerCalls : s_pc[c] = "holding"}) >= MaxStreams
  <1>1. SP!Cardinality({c \in ServerCalls : s_pc[c] = "holding"}) >= MaxStreams
    BY ServerPoolAssumption, SP!AllHeld DEF ServerPoolInv
  <1>2. \A T : SP!Cardinality(T) = Cardinality(T)
    BY DEF SP!Cardinality, Cardinality, SP!IsFiniteSet, IsFiniteSet
  <1> QED
    BY <1>1, <1>2

-------------------------------------------------------------------------------
(* Every step keeps the invariant *)

\* Calls that would each be made in the handler of another of them never begin.
NoCircle ==
    \A X \in SUBSET DOMAIN within :
        (\A c \in X : within[c] \in X)
            => \A c \in X : ~Busy(c) /\ handler[c] = "none"

PathInv ==
    /\ ClientPoolInv
    /\ ServerPoolInv
    /\ within \in Nestings
    /\ handler \in [Calls -> {"none", "running", "done"}]
    /\ made \subseteq DOMAIN within
    /\ NoCircle

LEMMA InitPathInv == Init => PathInv
  <1> SUFFICES ASSUME Init PROVE PathInv
    OBVIOUS
  <1>1. ClientPoolInv
    <2>1. CP!Init
      BY DEF Init, C!Init, CP!Init
    <2> QED
      BY <2>1, ClientPoolAssumption, CP!InitIInv, CP!InitAttended DEF ClientPoolInv
  <1>2. ServerPoolInv
    <2>1. SP!Init
      BY DEF Init, S!Init, SP!Init
    <2> QED
      BY <2>1, ServerPoolAssumption, SP!InitIInv, SP!InitAttended DEF ServerPoolInv
  <1>3. \A c \in Calls : ~Busy(c)
    BY DEF Init, C!Init, S!Init, Busy, Place, Calls
  <1>4. DOMAIN within \subseteq Calls
    BY PathAssumption DEF Init
  <1>5. NoCircle
    BY <1>3, <1>4 DEF Init, NoCircle
  <1> QED
    BY <1>1, <1>2, <1>5 DEF Init, PathInv

\* A step of one of the pools.
PoolStep(e) == Acquire(e) \/ Serve(e) \/ Release(e)

LEMMA PoolStepKeeps ==
    ASSUME PathInv, NEW e \in Calls, PoolStep(e)
    PROVE  /\ ClientPoolInv' /\ ServerPoolInv'
           /\ \A d \in Calls : ~Busy(d) /\ (e # d \/ Serve(e) \/ Release(e)) => ~Busy(d)'
  <1> USE DEF PathInv
  <1>1. CASE /\ e \in ClientCalls /\ UNCHANGED serverPool
             /\ C!Acquire(e) \/ C!Serve(e) \/ C!Release(e)
    <2>1. ServerPoolInv' /\ s_pc' = s_pc
      BY <1>1, ServerPoolIdle DEF serverPool
    <2>2. ClientPoolInv'
      BY <1>1, ClientPoolStep
    <2>3. ASSUME NEW d \in Calls, ~Busy(d), e # d \/ Serve(e) \/ Release(e)
          PROVE  ~Busy(d)'
      <3>1. CASE d \in ClientCalls
        <4>1. e # d \/ C!Serve(e) \/ C!Release(e)
          BY <1>1, <2>3, PathAssumption DEF Serve, Release
        <4> QED
          BY <1>1, <2>3, <3>1, <4>1, ClientPoolStep DEF Busy, Place
      <3>2. CASE d \notin ClientCalls
        BY <2>1, <2>3, <3>2 DEF Busy, Place
      <3> QED
        BY <3>1, <3>2
    <2> QED
      BY <2>1, <2>2, <2>3
  <1>2. CASE /\ e \in ServerCalls /\ UNCHANGED clientPool
             /\ S!Acquire(e) \/ S!Serve(e) \/ S!Release(e)
    <2>1. ClientPoolInv' /\ c_pc' = c_pc
      BY <1>2, ClientPoolIdle DEF clientPool
    <2>2. ServerPoolInv'
      BY <1>2, ServerPoolStep
    <2>3. ASSUME NEW d \in Calls, ~Busy(d), e # d \/ Serve(e) \/ Release(e)
          PROVE  ~Busy(d)'
      <3>1. CASE d \notin ClientCalls
        <4>1. d \in ServerCalls
          BY <3>1 DEF Calls
        <4>2. e # d \/ S!Serve(e) \/ S!Release(e)
          BY <1>2, <2>3, PathAssumption DEF Serve, Release
        <4> QED
          BY <1>2, <2>3, <3>1, <4>1, <4>2, ServerPoolStep DEF Busy, Place
      <3>2. CASE d \in ClientCalls
        BY <2>1, <2>3, <3>2 DEF Busy, Place
      <3> QED
        BY <3>1, <3>2
    <2> QED
      BY <2>1, <2>2, <2>3
  <1> QED
    BY <1>1, <1>2 DEF PoolStep, Acquire, Serve, Release

LEMMA NextPathInv == PathInv /\ [Next]_vars => PathInv'
  <1> SUFFICES ASSUME PathInv, [Next]_vars PROVE PathInv'
    OBVIOUS
  <1> USE DEF PathInv
  <1>1. CASE UNCHANGED vars
    <2>1. ClientPoolInv' /\ ServerPoolInv'
      BY <1>1, ClientPoolIdle, ServerPoolIdle DEF vars
    <2>2. \A c \in Calls : Busy(c)' = Busy(c)
      BY <1>1 DEF vars, clientPool, serverPool, Busy, Place
    <2>3. DOMAIN within \subseteq Calls
      BY PathAssumption
    <2> QED
      BY <1>1, <2>1, <2>2, <2>3 DEF vars, NoCircle
  <1>2. ASSUME NEW e \in Calls, Start(e) \/ Proceed(e) \/ Abandon(e) PROVE PathInv'
    <2>1. ClientPoolInv' /\ ServerPoolInv'
      <3>1. CASE PoolStep(e)
        BY <3>1, PoolStepKeeps
      <3>2. CASE UNCHANGED <<clientPool, serverPool>>
        BY <3>2, ClientPoolIdle, ServerPoolIdle
      <3> QED
        BY <1>2, <3>1, <3>2 DEF Start, Proceed, Abandon, Handle, Answer, End, PoolStep
    <2>2. within' = within
      BY <1>2 DEF Start, Proceed, Abandon, Serve, Handle, Answer, End
    <2>3. handler' \in [Calls -> {"none", "running", "done"}]
      BY <1>2 DEF Start, Proceed, Abandon, Serve, Handle, Answer, End
    <2>4. NoCircle'
      <3> SUFFICES ASSUME NEW X \in SUBSET DOMAIN within, \A c \in X : within[c] \in X,
                          NEW d \in X
                   PROVE  ~Busy(d)' /\ handler'[d] = "none"
        BY <2>2 DEF NoCircle
      <3>1. X \subseteq Calls /\ NoCall \notin X
        BY PathAssumption
      <3>2. \A c \in X : ~Busy(c) /\ handler[c] = "none"
        BY DEF NoCircle
      <3>3. CASE Start(e)
        <4>1. e \notin X
          BY <3>1, <3>2, <3>3 DEF Start
        <4>2. handler'[d] = "none"
          BY <3>1, <3>2, <3>3 DEF Start
        <4>3. PoolStep(e) /\ e # d
          BY <3>3, <4>1 DEF Start, PoolStep
        <4> QED
          BY <3>1, <3>2, <4>2, <4>3, PoolStepKeeps
      <3>4. CASE Serve(e) \/ Release(e)
        <4>1. ~Busy(d)'
          BY <3>1, <3>2, <3>4, PoolStepKeeps DEF PoolStep
        <4>2. CASE handler' = handler
          BY <3>2, <4>1, <4>2
        <4>3. CASE End(e)
          BY <3>1, <3>2, <4>1, <4>3 DEF End
        <4>4. CASE Handle(e) \/ Answer(e) \/ Start(e)
          <5>1. CASE Start(e)
            BY <3>3, <5>1
          <5>2. CASE Handle(e)
            BY <3>1, <3>2, <4>1, <5>2 DEF Handle, Busy
          <5>3. CASE Answer(e)
            BY <3>1, <3>2, <4>1, <5>3 DEF Answer
          <5> QED
            BY <4>4, <5>1, <5>2, <5>3
        <4> QED
          BY <1>2, <4>2, <4>3, <4>4 DEF Proceed, Serve, Abandon
      <3>5. CASE Handle(e) \/ Answer(e)
        <4>1. e \notin X
          BY <3>2, <3>5 DEF Handle, Answer, Busy
        <4>2. handler'[d] = "none"
          BY <3>1, <3>2, <3>5, <4>1 DEF Handle, Answer
        <4>3. Busy(d)' = Busy(d)
          BY <3>5 DEF Handle, Answer, clientPool, serverPool, Busy, Place
        <4> QED
          BY <3>2, <4>2, <4>3
      <3> QED
        BY <1>2, <3>3, <3>4, <3>5 DEF Proceed, Abandon, End
    <2>5. made' \subseteq DOMAIN within
      BY <1>2 DEF Start, Proceed, Abandon, Serve, Handle, Answer, End
    <2> QED
      BY <2>1, <2>2, <2>3, <2>4, <2>5
  <1> QED
    BY <1>1, <1>2 DEF Next

LEMMA AlwaysPathInv == Spec => []PathInv
  BY InitPathInv, NextPathInv, PTL DEF Spec

-------------------------------------------------------------------------------
(* What stops a connection *)

\* At a standstill a call that does not wait is awaited by its handler's call.
LEMMA InnerIsBusy ==
    ASSUME Standstill, NEW c \in Calls, Place(c) = "holding"
    PROVE  \E d \in Inner(c) : Busy(d)
  BY DEF Standstill, Busy

\* As many calls are held in Q as in P, if the calls made in the handlers of P's
\* calls are held.
LEMMA HeldByInner ==
    ASSUME NEW P, NEW Q, IsFiniteSet(P), IsFiniteSet(Q),
           NEW H, H = {c \in P : Place(c) = "holding"},
           NEW K, K = {d \in Q : Place(d) = "holding"},
           \A c \in H : Inner(c) \cap K # {}
    PROVE  /\ IsFiniteSet(H) /\ IsFiniteSet(K)
           /\ Cardinality(H) <= Cardinality(K)
           /\ P = Q => \A d \in K : d \in DOMAIN within /\ within[d] \in H
  <1> DEFINE f == [c \in H |-> CHOOSE d \in Inner(c) \cap K : TRUE]
  <1>1. IsFiniteSet(H) /\ IsFiniteSet(K)
    BY FS_Subset
  <1>2. \A c \in H : f[c] \in Inner(c) \cap K
    OBVIOUS
  <1>3. f \in [H -> K]
    BY <1>2
  <1>4. \A c \in H : f[c] \in DOMAIN within /\ within[f[c]] = c
    BY <1>2 DEF Inner
  <1> HIDE DEF f
  <1>5. f \in Injection(H, K)
    BY <1>3, <1>4 DEF Injection, IsInjective
  <1>6. /\ Cardinality(H) <= Cardinality(K)
        /\ Cardinality(H) = Cardinality(K) <=> f \in Surjection(H, K)
    BY <1>1, <1>5, FS_Injection
  <1>7. ASSUME P = Q, NEW d \in K PROVE d \in DOMAIN within /\ within[d] \in H
    <2>1. H = K
      BY <1>7
    <2>2. f \in Surjection(H, K)
      BY <1>6, <2>1
    <2>3. PICK c \in H : f[c] = d
      BY <2>2 DEF Surjection
    <2> QED
      BY <1>4, <2>3
  <1> QED
    BY <1>1, <1>6, <1>7

LEMMA StandstillIsFull == PathInv => OnlyNestingBlocks
  <1> SUFFICES ASSUME PathInv, Standstill
               PROVE  /\ Cardinality({c \in ClientCalls : Place(c) = "holding"}) >= MaxStreams
                      /\ Cardinality({c \in ServerCalls : Place(c) = "holding"}) >= MaxStreams
    BY DEF OnlyNestingBlocks
  <1> DEFINE CH == {c \in ClientCalls : Place(c) = "holding"}
             SH == {c \in ServerCalls : Place(c) = "holding"}
             AH == {c \in Calls : Place(c) = "holding"}
             AnyWaits(P) == \E c \in P : Place(c) = "waiting"
  <1>1. /\ \A c \in Calls : Place(c) \in {"ready", "waiting", "holding"}
        /\ \A c \in ClientCalls : c \in Calls /\ Place(c) = c_pc[c]
        /\ \A c \in ServerCalls : c \in Calls /\ Place(c) = s_pc[c]
    BY PathAssumption DEF Standstill, Busy, Place, Calls
  <1>2. /\ \A c \in ClientCalls : Inner(c) \subseteq ServerCalls
        /\ \A c \in ServerCalls : Inner(c) \subseteq ClientCalls
    <2>1. PICK M \in SUBSET Calls :
             /\ within \in [M -> M \cup {NoCall}]
             /\ \A d \in M : within[d] # NoCall =>
                   (d \in ClientCalls <=> within[d] \in ServerCalls)
      BY PathAssumption DEF PathInv
    <2> QED
      BY <2>1, PathAssumption DEF Inner, Calls
  <1>3. AnyWaits(ClientCalls) => Cardinality(CH) >= MaxStreams
    <2>1. SUFFICES ASSUME NEW w \in ClientCalls, Place(w) = "waiting"
                   PROVE  Cardinality(CH) >= MaxStreams
      OBVIOUS
    <2>2. CH = {c \in ClientCalls : c_pc[c] = "holding"}
      BY <1>1
    <2>3. \A c \in ClientCalls : c_pc[c] \in {"ready", "waiting", "holding"}
      BY <1>1
    <2>4. c_spawned = {} /\ c_resolving = {} /\ c_pc[w] = "waiting"
      BY <1>1, <2>1 DEF Standstill
    <2> QED
      BY <2>2, <2>3, <2>4, ClientAllHeld DEF PathInv
  <1>4. AnyWaits(ServerCalls) => Cardinality(SH) >= MaxStreams
    <2>1. SUFFICES ASSUME NEW w \in ServerCalls, Place(w) = "waiting"
                   PROVE  Cardinality(SH) >= MaxStreams
      OBVIOUS
    <2>2. SH = {c \in ServerCalls : s_pc[c] = "holding"}
      BY <1>1
    <2>3. \A c \in ServerCalls : s_pc[c] \in {"ready", "waiting", "holding"}
      BY <1>1
    <2>4. s_spawned = {} /\ s_resolving = {} /\ s_pc[w] = "waiting"
      BY <1>1, <2>1 DEF Standstill
    <2> QED
      BY <2>2, <2>3, <2>4, ServerAllHeld DEF PathInv
  <1>5. ASSUME ~AnyWaits(ServerCalls) PROVE Cardinality(CH) <= Cardinality(SH)
    <2>1. \A c \in CH : Inner(c) \cap SH # {}
      BY <1>1, <1>2, <1>5, InnerIsBusy DEF Busy
    <2> QED
      BY <2>1, FiniteCalls, HeldByInner
  <1>6. ASSUME ~AnyWaits(ClientCalls) PROVE Cardinality(SH) <= Cardinality(CH)
    <2>1. \A c \in SH : Inner(c) \cap CH # {}
      BY <1>1, <1>2, <1>6, InnerIsBusy DEF Busy
    <2> QED
      BY <2>1, FiniteCalls, HeldByInner
  <1>7. AnyWaits(ClientCalls) \/ AnyWaits(ServerCalls)
    <2> SUFFICES ASSUME ~AnyWaits(Calls) PROVE FALSE
      BY DEF Calls
    <2>1. \A c \in AH : Inner(c) \cap AH # {}
      BY <1>1, <1>2, InnerIsBusy DEF Busy, Calls
    <2>2. \A d \in AH : d \in DOMAIN within /\ within[d] \in AH
      BY <2>1, PathAssumption, HeldByInner
    <2>3. \A d \in AH : ~Busy(d)
      BY <2>2 DEF PathInv, NoCircle
    <2>4. \E c \in AH : Busy(c)
      BY <1>1 DEF Standstill, Busy
    <2> QED
      BY <2>3, <2>4
  <1>8. /\ Cardinality(CH) \in Nat /\ Cardinality(SH) \in Nat
        /\ MaxStreams \in Nat
    <2>1. CH \in SUBSET ClientCalls /\ SH \in SUBSET ServerCalls
      OBVIOUS
    <2> QED
      BY <2>1, FiniteCalls, FS_Subset, FS_CardinalityType, PathAssumption
  <1> QED
    BY <1>3, <1>4, <1>5, <1>6, <1>7, <1>8

-------------------------------------------------------------------------------
(* Theorems *)

\* Both pools, the nesting and the handlers have the types of their variables.
THEOREM PathTypesKept == Spec => []TypeOK
  <1>1. PathInv => TypeOK
    BY ClientTypes, ServerTypes DEF PathInv, ClientPoolInv, ServerPoolInv, TypeOK
  <1> QED
    BY <1>1, AlwaysPathInv, PTL

\* A connection on which nothing can go on has all max_streams streams of both
\* pools in calls whose handlers wait: nothing but calls nested both ways stops
\* it, for every number of calls, limit and way of nesting.
THEOREM NestingAloneBlocks == Spec => []OnlyNestingBlocks
  BY StandstillIsFull, AlwaysPathInv, PTL
===============================================================================
