---------------------------- MODULE StartupProofs ----------------------------
(***************************************************************************)
(* Theorems about Startup, for any threads, components, producers and      *)
(* allocators and pools of every size: the slots of the two pools are      *)
(* exact, and what the component states and the packets about them say     *)
(* while the threads report them.                                          *)
(*                                                                         *)
(* SlotsExact speaks of a pool whose lock is free.  Between the slot that  *)
(* a producer takes and the count that follows it, its thread holds the    *)
(* lock, through the initialisation of its allocator and the report of an  *)
(* error: the invariant says which threads are there, and that the count   *)
(* is behind by one while there is one.                                    *)
(***************************************************************************)
EXTENDS Startup, FiniteSetTheorems, SequenceTheorems, TLAPS

InitStates ==
    [at : {"idle", "producer", "allocator", "slot", "initialised", "report"},
     producer : Producers \cup {None}, allocator : Allocators \cup {None}]

\* A producer of t has a slot that is not counted yet
Taking(t) ==
    init[t].producer # None /\ init[t].at \in {"allocator", "slot", "initialised"}

ProducersTaken ==
    cur_producer_pool_index + (IF \E t \in Threads : Taking(t) THEN 1 ELSE 0)

AllocatorsTaken == cur_allocator_pool_index + (IF register_mutex = None THEN 0 ELSE 1)

InUse(impl, S) == {s \in S : impl[s] # 0}

\* The first n slots of a pool are in use, each by one member of S
Pool(impl, S, n) ==
    /\ impl \in [S -> Nat] /\ n \in Nat
    /\ IsFiniteSet(InUse(impl, S)) /\ Cardinality(InUse(impl, S)) = n
    /\ \A s \in S : impl[s] <= n
    /\ \A r, s \in S : impl[r] = impl[s] /\ r # s => impl[r] = 0

InitsOK ==
    /\ init \in [Threads -> InitStates]
    /\ ~is_started => \A t \in Threads : init[t] = NoInit
    /\ \A t \in Threads :
         /\ init[t].at \in {"producer", "initialised"} => init[t].producer \in Producers
         /\ init[t].at \in {"producer", "allocator", "slot"} => init[t].allocator \in Allocators

LocksOK ==
    /\ producer_register_mutex \in Threads \cup {None}
    /\ register_mutex \in Threads \cup {None}
    /\ \A t \in Threads : Taking(t) => producer_register_mutex = t
    /\ \A t \in Threads : init[t].at = "slot" <=> register_mutex = t

PoolsOK ==
    /\ cur_producer_pool_index \in Nat /\ cur_allocator_pool_index \in Nat
    /\ Pool(producer_impl, Producers, ProducersTaken)
    /\ Pool(allocator_impl, Allocators, AllocatorsTaken)

StartupInv == InitsOK /\ LocksOK /\ PoolsOK

-----------------------------------------------------------------------------
\* A pool of which nothing is in use.
LEMMA EmptyPool ==
    ASSUME NEW S
    PROVE  Pool([s \in S |-> 0], S, 0)
<1>1. InUse([s \in S |-> 0], S) = {}
  BY DEF InUse
<1> QED
  BY <1>1, FS_EmptySet DEF Pool

\* The next slot goes to a member that has none.
LEMMA NextSlot ==
    ASSUME NEW S, NEW impl, NEW n, Pool(impl, S, n), NEW x \in S, impl[x] = 0
    PROVE  Pool([impl EXCEPT ![x] = n + 1], S, n + 1)
<1> DEFINE impl2 == [impl EXCEPT ![x] = n + 1]
<1>1. impl \in [S -> Nat] /\ n \in Nat
  BY DEF Pool
<1>2. impl2 \in [S -> Nat] /\ impl2[x] = n + 1 /\ \A s \in S \ {x} : impl2[s] = impl[s]
  BY <1>1
<1>3. InUse(impl2, S) = InUse(impl, S) \cup {x}
  BY <1>1, <1>2 DEF InUse
<1>4. IsFiniteSet(InUse(impl2, S)) /\ Cardinality(InUse(impl2, S)) = n + 1
  <2> DEFINE T == InUse(impl, S)
  <2>1. x \notin T
    BY DEF InUse
  <2>2. IsFiniteSet(T) /\ Cardinality(T) = n
    BY DEF Pool
  <2> HIDE DEF T
  <2>3. IsFiniteSet(T \cup {x}) /\ Cardinality(T \cup {x}) = Cardinality(T) + 1
    BY <2>1, <2>2, FS_AddElement
  <2> QED
    BY <1>3, <2>2, <2>3 DEF T
<1>5. \A s \in S : impl[s] <= n
  BY DEF Pool
<1>6. \A s \in S : impl2[s] <= n + 1
  <2> TAKE s \in S
  <2>1. impl[s] <= n /\ impl[s] \in Nat
    BY <1>1, <1>5
  <2> QED
    BY <1>1, <1>2, <2>1
<1>7. \A r, s \in S : impl2[r] = impl2[s] /\ r # s => impl2[r] = 0
  <2> SUFFICES ASSUME NEW r \in S, NEW s \in S, impl2[r] = impl2[s], r # s
               PROVE  impl2[r] = 0
    OBVIOUS
  <2>1. impl[r] <= n /\ impl[s] <= n /\ impl[r] \in Nat /\ impl[s] \in Nat
    BY <1>1, <1>5
  <2>2. r # x /\ s # x
    BY <1>1, <1>2, <2>1
  <2>3. impl[r] = impl[s] => impl[r] = 0
    BY DEF Pool
  <2> QED
    BY <1>2, <2>2, <2>3
<1> HIDE DEF impl2
<1>8. Pool(impl2, S, n + 1)
  BY <1>1, <1>2, <1>4, <1>6, <1>7 DEF Pool
<1> QED
  BY <1>8 DEF impl2

-----------------------------------------------------------------------------
\* A step that leaves the pools alone and no thread in or out of the part of an
\* initialisation that holds a lock.
LEMMA PoolsAlone ==
    ASSUME StartupInv, InitsOK', UNCHANGED pools,
           \A t \in Threads : Taking(t)' = Taking(t),
           \A t \in Threads : (init'[t].at = "slot") = (init[t].at = "slot")
    PROVE  StartupInv'
<1>1. LocksOK'
  BY DEF StartupInv, LocksOK, pools
<1>2. ProducersTaken' = ProducersTaken /\ AllocatorsTaken' = AllocatorsTaken
  BY DEF ProducersTaken, AllocatorsTaken, pools
<1>3. PoolsOK'
  BY <1>2 DEF StartupInv, PoolsOK, pools, Pool, InUse
<1> QED
  BY <1>1, <1>3 DEF StartupInv

LEMMA InitialPools == StartupInit => StartupInv
<1> SUFFICES ASSUME StartupInit PROVE StartupInv
  OBVIOUS
<1> USE StartupAssumption DEF StartupInit
<1>1. InitsOK
  BY DEF InitsOK, InitStates, NoInit
<1>2. \A t \in Threads : ~Taking(t) /\ init[t].at # "slot"
  BY DEF Taking, NoInit
<1>3. LocksOK
  BY <1>2 DEF LocksOK
<1>4. ProducersTaken = 0 /\ AllocatorsTaken = 0
  BY <1>2 DEF ProducersTaken, AllocatorsTaken
<1>5. PoolsOK
  BY <1>4, EmptyPool DEF PoolsOK
<1> QED
  BY <1>1, <1>3, <1>5 DEF StartupInv

\* A thread that is in no initialisation begins one.
LEMMA BeginKeeps ==
    ASSUME StartupInv, NEW t \in Threads, NEW call \in InitStates,
           init[t] = NoInit, init' = [init EXCEPT ![t] = call], is_started',
           UNCHANGED pools, call.allocator \in Allocators,
           \/ call.at = "producer" /\ call.producer \in Producers
           \/ call.at = "allocator" /\ call.producer = None
    PROVE  StartupInv'
<1>1. InitsOK'
  BY DEF StartupInv, InitsOK, InitStates
<1>2. \A u \in Threads : Taking(u)' = Taking(u)
  BY DEF StartupInv, InitsOK, Taking, NoInit
<1>3. \A u \in Threads : (init'[u].at = "slot") = (init[u].at = "slot")
  BY DEF StartupInv, InitsOK, NoInit
<1> QED
  BY <1>1, <1>2, <1>3, PoolsAlone

LEMMA StartKeeps == StartupInv /\ Start => StartupInv'
<1> SUFFICES ASSUME StartupInv, Start PROVE StartupInv'
  OBVIOUS
<1>1. init[Main] = NoInit /\ Main \in Threads
  BY ComponentAssumption DEF Start, StartupInv, InitsOK
<1>2. CASE init' = init
  BY <1>2, PoolsAlone DEF Start, StartupInv, InitsOK, Taking
<1>3. CASE init' = [init EXCEPT ![Main] = Calls(state_producer)]
  <2>1. Calls(state_producer) \in InitStates /\ Calls(state_producer).allocator \in Allocators
    BY StartupAssumption DEF Calls, InitStates
  <2> QED
    BY <1>1, <1>3, <2>1, BeginKeeps, StartupAssumption DEF Start, Calls
<1> QED
  BY <1>2, <1>3 DEF Start

LEMMA InitKeeps ==
    ASSUME StartupInv, NEW t \in Threads, ProducerInit(t) \/ AllocatorInit(t)
    PROVE  StartupInv'
<1>1. is_started' /\ UNCHANGED pools /\ init[t] = NoInit
  BY DEF ProducerInit, AllocatorInit, Begins
<1>2. CASE ProducerInit(t)
  <2>1. PICK p \in Producers : init' = [init EXCEPT ![t] = Calls(p)]
    BY <1>2, StartupAssumption DEF ProducerInit
  <2>2. Calls(p) \in InitStates /\ Calls(p).allocator \in Allocators
    BY StartupAssumption DEF Calls, InitStates
  <2> QED
    BY <1>1, <2>1, <2>2, BeginKeeps DEF Calls
<1>3. CASE AllocatorInit(t)
  <2>1. PICK a \in Allocators :
          init' = [init EXCEPT ![t] = [at |-> "allocator", producer |-> None, allocator |-> a]]
    BY <1>3, StartupAssumption DEF AllocatorInit
  <2>2. [at |-> "allocator", producer |-> None, allocator |-> a] \in InitStates
    BY DEF InitStates
  <2> QED
    BY <1>1, <2>1, <2>2, BeginKeeps
<1> QED
  BY <1>2, <1>3

-----------------------------------------------------------------------------
\* A thread goes on to a label of its initialisation, and no other thread does.
LEMMA GoesOK ==
    ASSUME StartupInv, NEW t \in Threads, NEW label, Goes(t, label),
           init[t].at # "idle", UNCHANGED is_started,
           \/ label \in {"idle", "report"}
           \/ label = "initialised" /\ init[t].producer \in Producers
           \/ label \in {"allocator", "slot"} /\ init[t].allocator \in Allocators
    PROVE  /\ InitsOK'
           /\ init'[t].at = label
           /\ label # "idle" => init'[t].producer = init[t].producer
           /\ \A u \in Threads : u # t => init'[u] = init[u]
<1>1. init \in [Threads -> InitStates] /\ init[t] \in InitStates
  BY DEF StartupInv, InitsOK
<1>2. init' \in [Threads -> InitStates] /\ \A u \in Threads : u # t => init'[u] = init[u]
  BY <1>1 DEF Goes, InitStates, NoInit
<1>3. init'[t].at = label
  BY <1>1 DEF Goes, InitStates, NoInit
<1>4. label # "idle" => /\ init'[t].producer = init[t].producer
                       /\ init'[t].allocator = init[t].allocator
  BY <1>1 DEF Goes, InitStates
<1>5. is_started
  BY DEF StartupInv, InitsOK, NoInit
<1>6. \A u \in Threads :
         /\ init'[u].at \in {"producer", "initialised"} => init'[u].producer \in Producers
         /\ init'[u].at \in {"producer", "allocator", "slot"} => init'[u].allocator \in Allocators
  BY <1>2, <1>3, <1>4 DEF StartupInv, InitsOK
<1> QED
  BY <1>2, <1>3, <1>4, <1>5, <1>6 DEF InitsOK

\* What the taker of the lock of the producers does.
LEMMA LockProducersKeeps ==
    ASSUME StartupInv, NEW t \in Threads, LockProducers(t) PROVE StartupInv'
<1>1. /\ init[t].at = "producer" /\ producer_register_mutex = None
      /\ init[t].producer \in Producers /\ init[t].allocator \in Allocators
      /\ UNCHANGED is_started
  BY DEF LockProducers, InitAt, StartupInv, InitsOK
<1>2. \A u \in Threads : ~Taking(u)
  BY <1>1, StartupAssumption DEF StartupInv, LocksOK
<1>3. CASE ProducerKnown(t)
  <2>1. Goes(t, "idle") /\ UNCHANGED pools
    BY <1>3 DEF ProducerKnown
  <2>2. InitsOK' /\ init'[t].at = "idle" /\ \A u \in Threads : u # t => init'[u] = init[u]
    BY <1>1, <2>1, GoesOK
  <2>3. \A u \in Threads : Taking(u)' = Taking(u)
    BY <1>1, <2>2 DEF Taking
  <2>4. \A u \in Threads : (init'[u].at = "slot") = (init[u].at = "slot")
    BY <1>1, <2>2
  <2> QED
    BY <2>1, <2>2, <2>3, <2>4, PoolsAlone
<1>4. CASE ProducersFull(t)
  <2>1. /\ Goes(t, "report") /\ producer_register_mutex' \in {t, None}
        /\ UNCHANGED <<producer_impl, allocator_impl, cur_producer_pool_index,
                       cur_allocator_pool_index, register_mutex>>
    BY <1>4 DEF ProducersFull
  <2>2. InitsOK' /\ init'[t].at = "report" /\ \A u \in Threads : u # t => init'[u] = init[u]
    BY <1>1, <2>1, GoesOK
  <2>3. \A u \in Threads : ~Taking(u)' /\ (init'[u].at = "slot" <=> init[u].at = "slot")
    BY <1>1, <1>2, <2>2 DEF Taking
  <2>4. LocksOK'
    BY <2>1, <2>3 DEF LocksOK, StartupInv
  <2>5. ProducersTaken' = ProducersTaken /\ AllocatorsTaken' = AllocatorsTaken
    BY <1>2, <2>1, <2>3 DEF ProducersTaken, AllocatorsTaken
  <2>6. PoolsOK'
    BY <2>1, <2>5 DEF StartupInv, PoolsOK, Pool, InUse
  <2> QED
    BY <2>2, <2>4, <2>6 DEF StartupInv
<1>5. CASE ProducerSlot(t)
  <2> DEFINE p == init[t].producer
             n == cur_producer_pool_index
  <2>1. /\ Goes(t, "initialised") \/ Goes(t, "allocator")
        /\ producer_register_mutex' = t
        /\ producer_impl[p] = 0 /\ producer_impl' = [producer_impl EXCEPT ![p] = n + 1]
        /\ UNCHANGED <<allocator_impl, n, cur_allocator_pool_index, register_mutex>>
    BY <1>5 DEF ProducerSlot
  <2>2. InitsOK' /\ init'[t].at \in {"initialised", "allocator"} /\ init'[t].producer = p
        /\ \A u \in Threads : u # t => init'[u] = init[u]
    BY <1>1, <2>1, GoesOK
  <2>3. Taking(t)'
    BY <1>1, <2>2, StartupAssumption DEF Taking
  <2>4. \A u \in Threads : u # t => ~Taking(u)'
    BY <1>2, <2>2 DEF Taking
  <2>5. LocksOK'
    BY <1>1, <2>1, <2>2, <2>4 DEF LocksOK, StartupInv
  <2>6. ProducersTaken = n /\ ProducersTaken' = n + 1 /\ AllocatorsTaken' = AllocatorsTaken
    BY <1>2, <2>1, <2>3 DEF ProducersTaken, AllocatorsTaken, StartupInv, PoolsOK
  <2>7. Pool(producer_impl, Producers, n)
    BY <2>6 DEF StartupInv, PoolsOK
  <2>8. Pool(producer_impl', Producers, n + 1)
    BY <1>1, <2>1, <2>7, NextSlot
  <2>9. Pool(producer_impl', Producers, ProducersTaken')
    BY <2>6, <2>8
  <2>10. Pool(allocator_impl', Allocators, AllocatorsTaken')
    BY <2>1, <2>6 DEF StartupInv, PoolsOK
  <2>11. PoolsOK'
    BY <2>1, <2>9, <2>10 DEF StartupInv, PoolsOK, Pool, InUse
  <2> QED
    BY <2>2, <2>5, <2>11 DEF StartupInv
<1> QED
  BY <1>3, <1>4, <1>5 DEF LockProducers

\* The slot is counted and the lock is free: no other thread was behind it.
LEMMA UnlockProducersKeeps ==
    ASSUME StartupInv, NEW t \in Threads, UnlockProducers(t) \/ Reported(t) PROVE StartupInv'
<1>1. /\ init[t].at \in {"initialised", "report"} /\ Goes(t, "idle")
      /\ UNCHANGED <<is_started, producer_impl, allocator_impl, cur_allocator_pool_index,
                     register_mutex>>
  BY DEF UnlockProducers, Reported, InitAt
<1>2. InitsOK' /\ init'[t].at = "idle" /\ \A u \in Threads : u # t => init'[u] = init[u]
  BY <1>1, GoesOK
<1>3. ~Taking(t)' /\ \A u \in Threads : u # t => Taking(u)' = Taking(u)
  BY <1>2 DEF Taking
<1>4. \A u \in Threads : init'[u].at = "slot" <=> init[u].at = "slot"
  BY <1>1, <1>2
<1>5. AllocatorsTaken' = AllocatorsTaken
  BY <1>1 DEF AllocatorsTaken
<1>6. \A u \in Threads : Taking(u) => producer_register_mutex = u
  BY DEF StartupInv, LocksOK
<1>7. CASE UnlockProducers(t)
  <2>1. /\ init[t].at = "initialised" /\ producer_register_mutex' = None
        /\ cur_producer_pool_index' = cur_producer_pool_index + 1
    BY <1>7 DEF UnlockProducers, InitAt
  <2>2. Taking(t)
    BY <2>1, StartupAssumption DEF Taking, StartupInv, InitsOK
  <2>3. \A u \in Threads : ~Taking(u)'
    BY <1>3, <1>6, <2>2
  <2>4. ProducersTaken' = ProducersTaken
    BY <2>1, <2>2, <2>3 DEF ProducersTaken, StartupInv, PoolsOK
  <2>5. PoolsOK'
    BY <1>1, <1>5, <2>1, <2>4 DEF StartupInv, PoolsOK, Pool, InUse
  <2>6. LocksOK'
    BY <1>1, <1>4, <2>1, <2>3 DEF LocksOK, StartupInv
  <2> QED
    BY <1>2, <2>5, <2>6 DEF StartupInv
<1>8. CASE Reported(t)
  <2>1. /\ init[t].at = "report" /\ UNCHANGED cur_producer_pool_index
        /\ producer_register_mutex' =
             IF producer_register_mutex = t THEN None ELSE producer_register_mutex
    BY <1>8 DEF Reported, InitAt
  <2>2. ~Taking(t)
    BY <2>1 DEF Taking
  <2>3. \A u \in Threads : Taking(u)' = Taking(u)
    BY <1>3, <2>2 DEF Taking
  <2>4. ProducersTaken' = ProducersTaken
    BY <2>1, <2>3 DEF ProducersTaken
  <2>5. PoolsOK'
    BY <1>1, <1>5, <2>1, <2>4 DEF StartupInv, PoolsOK, Pool, InUse
  <2>6. LocksOK'
    BY <1>1, <1>4, <1>6, <2>1, <2>2, <2>3 DEF LocksOK, StartupInv
  <2> QED
    BY <1>2, <2>5, <2>6 DEF StartupInv
<1> QED
  BY <1>7, <1>8

\* Where telemetry_allocator_init returns to is a place a thread can be.
LEMMA CallerOK ==
    ASSUME StartupInv, NEW t \in Threads
    PROVE  /\ init[t].producer = None => Caller(t) = "idle"
           /\ init[t].producer # None => Caller(t) = "initialised" /\ init[t].producer \in Producers
  BY DEF Caller, StartupInv, InitsOK, InitStates

\* The allocator is known, or the pool is full; a thread that has taken a slot
\* for its producer has it still.
LEMMA NoAllocatorSlotKeeps ==
    ASSUME StartupInv, NEW t \in Threads, LockAllocators(t),
           AllocatorKnown(t) \/ AllocatorsFull(t)
    PROVE  StartupInv'
<1>1. init[t].at = "allocator" /\ UNCHANGED pools /\ UNCHANGED is_started
  BY DEF LockAllocators, InitAt, AllocatorKnown, AllocatorsFull, pools
<1>2. PICK label \in {"idle", "report", "initialised"} :
        /\ Goes(t, label)
        /\ label = "initialised" <=> init[t].producer # None
  BY CallerOK DEF AllocatorKnown, AllocatorsFull
<1>3. label = "initialised" => init[t].producer \in Producers
  BY <1>2, CallerOK
<1>4. /\ InitsOK' /\ init'[t].at = label
      /\ label # "idle" => init'[t].producer = init[t].producer
      /\ \A u \in Threads : u # t => init'[u] = init[u]
  BY <1>1, <1>2, <1>3, GoesOK
<1>5. \A u \in Threads : Taking(u)' = Taking(u)
  BY <1>1, <1>2, <1>4 DEF Taking
<1>6. \A u \in Threads : (init'[u].at = "slot") = (init[u].at = "slot")
  BY <1>1, <1>4
<1> QED
  BY <1>1, <1>4, <1>5, <1>6, PoolsAlone

LEMMA AllocatorSlotKeeps ==
    ASSUME StartupInv, NEW t \in Threads, LockAllocators(t), AllocatorSlot(t)
    PROVE  StartupInv'
<1> DEFINE a == init[t].allocator
           n == cur_allocator_pool_index
<1>1. /\ init[t].at = "allocator" /\ register_mutex = None /\ a \in Allocators
      /\ UNCHANGED <<is_started, producer_impl, cur_producer_pool_index, n,
                     producer_register_mutex>>
  BY DEF LockAllocators, InitAt, StartupInv, InitsOK
<1>2. /\ Goes(t, "slot") /\ register_mutex' = t
      /\ allocator_impl[a] = 0 /\ allocator_impl' = [allocator_impl EXCEPT ![a] = n + 1]
  BY DEF AllocatorSlot
<1>3. /\ InitsOK' /\ init'[t].at = "slot" /\ init'[t].producer = init[t].producer
      /\ \A u \in Threads : u # t => init'[u] = init[u]
  BY <1>1, <1>2, GoesOK
<1>4. \A u \in Threads : Taking(u)' = Taking(u)
  BY <1>1, <1>3 DEF Taking
<1>5. \A u \in Threads : init[u].at # "slot"
  BY <1>1, StartupAssumption DEF StartupInv, LocksOK
<1>6. LocksOK'
  BY <1>1, <1>2, <1>3, <1>4, <1>5 DEF LocksOK, StartupInv
<1>7. /\ AllocatorsTaken = n /\ AllocatorsTaken' = n + 1
      /\ ProducersTaken' = ProducersTaken
  BY <1>1, <1>2, <1>4, StartupAssumption
     DEF AllocatorsTaken, ProducersTaken, StartupInv, PoolsOK
<1>8. Pool(allocator_impl, Allocators, n)
  BY <1>7 DEF StartupInv, PoolsOK
<1>9. Pool(allocator_impl', Allocators, n + 1)
  BY <1>1, <1>2, <1>8, NextSlot
<1>10. Pool(allocator_impl', Allocators, AllocatorsTaken')
  BY <1>7, <1>9
<1>11. Pool(producer_impl', Producers, ProducersTaken')
  BY <1>1, <1>7 DEF StartupInv, PoolsOK
<1>12. PoolsOK'
  BY <1>1, <1>10, <1>11 DEF StartupInv, PoolsOK, Pool, InUse
<1> QED
  BY <1>3, <1>6, <1>12 DEF StartupInv

LEMMA UnlockAllocatorsKeeps ==
    ASSUME StartupInv, NEW t \in Threads, UnlockAllocators(t) PROVE StartupInv'
<1>1. /\ init[t].at = "slot" /\ Goes(t, Caller(t))
      /\ cur_allocator_pool_index' = cur_allocator_pool_index + 1 /\ register_mutex' = None
      /\ UNCHANGED <<is_started, producer_impl, allocator_impl, cur_producer_pool_index,
                     producer_register_mutex>>
  BY DEF UnlockAllocators, InitAt
<1>2. register_mutex = t /\ \A u \in Threads : u # t => init[u].at # "slot"
  BY <1>1 DEF StartupInv, LocksOK
<1>3. /\ InitsOK' /\ init'[t].at = Caller(t)
      /\ Caller(t) # "idle" => init'[t].producer = init[t].producer
      /\ \A u \in Threads : u # t => init'[u] = init[u]
  BY <1>1, CallerOK, GoesOK
<1>4. \A u \in Threads : Taking(u)' = Taking(u)
  BY <1>1, <1>3, CallerOK DEF Taking
<1>5. \A u \in Threads : init'[u].at # "slot"
  BY <1>2, <1>3, CallerOK
<1>6. LocksOK'
  BY <1>1, <1>4, <1>5, StartupAssumption DEF LocksOK, StartupInv
<1>7. AllocatorsTaken' = AllocatorsTaken /\ ProducersTaken' = ProducersTaken
  BY <1>1, <1>2, <1>4, StartupAssumption
     DEF AllocatorsTaken, ProducersTaken, StartupInv, PoolsOK
<1>8. PoolsOK'
  BY <1>1, <1>7 DEF StartupInv, PoolsOK, Pool, InUse
<1> QED
  BY <1>3, <1>6, <1>8 DEF StartupInv

\* The reports themselves touch no pool.
LEMMA StatesKeep == StartupInv /\ UNCHANGED startVars => StartupInv'
<1> SUFFICES ASSUME StartupInv, UNCHANGED startVars PROVE StartupInv'
  OBVIOUS
<1>1. UNCHANGED <<is_started, init, pools>>
  BY DEF startVars
<1>2. InitsOK'
  BY <1>1 DEF StartupInv, InitsOK
<1> QED
  BY <1>1, <1>2, PoolsAlone DEF Taking

LEMMA StartupStep == StartupInv /\ [StartupNext]_allVars => StartupInv'
<1> SUFFICES ASSUME StartupInv, [StartupNext]_allVars PROVE StartupInv'
  OBVIOUS
<1>1. CASE UNCHANGED allVars
  BY <1>1, StatesKeep DEF allVars
<1>2. CASE Start \/ StatesRegistered
  BY <1>2, StartKeeps, StatesKeep DEF StatesRegistered
<1>3. ASSUME NEW t \in Threads, ProducerInit(t) \/ AllocatorInit(t) PROVE StartupInv'
  BY <1>3, InitKeeps
<1>4. ASSUME NEW t \in Threads, GoesOn(t) PROVE StartupInv'
  <2>1. CASE LockAllocators(t)
    BY <2>1, NoAllocatorSlotKeeps, AllocatorSlotKeeps DEF LockAllocators
  <2> QED
    BY <1>4, <2>1, LockProducersKeeps, UnlockProducersKeeps, UnlockAllocatorsKeeps, StatesKeep
       DEF GoesOn
<1>5. CASE UNCHANGED startVars
  BY <1>5, StatesKeep
<1> QED
  BY <1>1, <1>2, <1>3, <1>4, <1>5 DEF StartupNext

\* While the lock of a pool is free nothing is taken that is not counted.
LEMMA PoolsAreExact == StartupInv => SlotsExact
<1> SUFFICES ASSUME StartupInv PROVE SlotsExact
  OBVIOUS
<1>1. ASSUME producer_register_mutex = None PROVE ProducersTaken = cur_producer_pool_index
  <2>1. \A t \in Threads : ~Taking(t)
    BY <1>1, StartupAssumption DEF StartupInv, LocksOK
  <2> QED
    BY <2>1 DEF ProducersTaken, StartupInv, PoolsOK
<1>2. ASSUME register_mutex = None PROVE AllocatorsTaken = cur_allocator_pool_index
  BY <1>2 DEF AllocatorsTaken, StartupInv, PoolsOK
<1> QED
  BY <1>1, <1>2 DEF SlotsExact, StartupInv, PoolsOK, Pool, InUse

\* Whatever the threads initialise and in whatever order, a slot of a pool belongs
\* to one producer or allocator, and a free pool counts the slots that are in use.
THEOREM SlotsAreExact == StartupSpec => []SlotsExact
<1>1. StartupSpec => []StartupInv
  BY InitialPools, StartupStep, PTL DEF StartupSpec
<1> QED
  BY <1>1, PoolsAreExact, PTL

-----------------------------------------------------------------------------
(* The states of the components *)

CallLabels == {"store", "compare", "scan", "send", "failed", "return"}

CallSet ==
    [component : Components, state : States, at : CallLabels, i : 0..avionics_component_max,
     overall : States, changed : BOOLEAN, tried : BOOLEAN, since : Nat]

\* A call nested in another one reports an error of messaging or the allocator.
\* It nests one more only if somebody has corrected what it had stored: what
\* bounds how deep it can be.
CallOK(k, call) ==
    /\ call.at \in {"store", "compare"} => call.i = 0
    /\ call.at = "scan" => call.i \in Components
    /\ k <= 2 + Corrections
    /\ k >= 2 =>
         /\ call.component \in OfMessaging /\ call.state = "state_error"
         /\ call.at \in {"scan", "send", "failed"} => k <= 1 + Corrections
         /\ call.at = "compare" /\ component_states[call.component] # "state_error"
            => k <= 1 + Corrections

\* Without component_state_send_overall: only messaging_start stores that
\* messaging is well, and what it stores is the past once a loss counts.
MessagingCallOK(t, call) ==
    call.component = avionics_component_messaging /\ call.state # "state_error" =>
      /\ t = Main /\ call.state = "state_ok" /\ started
      /\ lost => call.at # "store"

\* An error that an update has stored stays while nobody stores that its component
\* is in none; a scan that has found no error has not come to that component yet.
Stands(call) == call.state = "state_error" /\ recoveries[call.component] = call.since

ReportOK(call) ==
    call.at # "store" =>
      /\ call.since <= recoveries[call.component]
      /\ Stands(call) =>
           /\ component_states[call.component] = "state_error"
           /\ call.at = "scan" => call.i <= call.component
           /\ call.at = "send" => call.overall = "state_error"

\* A call that will store an error of messaging, itself or by one it nests
Owes(call) ==
    call.at = "failed" \/ (call.component = avionics_component_messaging /\ call.at = "store")

LossOK ==
    lost => /\ started
            /\ \/ component_states[avionics_component_messaging] = "state_error"
               \/ \E t \in Threads : \E k \in 1..Len(calls[t]) : Owes(calls[t][k])

StatesTypeOK ==
    /\ component_states \in [Components -> States]
    /\ calls \in [Threads -> Seq(CallSet)]
    /\ recoveries \in [Components -> Nat]

CallsOK == \A t \in Threads : \A k \in 1..Len(calls[t]) :
             CallOK(k, calls[t][k]) /\ ReportOK(calls[t][k])

ReportsOK ==
    ~resent =>
      /\ \A t \in Threads : overall_loop[t] = -1
      /\ \A t \in Threads : \A k \in 1..Len(calls[t]) : MessagingCallOK(t, calls[t][k])
      /\ LossOK

PacketsOK ==
    packets \in Seq([component : Components, state : States, overall_state : States,
                     overtaken : BOOLEAN])

StatesInv == StatesTypeOK /\ CallsOK /\ ReportsOK /\ PacketsOK /\ ErrorInOverall

ThreadStackOK(t, stack) ==
    \A k \in 1..Len(stack) :
      /\ CallOK(k, stack[k]) /\ ReportOK(stack[k])
      /\ ~resent => MessagingCallOK(t, stack[k])

LEMMA CorrectionsType ==
  ASSUME recoveries \in [Components -> Nat] PROVE Corrections \in Nat
BY ComponentAssumption DEF Corrections, Components, avionics_component_messaging,
   avionics_component_telemetry_allocator

\* What the innermost call of a stack is, and what a stack becomes when it goes on,
\* when it nests another one, and when it returns.
LEMMA Innermost ==
  ASSUME NEW S, NEW s \in Seq(S), s # <<>>
  PROVE  /\ Len(s) \in Nat \ {0} /\ Last(s) = s[Len(s)] /\ Last(s) \in S
BY DEF Last

LEMMA ReturnedStack ==
  ASSUME NEW S, NEW s \in Seq(S), s # <<>>
  PROVE  /\ Front(s) \in Seq(S) /\ Len(Front(s)) = Len(s) - 1 /\ Len(s) \in Nat \ {0}
         /\ \A k \in 1..Len(s) - 1 : Front(s)[k] = s[k]
<1>1. Len(s) \in Nat \ {0}
  OBVIOUS
<1> DEFINE n == Len(s) - 1
<1>2. n \in 0..Len(s) /\ 1 \in 1..Len(s) + 1
  BY <1>1
<1>3. /\ SubSeq(s, 1, n) \in Seq(S)
      /\ Len(SubSeq(s, 1, n)) = IF 1 <= n THEN n - 1 + 1 ELSE 0
      /\ \A i \in 1..n - 1 + 1 : SubSeq(s, 1, n)[i] = s[1 + i - 1]
  <2> HIDE DEF n
  <2> QED
    BY <1>2, SubSeqProperties
<1>4. Front(s) = SubSeq(s, 1, n)
  BY DEF Front
<1> HIDE DEF n
<1>5. Front(s) \in Seq(S) /\ Len(Front(s)) = n /\ \A k \in 1..n : Front(s)[k] = s[k]
  <2> DEFINE F == Front(s)
  <2>1. F \in Seq(S) /\ Len(F) = (IF 1 <= n THEN n - 1 + 1 ELSE 0)
        /\ \A i \in 1..n - 1 + 1 : F[i] = s[1 + i - 1]
    BY <1>3, <1>4
  <2> HIDE DEF F
  <2>2. F \in Seq(S) /\ Len(F) = n /\ \A k \in 1..n : F[k] = s[k]
    BY <1>1, <1>2, <2>1
  <2> QED
    BY <2>2 DEF F
<1> QED
  BY <1>1, <1>5 DEF n

LEMMA GoesOnStack ==
  ASSUME NEW S, NEW s \in Seq(S), s # <<>>, NEW e \in S
  PROVE  /\ Append(Front(s), e) \in Seq(S) /\ Len(Append(Front(s), e)) = Len(s)
         /\ \A k \in 1..Len(s) : Append(Front(s), e)[k] = IF k = Len(s) THEN e ELSE s[k]
<1>1. Front(s) \in Seq(S) /\ Len(Front(s)) = Len(s) - 1 /\ Len(s) \in Nat \ {0}
      /\ \A k \in 1..Len(s) - 1 : Front(s)[k] = s[k]
  BY ReturnedStack
<1> QED
  BY <1>1

LEMMA NestedStack ==
  ASSUME NEW S, NEW s \in Seq(S), s # <<>>, NEW d \in S, NEW e \in S
  PROVE  /\ Front(s) \o <<d, e>> \in Seq(S) /\ Len(Front(s) \o <<d, e>>) = Len(s) + 1
         /\ \A k \in 1..Len(s) + 1 :
              (Front(s) \o <<d, e>>)[k] = IF k = Len(s) + 1 THEN e
                                          ELSE IF k = Len(s) THEN d ELSE s[k]
<1>1. Front(s) \in Seq(S) /\ Len(Front(s)) = Len(s) - 1 /\ Len(s) \in Nat \ {0}
      /\ \A k \in 1..Len(s) - 1 : Front(s)[k] = s[k]
  BY ReturnedStack
<1>2. <<d, e>> \in Seq(S) /\ Len(<<d, e>>) = 2 /\ <<d, e>>[1] = d /\ <<d, e>>[2] = e
  OBVIOUS
<1>3. PICK F \in Seq(S), T \in Seq(S) : F = Front(s) /\ T = <<d, e>>
  BY <1>1, <1>2
<1>4. PICK n \in Nat \ {0} : n = Len(s)
  BY <1>1
<1>5. /\ F \o T \in Seq(S) /\ Len(F \o T) = n + 1
      /\ \A k \in 1..n + 1 : (F \o T)[k] = IF k <= n - 1 THEN F[k] ELSE T[k - (n - 1)]
  BY <1>1, <1>2, <1>3, <1>4, ConcatProperties
<1>6. ASSUME NEW k \in 1..n + 1
      PROVE  (F \o T)[k] = IF k = n + 1 THEN e ELSE IF k = n THEN d ELSE s[k]
  <2>1. CASE k = n + 1
    <3>1. k - (n - 1) = 2 /\ ~(k <= n - 1)
      BY <1>4, <2>1
    <3> QED
      BY <1>2, <1>3, <1>5, <2>1, <3>1
  <2>2. CASE k = n
    <3>1. k - (n - 1) = 1 /\ ~(k <= n - 1) /\ k # n + 1
      BY <1>4, <2>2
    <3> QED
      BY <1>2, <1>3, <1>5, <2>2, <3>1
  <2>3. CASE k \in 1..n - 1
    BY <1>1, <1>3, <1>4, <1>5, <2>3
  <2>4. k \in 1..n - 1 \/ k = n \/ k = n + 1
    BY <1>4
  <2> QED
    BY <2>1, <2>2, <2>3, <2>4
<1> QED
  BY <1>3, <1>4, <1>5, <1>6

\* A call as it is made, and as it goes on.
LEMMA CallMade ==
  ASSUME NEW c \in Components, NEW state \in States
  PROVE  /\ NewCall(c, state) \in CallSet
         /\ NewCall(c, state).component = c /\ NewCall(c, state).state = state
         /\ NewCall(c, state).at = "store" /\ NewCall(c, state).i = 0
BY ComponentAssumption DEF NewCall, CallSet, CallLabels, States

LEMMA CallAt ==
  ASSUME NEW call \in CallSet, NEW l \in CallLabels
  PROVE  /\ [call EXCEPT !.at = l] \in CallSet /\ [call EXCEPT !.at = l].at = l
         /\ [call EXCEPT !.at = l].component = call.component
         /\ [call EXCEPT !.at = l].state = call.state /\ [call EXCEPT !.at = l].i = call.i
         /\ [call EXCEPT !.at = l].since = call.since
BY DEF CallSet

LEMMA CallStored ==
  ASSUME NEW call \in CallSet, NEW b \in BOOLEAN, NEW n \in Nat
  PROVE  LET stored == [call EXCEPT !.at = "compare", !.changed = b, !.since = n]
         IN /\ stored \in CallSet /\ stored.at = "compare" /\ stored.component = call.component
            /\ stored.state = call.state /\ stored.i = call.i /\ stored.since = n
BY DEF CallSet, CallLabels

LEMMA CallTried ==
  ASSUME NEW call \in CallSet, NEW l \in CallLabels
  PROVE  LET tried == [call EXCEPT !.at = l, !.tried = TRUE]
         IN /\ tried \in CallSet /\ tried.at = l /\ tried.component = call.component
            /\ tried.state = call.state /\ tried.since = call.since
BY DEF CallSet, CallLabels

\* A step of thread t that stores no state: the others are as they were, so it is
\* for the stack of t and for the losses to be as they should.
LEMMA StackStep ==
  ASSUME StatesInv, NEW t \in Threads, NEW stack \in Seq(CallSet),
         calls' = [calls EXCEPT ![t] = stack], UNCHANGED <<component_states, recoveries>>,
         resent => resent', started => started',
         ~resent' => overall_loop' = overall_loop,
         PacketsOK', ErrorInOverall',
         ThreadStackOK(t, stack)',
         lost' = lost \/ lost' = (lost \/ StartDone),
         lost' /\ (~lost \/ \E k \in 1..Len(calls[t]) : Owes(calls[t][k]))
           => \E k \in 1..Len(stack) : Owes(stack[k])
  PROVE  StatesInv'
<1> USE DEF StatesInv
<1>1. StatesTypeOK'
  BY DEF StatesTypeOK
<1>2. calls'[t] = stack /\ \A u \in Threads : u # t => calls'[u] = calls[u]
  BY DEF StatesTypeOK
<1>3. CallsOK'
  BY <1>2 DEF CallsOK, CallOK, ReportOK, Stands, Corrections, ThreadStackOK
<1>4. ReportsOK'
  <2> SUFFICES ASSUME ~resent'
               PROVE  /\ \A u \in Threads : overall_loop'[u] = -1
                      /\ \A u \in Threads : \A k \in 1..Len(calls'[u]) :
                           MessagingCallOK(u, calls[u][k])'
                      /\ LossOK'
    BY DEF ReportsOK
  <2>1. ~resent
    OBVIOUS
  <2>2. \A u \in Threads : overall_loop'[u] = -1
    BY <2>1 DEF ReportsOK
  <2>3. ASSUME NEW u \in Threads, NEW k \in 1..Len(calls'[u])
        PROVE  MessagingCallOK(u, calls[u][k])'
    <3>1. CASE u = t
      BY <1>2, <3>1 DEF ThreadStackOK, MessagingCallOK
    <3>2. CASE u # t
      <4>1. k \in 1..Len(calls[u]) /\ calls'[u][k] = calls[u][k]
        BY <1>2, <3>2
      <4>2. MessagingCallOK(u, calls[u][k])
        BY <2>1, <4>1 DEF ReportsOK
      <4>3. StartDone /\ u = Main /\ calls[u][k].state = "state_ok" => calls[u][k].at # "store"
        BY <4>1 DEF StartDone
      <4>4. lost' => lost \/ StartDone
        OBVIOUS
      <4> QED
        BY <4>1, <4>2, <4>3, <4>4 DEF MessagingCallOK
    <3> QED
      BY <3>1, <3>2
  <2>4. LossOK'
    <3>1. LossOK
      BY <2>1 DEF ReportsOK
    <3>2. lost' => started'
      BY <3>1 DEF LossOK, StartDone
    <3>3. ASSUME lost', component_states[avionics_component_messaging] # "state_error"
          PROVE  \E u \in Threads : \E k \in 1..Len(calls'[u]) : Owes(calls'[u][k])
      <4>1. CASE \E k \in 1..Len(stack) : Owes(stack[k])
        BY <1>2, <4>1
      <4>2. CASE lost /\ ~\E k \in 1..Len(calls[t]) : Owes(calls[t][k])
        <5>1. PICK u \in Threads : \E k \in 1..Len(calls[u]) : Owes(calls[u][k])
          BY <3>1, <3>3, <4>2 DEF LossOK
        <5> QED
          BY <1>2, <4>2, <5>1
      <4> QED
        BY <3>3, <4>1, <4>2
    <3> QED
      BY <3>2, <3>3 DEF LossOK, Owes
  <2> QED
    BY <2>2, <2>3, <2>4
<1> QED
  BY <1>1, <1>3, <1>4

\* What was sent is as it was.
LEMMA PacketsAlone ==
  ASSUME StatesInv, UNCHANGED packets
  PROVE  PacketsOK' /\ ErrorInOverall'
BY DEF StatesInv, PacketsOK, ErrorInOverall

\* A thread makes a call.
LEMMA CallStep ==
  ASSUME StatesInv, NEW t \in Threads, calls[t] = <<>>, NEW c \in Components, NEW state \in States,
         calls' = [calls EXCEPT ![t] = <<NewCall(c, state)>>],
         UNCHANGED <<component_states, recoveries, packets, lost>>,
         resent => resent', started => started', ~resent' => overall_loop' = overall_loop,
         ~resent' =>
           (c = avionics_component_messaging /\ state # "state_error" =>
              t = Main /\ state = "state_ok" /\ started' /\ ~lost)
  PROVE  StatesInv'
<1> DEFINE call == NewCall(c, state)
           stack == <<call>>
<1>1. call \in CallSet /\ call.component = c /\ call.state = state /\ call.at = "store" /\ call.i = 0
  BY CallMade
<1> HIDE DEF call
<1>2. stack \in Seq(CallSet) /\ Len(stack) = 1 /\ stack[1] = call
  BY <1>1
<1>3. Corrections \in Nat
  BY CorrectionsType DEF StatesInv, StatesTypeOK
<1>4. CallOK(1, call)' /\ ReportOK(call)' /\ (~resent' => MessagingCallOK(t, call)')
  <2>1. CallOK(1, call)
    BY <1>1, <1>3 DEF CallOK
  <2>2. CallOK(1, call)'
    BY <1>1, <2>1 DEF CallOK, Corrections
  <2>3. ReportOK(call)'
    BY <1>1 DEF ReportOK
  <2>4. ~resent' => MessagingCallOK(t, call)'
    BY <1>1 DEF MessagingCallOK
  <2> QED
    BY <2>2, <2>3, <2>4
<1>5. ThreadStackOK(t, stack)'
  BY <1>2, <1>4 DEF ThreadStackOK
<1>6. calls' = [calls EXCEPT ![t] = stack]
  BY DEF call
<1>7. lost' /\ (~lost \/ \E k \in 1..Len(calls[t]) : Owes(calls[t][k]))
        => \E k \in 1..Len(stack) : Owes(stack[k])
  OBVIOUS
<1>8. PacketsOK' /\ ErrorInOverall'
  BY PacketsAlone
<1> HIDE DEF stack
<1> QED
  BY <1>2, <1>5, <1>6, <1>7, <1>8, StackStep

\* A step that leaves the calls alone.
LEMMA NoCallStep ==
  ASSUME StatesInv, UNCHANGED <<component_states, calls, packets, recoveries, lost>>,
         resent => resent', started' = started, ~resent' => overall_loop' = overall_loop
  PROVE  StatesInv'
<1> USE DEF StatesInv
<1>1. StatesTypeOK' /\ CallsOK'
  BY DEF StatesTypeOK, CallsOK, CallOK, ReportOK, Stands, Corrections
<1>2. ReportsOK'
  <2> SUFFICES ASSUME ~resent' PROVE ReportsOK'
    BY DEF ReportsOK
  <2>1. ~resent /\ overall_loop' = overall_loop
    OBVIOUS
  <2> QED
    BY <2>1 DEF ReportsOK, MessagingCallOK, LossOK, Owes
<1> QED
  BY <1>1, <1>2, PacketsAlone

\* The innermost call of a stack that is as it should.
LEMMA InnermostOK ==
  ASSUME StatesInv, NEW t \in Threads, NEW l, At(t, l)
  PROVE  /\ calls[t] \in Seq(CallSet) /\ calls[t] # <<>> /\ Len(calls[t]) \in Nat \ {0}
         /\ Last(calls[t]) = calls[t][Len(calls[t])] /\ Last(calls[t]) \in CallSet
         /\ Last(calls[t]).at = l /\ CallOK(Len(calls[t]), Last(calls[t]))
         /\ ReportOK(Last(calls[t])) /\ (~resent => MessagingCallOK(t, Last(calls[t])))
<1>1. calls[t] \in Seq(CallSet) /\ calls[t] # <<>> /\ Last(calls[t]).at = l
  BY DEF At, StatesInv, StatesTypeOK
<1>2. /\ Len(calls[t]) \in Nat \ {0} /\ Last(calls[t]) = calls[t][Len(calls[t])]
      /\ Last(calls[t]) \in CallSet
  BY <1>1, Innermost
<1>3. Len(calls[t]) \in 1..Len(calls[t])
  BY <1>2
<1> QED
  BY <1>1, <1>2, <1>3 DEF StatesInv, CallsOK, ReportsOK

\* The innermost call of t goes on and leaves everything else alone.
LEMMA BecomesStep ==
  ASSUME StatesInv, NEW t \in Threads, NEW l, At(t, l), NEW call \in CallSet, Becomes(t, call),
         UNCHANGED <<component_states, recoveries, overall_loop, resent, lost, started>>,
         PacketsOK', ErrorInOverall',
         CallOK(Len(calls[t]), call), ReportOK(call), ~resent => MessagingCallOK(t, call),
         Owes(Last(calls[t])) => Owes(call)
  PROVE  StatesInv'
<1>1. /\ calls[t] \in Seq(CallSet) /\ calls[t] # <<>> /\ Len(calls[t]) \in Nat \ {0}
      /\ Last(calls[t]) = calls[t][Len(calls[t])]
  BY InnermostOK
<1>2. PICK stack \in Seq(CallSet) : stack = Append(Front(calls[t]), call)
  BY <1>1, GoesOnStack
<1>3. /\ Len(stack) = Len(calls[t])
      /\ \A k \in 1..Len(calls[t]) : stack[k] = IF k = Len(calls[t]) THEN call ELSE calls[t][k]
  BY <1>1, <1>2, GoesOnStack
<1>4. calls' = [calls EXCEPT ![t] = stack]
  BY <1>2 DEF Becomes
<1>5. ThreadStackOK(t, stack)
  BY <1>1, <1>3 DEF ThreadStackOK, StatesInv, CallsOK, ReportsOK
<1>6. ThreadStackOK(t, stack)'
  BY <1>5 DEF ThreadStackOK, CallOK, Corrections, MessagingCallOK, ReportOK, Stands
<1>7. lost' /\ (~lost \/ \E k \in 1..Len(calls[t]) : Owes(calls[t][k]))
        => \E k \in 1..Len(stack) : Owes(stack[k])
  BY <1>1, <1>3
<1> QED
  BY <1>4, <1>6, <1>7, StackStep

LEMMA CompareStep ==
  ASSUME StatesInv, NEW t \in Threads, Compare(t)
  PROVE  StatesInv'
<1> DEFINE call == Last(calls[t])
           send == /\ registered_with_messaging
                   /\ \/ call.component \notin OfMessaging
                      \/ component_states[call.component] # call.state
           l == IF send THEN "scan" ELSE "return"
<1>1. /\ call \in CallSet /\ call.at = "compare" /\ CallOK(Len(calls[t]), call)
      /\ ReportOK(call) /\ (~resent => MessagingCallOK(t, call))
      /\ Len(calls[t]) \in Nat \ {0}
  BY InnermostOK DEF Compare
<1>2. l \in CallLabels
  BY DEF CallLabels
<1> DEFINE next == [call EXCEPT !.at = l]
<1>3. /\ next \in CallSet /\ next.at = l /\ next.component = call.component
      /\ next.state = call.state /\ next.i = call.i /\ next.since = call.since
  <2> HIDE DEF call, l
  <2> QED
    BY <1>1, <1>2, CallAt
<1>4. Becomes(t, next) /\ At(t, "compare")
      /\ UNCHANGED <<component_states, recoveries, overall_loop, resent, lost, started, packets>>
  BY DEF Compare
<1>5. l = "return" \/ (l = "scan" /\ send)
  OBVIOUS
<1> HIDE DEF next, l
<1>6. CallOK(Len(calls[t]), next)
  BY <1>1, <1>3, <1>5, ComponentAssumption DEF CallOK, Components
<1>7. ~resent => MessagingCallOK(t, next)
  BY <1>1, <1>3, <1>5 DEF MessagingCallOK
<1>8. ReportOK(next)
  <2>1. call.i = 0 /\ call.component \in Nat
    BY <1>1 DEF CallOK, CallSet, Components
  <2> QED
    BY <1>1, <1>3, <1>5, <2>1 DEF ReportOK, Stands
<1>9. ~Owes(call)
  BY <1>1 DEF Owes
<1> HIDE DEF call
<1> QED
  BY <1>8, <1>3, <1>4, <1>6, <1>7, <1>9, PacketsAlone, BecomesStep DEF call

\* A scan that goes on has seen no error; one that has come to a component in error
\* is over.
LEMMA ScanStep ==
  ASSUME StatesInv, NEW t \in Threads, Scan(t)
  PROVE  StatesInv'
<1> DEFINE call == Last(calls[t])
           seen == component_states[call.i]
           over == seen = "state_error" \/ call.i = avionics_component_max - 1
           o == IF seen = "state_ok" THEN call.overall ELSE seen
           l == IF over THEN "send" ELSE "scan"
           next == [call EXCEPT !.overall = o, !.i = @ + 1, !.at = l]
<1>1. /\ call \in CallSet /\ call.at = "scan" /\ CallOK(Len(calls[t]), call)
      /\ ReportOK(call) /\ (~resent => MessagingCallOK(t, call))
      /\ Len(calls[t]) \in Nat \ {0}
  BY InnermostOK DEF Scan
<1>2. call.i \in Components /\ call.component \in Components /\ seen \in States
  BY <1>1 DEF CallOK, CallSet, StatesInv, StatesTypeOK
<1>3. l \in CallLabels /\ o \in States
  BY <1>1, <1>2 DEF CallLabels, CallSet
<1>4. /\ next \in CallSet /\ next.at = l /\ next.component = call.component
      /\ next.state = call.state /\ next.i = call.i + 1 /\ next.overall = o
      /\ next.since = call.since
  <2> HIDE DEF call, l, o
  <2> DEFINE A == [call EXCEPT !.overall = o]
             B == [A EXCEPT !.i = @ + 1]
  <2>1. call.i + 1 \in 0..avionics_component_max
    BY <1>2, ComponentAssumption DEF Components
  <2>2. A \in CallSet /\ A.component = call.component /\ A.state = call.state /\ A.i = call.i
        /\ A.overall = o /\ A.since = call.since
    BY <1>1, <1>3 DEF CallSet
  <2>3. B \in CallSet /\ B.component = call.component /\ B.state = call.state
        /\ B.i = call.i + 1 /\ B.overall = o /\ B.since = call.since
    <3> HIDE DEF A
    <3> QED
      BY <2>1, <2>2 DEF CallSet
  <2>4. next = [B EXCEPT !.at = l]
    OBVIOUS
  <2> HIDE DEF B, next
  <2> QED
    BY <1>3, <2>3, <2>4 DEF CallSet
<1>5. Becomes(t, next) /\ At(t, "scan")
      /\ UNCHANGED <<component_states, recoveries, overall_loop, resent, lost, started, packets>>
  BY DEF Scan
<1>6. \/ l = "send" /\ (seen = "state_error" \/ call.i = avionics_component_max - 1)
      \/ l = "scan" /\ seen # "state_error" /\ call.i # avionics_component_max - 1
  OBVIOUS
<1> HIDE DEF next, l
<1>7. CallOK(Len(calls[t]), next)
  BY <1>1, <1>2, <1>4, <1>6, ComponentAssumption DEF CallOK, Components
<1>8. ~resent => MessagingCallOK(t, next)
  BY <1>1, <1>4, <1>6 DEF MessagingCallOK
<1>9. ReportOK(next)
  <2>1. call.since <= recoveries[call.component] /\ (Stands(next) <=> Stands(call))
    BY <1>1, <1>4 DEF ReportOK, Stands
  <2> SUFFICES ASSUME Stands(call)
               PROVE  /\ component_states[call.component] = "state_error"
                      /\ l = "scan" => call.i + 1 <= call.component
                      /\ l = "send" => o = "state_error"
    BY <1>4, <2>1 DEF ReportOK
  <2>2. component_states[call.component] = "state_error" /\ call.i <= call.component
    BY <1>1 DEF ReportOK
  <2>3. ASSUME l = "scan" PROVE call.i + 1 <= call.component
    BY <1>2, <1>6, <2>2, <2>3, ComponentAssumption DEF Components
  <2>4. ASSUME l = "send" PROVE o = "state_error"
    <3>1. call.i = avionics_component_max - 1 => call.i = call.component
      BY <1>2, <2>2, <2>4, ComponentAssumption DEF Components
    <3>2. seen = "state_error"
      BY <1>6, <2>2, <2>4, <3>1
    <3> QED
      BY <3>2
  <2> QED
    BY <2>2, <2>3, <2>4
<1>10. ~Owes(call)
  BY <1>1 DEF Owes
<1> HIDE DEF call
<1> QED
  BY <1>4, <1>5, <1>7, <1>8, <1>9, <1>10, PacketsAlone, BecomesStep DEF call

\* The packet of an update carries what its scan has found.
LEMMA SendStep ==
  ASSUME StatesInv, NEW t \in Threads, Send(t)
  PROVE  StatesInv'
<1> DEFINE call == Last(calls[t])
           next == [call EXCEPT !.at = "return", !.tried = TRUE]
           overtaken == recoveries[call.component] # call.since
           packet == [component |-> call.component, state |-> call.state,
                      overall_state |-> call.overall, overtaken |-> overtaken]
<1>1. /\ call \in CallSet /\ call.at = "send" /\ CallOK(Len(calls[t]), call)
      /\ ReportOK(call) /\ (~resent => MessagingCallOK(t, call))
      /\ Len(calls[t]) \in Nat \ {0}
  BY InnermostOK DEF Send
<1>2. /\ next \in CallSet /\ next.at = "return" /\ next.component = call.component
      /\ next.state = call.state /\ next.since = call.since
  <2> HIDE DEF call
  <2> QED
    BY <1>1, CallTried DEF CallLabels
<1>3. Becomes(t, next) /\ At(t, "send") /\ packets' = Append(packets, packet)
      /\ UNCHANGED <<component_states, recoveries, overall_loop, resent, lost, started>>
  BY DEF Send
<1> HIDE DEF next
<1>4. CallOK(Len(calls[t]), next)
  BY <1>1, <1>2 DEF CallOK
<1>5. ReportOK(next) /\ (~resent => MessagingCallOK(t, next))
  BY <1>1, <1>2 DEF MessagingCallOK, ReportOK, Stands
<1>6. packet \in [component : Components, state : States, overall_state : States,
                  overtaken : BOOLEAN]
  BY <1>1 DEF CallSet
<1>7. /\ PacketsOK' /\ Len(packets) \in Nat /\ Len(packets') = Len(packets) + 1
      /\ \A k \in 1..Len(packets) + 1 :
           packets'[k] = IF k = Len(packets) + 1 THEN packet ELSE packets[k]
  <2> HIDE DEF packet
  <2> QED
    BY <1>3, <1>6 DEF StatesInv, PacketsOK
<1>8. ErrorInOverall'
  <2> SUFFICES ASSUME NEW k \in 1..Len(packets'), packets'[k].state = "state_error",
                      ~packets'[k].overtaken
               PROVE  packets'[k].overall_state = "state_error"
    BY <1>3 DEF ErrorInOverall
  <2>1. CASE k = Len(packets) + 1
    <3>1. packets'[k] = packet
      BY <1>7, <2>1
    <3>2. Stands(call)
      <4>1. call.state = "state_error" /\ (overtaken \in BOOLEAN => ~overtaken)
        <5> HIDE DEF overtaken
        <5> QED
          BY <3>1
      <4> QED
        BY <4>1 DEF Stands
    <3>3. call.overall = "state_error"
      BY <1>1, <3>2 DEF ReportOK
    <3> QED
      BY <3>1, <3>3
  <2>2. CASE k \in 1..Len(packets)
    BY <1>7, <2>2 DEF StatesInv, ErrorInOverall
  <2> QED
    BY <1>7, <2>1, <2>2
<1>9. ~Owes(call)
  BY <1>1 DEF Owes
<1> HIDE DEF call, packet
<1> QED
  BY <1>2, <1>3, <1>4, <1>5, <1>7, <1>8, <1>9, BecomesStep DEF call

\* A call that could not send nests the report of that error.
LEMMA NestStep ==
  ASSUME StatesInv, NEW t \in Threads, NEW l \in {"send", "failed"}, At(t, l),
         NEW d \in CallSet, d.component = Last(calls[t]).component,
         d.state = Last(calls[t]).state, d.since = Last(calls[t]).since,
         d.at \in {"failed", "return"},
         NEW c \in OfMessaging, d.at = "failed" \/ c = avionics_component_messaging,
         calls' = [calls EXCEPT ![t] = Front(@) \o <<d, NewCall(c, "state_error")>>],
         UNCHANGED <<component_states, recoveries, overall_loop, resent, started, packets>>,
         lost' = lost \/ lost' = (lost \/ StartDone)
  PROVE  StatesInv'
<1>1. /\ calls[t] \in Seq(CallSet) /\ calls[t] # <<>> /\ Len(calls[t]) \in Nat \ {0}
      /\ Last(calls[t]) = calls[t][Len(calls[t])] /\ Last(calls[t]).at = l
      /\ CallOK(Len(calls[t]), Last(calls[t]))
      /\ ReportOK(Last(calls[t])) /\ (~resent => MessagingCallOK(t, Last(calls[t])))
      /\ Corrections \in Nat
  BY InnermostOK, CorrectionsType DEF StatesInv, StatesTypeOK
<1>2. PICK e \in CallSet : e = NewCall(c, "state_error")
  BY CallMade, ComponentAssumption DEF OfMessaging, Components, States,
     avionics_component_messaging, avionics_component_telemetry_allocator
<1>3. e.component = c /\ e.state = "state_error" /\ e.at = "store" /\ e.i = 0
  BY <1>2 DEF NewCall
<1>4. PICK stack \in Seq(CallSet) : stack = Front(calls[t]) \o <<d, e>>
  BY <1>1, NestedStack
<1>5. /\ Len(stack) = Len(calls[t]) + 1
      /\ \A k \in 1..Len(calls[t]) + 1 :
           stack[k] = IF k = Len(calls[t]) + 1 THEN e
                      ELSE IF k = Len(calls[t]) THEN d ELSE calls[t][k]
  BY <1>1, <1>4, NestedStack
<1>6. calls' = [calls EXCEPT ![t] = stack]
  BY <1>2, <1>4
<1>7. CallOK(Len(calls[t]) + 1, e) /\ CallOK(Len(calls[t]), d)
  BY <1>1, <1>3 DEF CallOK
<1>8. ReportOK(e) /\ ReportOK(d)
  BY <1>1, <1>3 DEF ReportOK, Stands
<1>9. \A k \in 1..Len(stack) : CallOK(k, stack[k]) /\ ReportOK(stack[k])
  BY <1>8, <1>1, <1>5, <1>7 DEF StatesInv, CallsOK
<1>10. ASSUME ~resent, NEW k \in 1..Len(stack)
      PROVE  MessagingCallOK(t, stack[k])'
  <2>0. lost' => lost \/ StartDone
    OBVIOUS
  <2>1. CASE k = Len(calls[t]) + 1
    BY <1>3, <1>5, <2>1 DEF MessagingCallOK
  <2>2. CASE k = Len(calls[t])
    BY <1>1, <1>5, <1>10, <2>2 DEF MessagingCallOK
  <2>3. CASE k \in 1..Len(calls[t]) - 1
    <3>1. MessagingCallOK(t, calls[t][k]) /\ stack[k] = calls[t][k]
      BY <1>1, <1>5, <1>10, <2>3 DEF StatesInv, ReportsOK
    <3>2. StartDone /\ t = Main /\ stack[k].state = "state_ok" => stack[k].at # "store"
      BY <1>1, <2>3, <3>1 DEF StartDone
    <3> QED
      BY <2>0, <3>1, <3>2 DEF MessagingCallOK
  <2> QED
    BY <1>1, <1>5, <2>1, <2>2, <2>3
<1>11. ThreadStackOK(t, stack)'
  BY <1>9, <1>10 DEF ThreadStackOK, CallOK, Corrections, ReportOK, Stands
<1>12. lost' /\ (~lost \/ \E k \in 1..Len(calls[t]) : Owes(calls[t][k]))
        => \E k \in 1..Len(stack) : Owes(stack[k])
  <2>1. Owes(stack[Len(calls[t])]) \/ Owes(stack[Len(calls[t]) + 1])
    <3>1. stack[Len(calls[t])] = d /\ stack[Len(calls[t]) + 1] = e
      <4> DEFINE n == Len(calls[t])
      <4>1. n \in 1..n + 1 /\ n + 1 \in 1..n + 1 /\ n # n + 1
        BY <1>1
      <4> QED
        BY <1>5, <4>1
    <3> QED
      BY <1>3, <3>1 DEF Owes
  <2>2. Len(calls[t]) \in 1..Len(stack) /\ Len(calls[t]) + 1 \in 1..Len(stack)
    BY <1>1, <1>5
  <2> QED
    BY <2>1, <2>2
<1>13. PacketsOK' /\ ErrorInOverall'
  BY PacketsAlone
<1> QED
  BY <1>6, <1>11, <1>12, <1>13, StackStep

LEMMA FailStep ==
  ASSUME StatesInv, NEW t \in Threads, SendFails(t) \/ MessagingError(t)
  PROVE  StatesInv'
<1>0. /\ avionics_component_messaging \in OfMessaging
      /\ avionics_component_telemetry_allocator \in OfMessaging
  BY DEF OfMessaging
<1>1. CASE SendFails(t)
  <2>1. Last(calls[t]) \in CallSet /\ At(t, "send")
    BY <1>1, InnermostOK DEF SendFails
  <2>2. PICK no_memory \in BOOLEAN :
          calls' = [calls EXCEPT ![t] = Front(@) \o
             << [Last(calls[t]) EXCEPT !.at = IF no_memory THEN "failed" ELSE "return",
                                       !.tried = TRUE],
                NewCall(IF no_memory THEN avionics_component_telemetry_allocator
                        ELSE avionics_component_messaging, "state_error") >>]
    BY <1>1 DEF SendFails
  <2> DEFINE l == IF no_memory THEN "failed" ELSE "return"
             c == IF no_memory THEN avionics_component_telemetry_allocator
                  ELSE avionics_component_messaging
             call == Last(calls[t])
             d == [call EXCEPT !.at = l, !.tried = TRUE]
  <2>3. /\ d \in CallSet /\ d.at = l /\ d.component = call.component
        /\ d.state = call.state /\ d.since = call.since
    <3>1. l \in CallLabels
      BY DEF CallLabels
    <3> HIDE DEF call, l
    <3> QED
      BY <2>1, <3>1, CallTried DEF call
  <2>4. /\ calls' = [calls EXCEPT ![t] = Front(@) \o <<d, NewCall(c, "state_error")>>]
        /\ l \in {"failed", "return"} /\ c \in OfMessaging
        /\ l = "failed" \/ c = avionics_component_messaging
    BY <1>0, <2>2
  <2>5. /\ UNCHANGED <<component_states, recoveries, overall_loop, resent, started, packets>>
        /\ lost' = (lost \/ StartDone)
    BY <1>1 DEF SendFails
  <2> HIDE DEF d, c, l
  <2> QED
    BY <2>1, <2>3, <2>4, <2>5, NestStep
<1>2. CASE MessagingError(t)
  <2> DEFINE call == Last(calls[t])
             d == [call EXCEPT !.at = "return"]
  <2>1. call \in CallSet /\ At(t, "failed")
    BY <1>2, InnermostOK DEF MessagingError
  <2>2. /\ d \in CallSet /\ d.at = "return" /\ d.component = call.component
        /\ d.state = call.state /\ d.since = call.since
    <3> HIDE DEF call
    <3> QED
      BY <2>1, CallAt DEF CallLabels
  <2>3. /\ calls' = [calls EXCEPT ![t] =
                       Front(@) \o <<d, NewCall(avionics_component_messaging, "state_error")>>]
        /\ UNCHANGED <<component_states, recoveries, overall_loop, resent, started, packets,
                        lost>>
    BY <1>2 DEF MessagingError
  <2> HIDE DEF d
  <2> QED
    BY <1>0, <2>1, <2>2, <2>3, NestStep
<1> QED
  BY <1>1, <1>2

\* A call that returns leaves the call it was nested in.
LEMMA ReturnStep ==
  ASSUME StatesInv, NEW t \in Threads, Return(t)
  PROVE  StatesInv'
<1>1. /\ calls[t] \in Seq(CallSet) /\ calls[t] # <<>> /\ Len(calls[t]) \in Nat \ {0}
      /\ Last(calls[t]) = calls[t][Len(calls[t])] /\ Last(calls[t]).at = "return"
  BY InnermostOK DEF Return
<1>2. PICK stack \in Seq(CallSet) : stack = Front(calls[t])
  BY <1>1, ReturnedStack
<1>3. /\ Len(stack) = Len(calls[t]) - 1
      /\ \A k \in 1..Len(stack) : stack[k] = calls[t][k]
  BY <1>1, <1>2, ReturnedStack
<1>4. /\ calls' = [calls EXCEPT ![t] = stack]
      /\ UNCHANGED <<component_states, recoveries, overall_loop, resent, started, packets,
                        lost>>
  BY <1>2 DEF Return
<1>5. ThreadStackOK(t, stack)
  BY <1>1, <1>3 DEF ThreadStackOK, StatesInv, CallsOK, ReportsOK
<1>6. ThreadStackOK(t, stack)'
  BY <1>4, <1>5 DEF ThreadStackOK, CallOK, Corrections, MessagingCallOK, ReportOK, Stands
<1>7. lost' /\ (~lost \/ \E k \in 1..Len(calls[t]) : Owes(calls[t][k]))
        => \E k \in 1..Len(stack) : Owes(stack[k])
  <2>1. ~Owes(calls[t][Len(calls[t])])
    BY <1>1 DEF Owes
  <2>2. ASSUME NEW k \in 1..Len(calls[t]), Owes(calls[t][k])
        PROVE  \E j \in 1..Len(stack) : Owes(stack[j])
    BY <1>1, <1>3, <2>1, <2>2
  <2> QED
    BY <1>4, <2>2
<1>8. PacketsOK' /\ ErrorInOverall'
  BY <1>4, PacketsAlone
<1> QED
  BY <1>4, <1>6, <1>7, <1>8, StackStep

LEMMA DeeperLater ==
  ASSUME NEW k \in Nat, NEW p \in Nat, NEW q \in Nat, p <= q
  PROVE  /\ k <= 2 + p => k <= 2 + q
         /\ k <= 1 + p => k <= 1 + q
         /\ k <= 2 + p /\ p + 1 <= q => k <= 1 + q
OBVIOUS

\* A store may correct an error, which is counted: an update that stored the error
\* before does not stand any more.
LEMMA StoreStep ==
  ASSUME StatesInv, NEW t \in Threads, Store(t)
  PROVE  StatesInv'
<1> USE DEF StatesInv
<1>1. /\ calls[t] \in Seq(CallSet) /\ calls[t] # <<>> /\ Len(calls[t]) \in Nat \ {0}
      /\ Last(calls[t]) = calls[t][Len(calls[t])] /\ Last(calls[t]) \in CallSet
      /\ Last(calls[t]).at = "store" /\ CallOK(Len(calls[t]), Last(calls[t]))
      /\ ReportOK(Last(calls[t])) /\ (~resent => MessagingCallOK(t, Last(calls[t])))
  BY InnermostOK DEF Store
<1>2. PICK call \in CallSet : call = Last(calls[t])
  BY <1>1
<1>3. /\ call.component \in Components /\ call.state \in States
      /\ component_states' = [component_states EXCEPT ![call.component] = call.state]
      /\ recoveries' = IF call.state = "state_error" THEN recoveries
                       ELSE [recoveries EXCEPT ![call.component] = @ + 1]
      /\ UNCHANGED <<started, overall_loop, packets, resent, lost>>
  BY <1>2 DEF Store, CallSet
<1>4. /\ recoveries \in [Components -> Nat] /\ recoveries' \in [Components -> Nat]
      /\ \A c \in Components : recoveries[c] <= recoveries'[c]
      /\ call.state # "state_error" =>
           recoveries'[call.component] = recoveries[call.component] + 1
  BY <1>3 DEF StatesTypeOK
<1>5. PICK e \in CallSet : /\ e.at = "compare" /\ e.component = call.component
                           /\ e.state = call.state /\ e.i = call.i
                           /\ e.since = recoveries'[call.component]
                           /\ Becomes(t, e)
  <2> DEFINE b == /\ registered_with_messaging
                  /\ component_states[call.component] # call.state
             n == recoveries'[call.component]
             e == [call EXCEPT !.at = "compare", !.changed = b, !.since = n]
  <2>1. b \in BOOLEAN /\ n \in Nat
    BY <1>3, <1>4
  <2>2. /\ e \in CallSet /\ e.at = "compare" /\ e.component = call.component
        /\ e.state = call.state /\ e.i = call.i /\ e.since = n
    <3> HIDE DEF b, n
    <3> QED
      BY <2>1, CallStored
  <2>3. Becomes(t, e)
    BY <1>2 DEF Store
  <2> HIDE DEF e
  <2> QED
    BY <2>2, <2>3
<1>6. PICK stack \in Seq(CallSet) : stack = Append(Front(calls[t]), e)
  BY <1>1, GoesOnStack
<1>7. /\ Len(stack) = Len(calls[t]) /\ stack[Len(calls[t])] = e
      /\ \A k \in 1..Len(calls[t]) - 1 : stack[k] = calls[t][k]
  BY <1>1, <1>6, GoesOnStack
<1>8. calls' \in [Threads -> Seq(CallSet)] /\ calls'[t] = stack
      /\ \A u \in Threads : u # t => calls'[u] = calls[u]
  BY <1>5, <1>6 DEF Becomes, StatesTypeOK
<1>9. /\ Corrections \in Nat /\ Corrections' \in Nat /\ Corrections <= Corrections'
      /\ call.component \in OfMessaging /\ call.state # "state_error"
           => Corrections + 1 <= Corrections'
  <2>1. /\ avionics_component_messaging \in Components
        /\ avionics_component_telemetry_allocator \in Components
    BY ComponentAssumption DEF Components, avionics_component_messaging,
       avionics_component_telemetry_allocator
  <2> QED
    BY <1>4, <2>1 DEF Corrections, OfMessaging
<1>10. /\ component_states' \in [Components -> States]
      /\ component_states'[call.component] = call.state
      /\ \A x \in Components : x # call.component => component_states'[x] = component_states[x]
  BY <1>3 DEF StatesTypeOK
<1>11. ASSUME NEW u \in Threads, NEW k \in 1..Len(calls'[u])
       PROVE  /\ k \in 1..Len(calls[u]) /\ CallOK(k, calls[u][k]) /\ ReportOK(calls[u][k])
              /\ \/ u = t /\ k = Len(calls[t]) /\ calls'[u][k] = e
                 \/ /\ u # t \/ k < Len(calls[t])
                    /\ calls'[u][k] = calls[u][k] /\ calls[u][k] \in CallSet
  <2>1. Len(calls'[u]) = Len(calls[u])
    BY <1>7, <1>8
  <2>2. CallOK(k, calls[u][k]) /\ ReportOK(calls[u][k]) /\ calls[u][k] \in CallSet
    BY <1>11, <2>1 DEF CallsOK, StatesTypeOK
  <2> QED
    BY <1>1, <1>7, <1>8, <1>11, <2>1, <2>2
<1>12. CallsOK'
  <2> SUFFICES ASSUME NEW u \in Threads, NEW k \in 1..Len(calls'[u])
               PROVE  CallOK(k, calls[u][k])' /\ ReportOK(calls[u][k])'
    BY DEF CallsOK
  <2>1. k \in Nat
    OBVIOUS
  <2>2. CASE calls'[u][k] = e /\ k = Len(calls[t])
    <3>1. CallOK(k, calls[u][k])'
      BY <1>1, <1>2, <1>5, <1>9, <1>10, <2>1, <2>2 DEF CallOK
    <3>2. ReportOK(calls[u][k])'
      BY <1>3, <1>5, <1>4, <1>10, <2>2 DEF ReportOK, Stands
    <3> QED
      BY <3>1, <3>2
  <2>3. CASE /\ calls'[u][k] = calls[u][k] /\ calls[u][k] \in CallSet
             /\ CallOK(k, calls[u][k]) /\ ReportOK(calls[u][k])
    <3>1. CallOK(k, calls[u][k])'
      <4>1. PICK d \in CallSet : d = calls[u][k]
        BY <2>3
      <4>2. CallOK(k, d) /\ d.component \in Components
        BY <2>3, <4>1 DEF CallSet
      <4>3. PICK p \in Nat, q \in Nat :
              /\ p = Corrections /\ q = Corrections' /\ p <= q
              /\ call.component \in OfMessaging /\ call.state # "state_error" => p + 1 <= q
        BY <1>9
      <4>4. k <= 2 + p
        BY <4>3, <4>2 DEF CallOK
      <4>5. k <= 2 + q /\ (k <= 1 + p => k <= 1 + q)
        BY <2>1, <4>3, <4>4, DeeperLater
      <4>6. ASSUME k >= 2, component_states'[d.component] # "state_error",
                   component_states[d.component] = "state_error"
            PROVE  k <= 1 + q
        <5>1. d.component = call.component /\ call.state # "state_error"
          BY <1>10, <4>2, <4>6
        <5>2. d.component \in OfMessaging
          BY <4>2, <4>6 DEF CallOK
        <5> QED
          BY <2>1, <4>3, <4>4, <5>1, <5>2, DeeperLater
      <4>7. k >= 2 =>
              /\ d.component \in OfMessaging /\ d.state = "state_error"
              /\ d.at \in {"scan", "send", "failed"} => k <= 1 + q
              /\ d.at = "compare" /\ component_states'[d.component] # "state_error" => k <= 1 + q
        BY <4>3, <4>2, <4>5, <4>6 DEF CallOK
      <4> QED
        BY <2>3, <4>3, <4>1, <4>2, <4>5, <4>7 DEF CallOK
    <3>2. PICK d \in CallSet : d = calls[u][k]
      BY <2>3
    <3>3. ReportOK(d) /\ d.since \in Nat /\ d.component \in Components
      BY <2>3, <3>2 DEF CallSet
    <3>4. CASE call.state # "state_error" /\ d.component = call.component /\ d.at # "store"
      <4>1. d.since < recoveries'[d.component]
        BY <1>4, <3>3, <3>4 DEF ReportOK
      <4> QED
        BY <1>4, <2>3, <3>1, <3>2, <3>3, <4>1 DEF ReportOK, Stands
    <3>5. CASE call.state = "state_error" \/ d.component # call.component
      <4>1. recoveries'[d.component] = recoveries[d.component]
        BY <1>3, <1>4, <3>3, <3>5
      <4>2. component_states[d.component] = "state_error"
              => component_states'[d.component] = "state_error"
        BY <1>10, <3>3, <3>5
      <4> QED
        BY <2>3, <3>1, <3>2, <3>3, <4>1, <4>2 DEF ReportOK, Stands
    <3> QED
      BY <2>3, <3>1, <3>2, <3>4, <3>5 DEF ReportOK
  <2> QED
    BY <1>11, <2>2, <2>3
<1>13. ReportsOK'
  <2> SUFFICES ASSUME ~resent'
               PROVE  /\ \A u \in Threads : overall_loop'[u] = -1
                      /\ \A u \in Threads : \A k \in 1..Len(calls'[u]) :
                           MessagingCallOK(u, calls[u][k])'
                      /\ LossOK'
    BY DEF ReportsOK
  <2>0. ~resent /\ \A u \in Threads : overall_loop'[u] = -1
    BY <1>3 DEF ReportsOK
  <2>1. MessagingCallOK(t, call) /\ call.at = "store"
    BY <1>1, <1>2, <2>0
  <2>2. ASSUME NEW u \in Threads, NEW k \in 1..Len(calls'[u])
        PROVE  MessagingCallOK(u, calls[u][k])'
    <3>1. CASE u = t /\ k = Len(calls[t]) /\ calls'[u][k] = e
      BY <1>3, <1>5, <2>1, <3>1 DEF MessagingCallOK
    <3>2. CASE /\ u # t \/ k < Len(calls[t])
               /\ calls'[u][k] = calls[u][k] /\ calls[u][k] \in CallSet
      BY <1>3, <1>11, <2>0, <2>2, <3>2 DEF ReportsOK, MessagingCallOK
    <3> QED
      BY <1>11, <2>2, <3>1, <3>2
  <2>3. LossOK'
    <3>1. SUFFICES ASSUME lost,
                          component_states'[avionics_component_messaging] # "state_error"
                   PROVE  \E u \in Threads : \E k \in 1..Len(calls'[u]) : Owes(calls'[u][k])
      BY <1>3, <2>0 DEF ReportsOK, LossOK, Owes
    <3>2. call.component # avionics_component_messaging
      BY <1>10, <2>1, <3>1 DEF MessagingCallOK
    <3>3. component_states[avionics_component_messaging] # "state_error"
      BY <1>10, <3>1, <3>2, ComponentAssumption DEF Components, avionics_component_messaging
    <3>4. PICK u \in Threads : \E k \in 1..Len(calls[u]) : Owes(calls[u][k])
      BY <2>0, <3>1, <3>3 DEF ReportsOK, LossOK
    <3>5. PICK k \in 1..Len(calls[u]) : Owes(calls[u][k])
      BY <3>4
    <3>6. u # t \/ k # Len(calls[t])
      BY <1>1, <1>2, <2>1, <3>2, <3>5 DEF Owes
    <3>7. k \in 1..Len(calls'[u]) /\ calls'[u][k] = calls[u][k]
      BY <1>1, <1>7, <1>8, <3>5, <3>6
    <3> QED
      BY <3>5, <3>7
  <2> QED
    BY <2>0, <2>2, <2>3
<1>14. PacketsOK' /\ ErrorInOverall'
  BY <1>3, PacketsAlone
<1> QED
  BY <1>8, <1>4, <1>10, <1>12, <1>13, <1>14 DEF StatesTypeOK

-----------------------------------------------------------------------------
LEMMA InitialStates == StartupInit => StatesInv
<1> SUFFICES ASSUME StartupInit PROVE StatesInv
  OBVIOUS
<1> USE DEF StartupInit, Init
<1>1. StatesTypeOK
  BY DEF StatesTypeOK, States
<1>2. CallsOK /\ ReportsOK
  BY DEF CallsOK, ReportsOK, LossOK
<1>3. PacketsOK /\ ErrorInOverall
  BY DEF PacketsOK, ErrorInOverall
<1> QED
  BY <1>1, <1>2, <1>3 DEF StatesInv

\* A report, a start or a turn of component_state_send_overall makes a call.
LEMMA BeginStep ==
  ASSUME StatesInv, NEW t \in Threads,
         \/ \E c \in Components, state \in States : Update(t, c, state)
         \/ \E c \in OfMessaging : calls[t] = <<>> /\ ReportError(t, c)
         \/ t = Main /\ MessagingStart
         \/ OverallTurn(t)
  PROVE  StatesInv'
<1>0. /\ OfMessaging \subseteq Components /\ "state_ok" \in States /\ "state_error" \in States
      /\ avionics_component_messaging \in OfMessaging
  BY ComponentAssumption DEF OfMessaging, Components, States, avionics_component_messaging,
     avionics_component_telemetry_allocator
<1>1. ASSUME NEW c \in Components, NEW state \in States, Update(t, c, state) PROVE StatesInv'
  <2>1. calls[t] = <<>> /\ calls' = [calls EXCEPT ![t] = <<NewCall(c, state)>>]
        /\ UNCHANGED <<component_states, recoveries, packets, lost, resent, started, overall_loop>>
        /\ (c \in OfMessaging => state = "state_error")
    BY <1>1 DEF Update, Idle
  <2> QED
    BY <1>0, <2>1, CallStep
<1>2. ASSUME NEW c \in OfMessaging, calls[t] = <<>>, ReportError(t, c) PROVE StatesInv'
  <2>1. calls' = [calls EXCEPT ![t] = <<NewCall(c, "state_error")>>]
        /\ UNCHANGED <<component_states, recoveries, packets, lost, resent, started, overall_loop>>
    BY <1>2 DEF ReportError
  <2> QED
    BY <1>0, <1>2, <2>1, CallStep
<1>3. CASE t = Main /\ MessagingStart
  <2>1. /\ calls[t] = <<>> /\ ~started /\ started'
        /\ calls' = [calls EXCEPT ![t] = <<NewCall(avionics_component_messaging, "state_ok")>>]
        /\ UNCHANGED <<component_states, recoveries, packets, lost, resent, overall_loop>>
    BY <1>3 DEF MessagingStart, Idle
  <2>2. ~resent => ~lost
    BY <2>1 DEF StatesInv, ReportsOK, LossOK
  <2> QED
    BY <1>0, <1>3, <2>1, <2>2, CallStep
<1>4. CASE OverallTurn(t)
  <2>1. /\ calls[t] = <<>> /\ resent
        /\ UNCHANGED <<component_states, recoveries, packets, lost, resent, started>>
    BY <1>4 DEF OverallTurn, StatesInv, ReportsOK
  <2>2. CASE overall_loop[t] \in Components
    <3>1. component_states[overall_loop[t]] \in States
      BY <2>2 DEF StatesInv, StatesTypeOK
    <3>2. calls' = [calls EXCEPT ![t] =
                      <<NewCall(overall_loop[t], component_states[overall_loop[t]])>>]
      BY <1>4, <2>2 DEF OverallTurn
    <3> QED
      BY <2>1, <2>2, <3>1, <3>2, CallStep
  <2>3. CASE overall_loop[t] \notin Components
    <3>1. UNCHANGED calls
      BY <1>4, <2>3 DEF OverallTurn
    <3> QED
      BY <2>1, <3>1, NoCallStep
  <2> QED
    BY <2>2, <2>3
<1> QED
  BY <1>1, <1>2, <1>3, <1>4

LEMMA UpdateStep ==
  ASSUME StatesInv, NEW t \in Threads, component_state_update(t)
  PROVE  StatesInv'
BY StoreStep, CompareStep, ScanStep, SendStep, FailStep, ReturnStep DEF component_state_update

LEMMA StatesStep == StatesInv /\ [StartupNext]_allVars => StatesInv'
<1> SUFFICES ASSUME StatesInv, [StartupNext]_allVars PROVE StatesInv'
  OBVIOUS
<1>1. CASE UNCHANGED vars
  BY <1>1, NoCallStep DEF vars
<1>2. CASE StatesRegistered
  BY <1>2, BeginStep, ComponentAssumption DEF StatesRegistered
<1>3. ASSUME NEW t \in Threads, ProducerInit(t) \/ AllocatorInit(t) PROVE StatesInv'
  BY <1>3, NoCallStep DEF ProducerInit, AllocatorInit, Begins
<1>4. ASSUME NEW t \in Threads, SendOverall(t) PROVE StatesInv'
  BY <1>4, NoCallStep DEF SendOverall
<1>5. ASSUME NEW t \in Threads, NEW c \in Components, NEW state \in States, Update(t, c, state)
      PROVE  StatesInv'
  BY <1>5, BeginStep
<1>6. ASSUME NEW t \in Threads, GoesOn(t), ~UNCHANGED vars PROVE StatesInv'
  <2>1. CASE component_state_update(t) \/ OverallTurn(t)
    BY <2>1, UpdateStep, BeginStep
  <2>2. CASE LockProducers(t) \/ LockAllocators(t)
    <3>1. \E c \in OfMessaging : calls[t] = <<>> /\ ReportError(t, c)
      BY <1>6, <2>2 DEF LockProducers, LockAllocators, InitAt, ProducerKnown, ProducersFull,
         ProducerSlot, AllocatorKnown, AllocatorsFull, AllocatorSlot, OfMessaging
    <3> QED
      BY <3>1, BeginStep
  <2> QED
    BY <1>6, <2>1, <2>2 DEF GoesOn, UnlockProducers, Reported, UnlockAllocators
<1> QED
  BY <1>1, <1>2, <1>3, <1>4, <1>5, <1>6 DEF StartupNext, allVars, Start

LEMMA StatesKept == StartupSpec => []StatesInv
BY InitialStates, StatesStep, PTL DEF StartupSpec

\* The states of the components and the calls that report them stay well typed: a
\* scan never reads beyond the last component.
THEOREM StatesTypeCorrect == StartupSpec => []ComponentTypeOK
<1>1. StatesInv => ComponentTypeOK
  <2> SUFFICES ASSUME StatesInv PROVE ComponentTypeOK
    OBVIOUS
  <2>1. ASSUME NEW t \in Threads, NEW k \in 1..Len(calls[t])
        PROVE  calls[t][k] \in CallSet /\ CallOK(k, calls[t][k])
    BY <2>1 DEF StatesInv, StatesTypeOK, CallsOK
  <2> QED
    BY <2>1 DEF ComponentTypeOK, StatesInv, StatesTypeOK, CallSet, CallLabels, CallOK
<1> QED
  BY <1>1, StatesKept, PTL

\* However many sends fail, the calls that report it nest no deeper than two, but
\* for the corrections others make meanwhile.
THEOREM ErrorsDoNotLoop == StartupSpec => []NoErrorLoop
<1>1. StatesInv => NoErrorLoop
  <2> SUFFICES ASSUME StatesInv, NEW t \in Threads PROVE Len(calls[t]) <= 2 + Corrections
    BY DEF NoErrorLoop
  <2>1. calls[t] \in Seq(CallSet) /\ Corrections \in Nat
    BY CorrectionsType DEF StatesInv, StatesTypeOK
  <2>2. CASE calls[t] = <<>>
    BY <2>1, <2>2
  <2>3. CASE calls[t] # <<>>
    <3>1. Len(calls[t]) \in 1..Len(calls[t])
      BY <2>1, <2>3
    <3> QED
      BY <3>1 DEF StatesInv, CallsOK, CallOK
  <2> QED
    BY <2>2, <2>3
<1> QED
  BY <1>1, StatesKept, PTL

\* A lost state packet leaves messaging in error, whoever lost it and whatever the
\* other threads report meanwhile.
THEOREM LossesAreVisible == StartupSpec => []LossIsVisible
<1>1. StatesInv => LossIsVisible
  BY DEF StatesInv, ReportsOK, LossOK, LossIsVisible
<1> QED
  BY <1>1, StatesKept, PTL

\* A packet that reports an error of a component reports one of the system, however
\* many threads report that component, unless one has stored meanwhile that it is in
\* no error.
THEOREM ErrorsReachOverall == StartupSpec => []ErrorInOverall
<1>1. StatesInv => ErrorInOverall
  BY DEF StatesInv
<1> QED
  BY <1>1, StatesKept, PTL
=============================================================================
