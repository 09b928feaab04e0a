------------------------------- MODULE Startup -------------------------------
(***************************************************************************)
(* How the system comes up, while its threads already report the state of  *)
(* their components: messaging_start registers the producer of the state   *)
(* packets, the other threads wait for messaging_started and initialise    *)
(* their producers (os/chibios/messaging.c, os/std/messaging.cpp) and the  *)
(* allocators of their interfaces (os/chibios/telemetry_allocator.c).  A   *)
(* pool that is full is an error, which is reported as a component state,  *)
(* under the lock of the pool or not.                                      *)
(*                                                                         *)
(* telemetry_allocator_start has been called before there are threads.     *)
(***************************************************************************)
EXTENDS ComponentState, FiniteSets

CONSTANTS
    Producers, state_producer,  \* state_producer is component_state.c's own
    Allocators,
    AllocatorOf,                \* AllocatorOf[p]: telemetry_allocator of producer p
    ProducersOf, AllocatorsOf,  \* what each thread initialises
    MAX_NUM_PRODUCERS, MAX_NUM_ALLOCATORS,
    None

ASSUME StartupAssumption ==
    /\ state_producer \in Producers /\ AllocatorOf \in [Producers -> Allocators]
    /\ ProducersOf \in [Threads -> SUBSET Producers]
    /\ AllocatorsOf \in [Threads -> SUBSET Allocators]
    /\ MAX_NUM_PRODUCERS \in Nat /\ MAX_NUM_ALLOCATORS \in Nat
    /\ None \notin Threads \cup Producers \cup Allocators

VARIABLES
    os,                         \* "chibios", or "std", where allocators need no slot
    is_started,
    init,                       \* the messaging_producer_init or
                                \* telemetry_allocator_init each thread is in
    producer_impl, allocator_impl,  \* the slot each one has, 0 when impl is NULL
    cur_producer_pool_index, cur_allocator_pool_index,
    producer_register_mutex, register_mutex     \* the threads that hold them

pools == <<producer_impl, allocator_impl, cur_producer_pool_index,
           cur_allocator_pool_index, producer_register_mutex, register_mutex>>
startVars == <<os, is_started, init, pools>>
allVars == <<vars, startVars>>

NoInit == [at |-> "idle", producer |-> None, allocator |-> None]

StartupInit ==
    /\ Init
    /\ os \in {"chibios", "std"}
    /\ is_started = FALSE
    /\ init = [t \in Threads |-> NoInit]
    /\ producer_impl = [p \in Producers |-> 0]
    /\ allocator_impl = [a \in Allocators |-> 0]
    /\ cur_producer_pool_index = 0 /\ cur_allocator_pool_index = 0
    /\ producer_register_mutex = None /\ register_mutex = None

-----------------------------------------------------------------------------
InitAt(t, label) == init[t].at = label /\ calls[t] = <<>>

Goes(t, label) ==
    init' = [init EXCEPT ![t] = IF label = "idle" THEN NoInit ELSE [@ EXCEPT !.at = label]]

\* COMPONENT_STATE_UPDATE(c, state_error), by a thread that is not in another
ReportError(t, c) ==
    /\ calls' = [calls EXCEPT ![t] = <<NewCall(c, "state_error")>>]
    /\ UNCHANGED <<component_states, registered_with_messaging, started, overall_loop,
                   packets, updates, recoveries, resent, lost>>

\* The call of messaging_producer_init
Calls(p) == [at |-> "producer", producer |-> p, allocator |-> AllocatorOf[p]]

\* messaging_start; messaging_started returns true from now on
Start ==
    /\ ~is_started /\ Idle(Main)
    /\ is_started' = TRUE
    /\ init' = IF messaging_enabled THEN [init EXCEPT ![Main] = Calls(state_producer)]
               ELSE init
    /\ UNCHANGED <<vars, os, pools>>

\* ... goes on when the producer of the state packets is initialised, or is not:
\* component_state_register_with_messaging does not look
StatesRegistered ==
    /\ is_started /\ init[Main] = NoInit
    /\ MessagingStart
    /\ UNCHANGED startVars

\* Another initialisation begins; MaxUpdates bounds them too
Begins(t) ==
    /\ is_started /\ Idle(t) /\ init[t] = NoInit
    /\ updates < MaxUpdates /\ updates' = updates + 1
    /\ UNCHANGED <<component_states, registered_with_messaging, started, calls,
                   overall_loop, packets, recoveries, resent, lost>>
    /\ UNCHANGED <<os, is_started, pools>>

ProducerInit(t) ==
    /\ Begins(t)
    /\ \E p \in ProducersOf[t] : init' = [init EXCEPT ![t] = Calls(p)]

\* telemetry_allocator_init, called by serial_interface_init or can_interface_init
AllocatorInit(t) ==
    /\ os = "chibios"
    /\ Begins(t)
    /\ \E a \in AllocatorsOf[t] :
         init' = [init EXCEPT ![t] = [at |-> "allocator", producer |-> None, allocator |-> a]]

-----------------------------------------------------------------------------
(* messaging_producer_init *)

ProducerKnown(t) ==
    /\ producer_impl[init[t].producer] # 0
    /\ Goes(t, "idle")
    /\ UNCHANGED <<vars, pools>>

\* On std the lock is held until the report is made
ProducersFull(t) ==
    /\ producer_impl[init[t].producer] = 0
    /\ cur_producer_pool_index >= MAX_NUM_PRODUCERS
    /\ Goes(t, "report")
    /\ producer_register_mutex' = IF os = "std" THEN t ELSE None
    /\ ReportError(t, avionics_component_messaging)
    /\ UNCHANGED <<producer_impl, allocator_impl, cur_producer_pool_index,
                   cur_allocator_pool_index, register_mutex>>

ProducerSlot(t) ==
    /\ producer_impl[init[t].producer] = 0
    /\ cur_producer_pool_index < MAX_NUM_PRODUCERS
    /\ Goes(t, IF os = "std" THEN "initialised" ELSE "allocator")
    /\ producer_register_mutex' = t
    /\ producer_impl' = [producer_impl EXCEPT ![init[t].producer] = cur_producer_pool_index + 1]
    /\ UNCHANGED <<vars, allocator_impl, cur_producer_pool_index, cur_allocator_pool_index,
                   register_mutex>>

\* Mutant: the pool is not locked
LockNothing(t) ==
    /\ InitAt(t, "producer")
    /\ ProducerKnown(t) \/ ProducersFull(t) \/ ProducerSlot(t)
    /\ UNCHANGED <<os, is_started>>

\* Mutant: a producer that is initialised already is left with the lock held
LockKept(t) ==
    /\ InitAt(t, "producer") /\ producer_register_mutex = None
    /\ \/ /\ producer_impl[init[t].producer] # 0
          /\ Goes(t, "idle")
          /\ producer_register_mutex' = t
          /\ UNCHANGED <<vars, producer_impl, allocator_impl, cur_producer_pool_index,
                         cur_allocator_pool_index, register_mutex>>
       \/ ProducersFull(t) \/ ProducerSlot(t)
    /\ UNCHANGED <<os, is_started>>

LockProducers(t) ==
    /\ InitAt(t, "producer") /\ producer_register_mutex = None
    /\ ProducerKnown(t) \/ ProducersFull(t) \/ ProducerSlot(t)
    /\ UNCHANGED <<os, is_started>>

\* Whether the allocator got a slot is not looked at
UnlockProducers(t) ==
    /\ InitAt(t, "initialised")
    /\ cur_producer_pool_index' = cur_producer_pool_index + 1
    /\ producer_register_mutex' = None
    /\ Goes(t, "idle")
    /\ UNCHANGED <<vars, os, is_started, producer_impl, allocator_impl,
                   cur_allocator_pool_index, register_mutex>>

\* The error was reported
Reported(t) ==
    /\ InitAt(t, "report")
    /\ producer_register_mutex' =
         IF producer_register_mutex = t THEN None ELSE producer_register_mutex
    /\ Goes(t, "idle")
    /\ UNCHANGED <<vars, os, is_started, producer_impl, allocator_impl,
                   cur_producer_pool_index, cur_allocator_pool_index, register_mutex>>

-----------------------------------------------------------------------------
(* telemetry_allocator_init *)

\* Where it returns to
Caller(t) == IF init[t].producer = None THEN "idle" ELSE "initialised"

AllocatorKnown(t) ==
    /\ allocator_impl[init[t].allocator] # 0
    /\ Goes(t, Caller(t))
    /\ UNCHANGED <<vars, allocator_impl, register_mutex>>

AllocatorsFull(t) ==
    /\ allocator_impl[init[t].allocator] = 0
    /\ cur_allocator_pool_index >= MAX_NUM_ALLOCATORS
    /\ Goes(t, IF init[t].producer = None THEN "report" ELSE "initialised")
    /\ ReportError(t, avionics_component_telemetry_allocator)
    /\ UNCHANGED <<allocator_impl, register_mutex>>

AllocatorSlot(t) ==
    /\ allocator_impl[init[t].allocator] = 0
    /\ cur_allocator_pool_index < MAX_NUM_ALLOCATORS
    /\ Goes(t, "slot")
    /\ register_mutex' = t
    /\ allocator_impl' = [allocator_impl EXCEPT ![init[t].allocator] = cur_allocator_pool_index + 1]
    /\ UNCHANGED vars

LockAllocators(t) ==
    /\ InitAt(t, "allocator") /\ register_mutex = None
    /\ AllocatorKnown(t) \/ AllocatorsFull(t) \/ AllocatorSlot(t)
    /\ UNCHANGED <<os, is_started, producer_impl, cur_producer_pool_index,
                   cur_allocator_pool_index, producer_register_mutex>>

UnlockAllocators(t) ==
    /\ InitAt(t, "slot")
    /\ cur_allocator_pool_index' = cur_allocator_pool_index + 1
    /\ register_mutex' = None
    /\ Goes(t, Caller(t))
    /\ UNCHANGED <<vars, os, is_started, producer_impl, allocator_impl,
                   cur_producer_pool_index, producer_register_mutex>>

-----------------------------------------------------------------------------
\* What a state packet takes
CanSend ==
    /\ producer_impl[state_producer] # 0
    /\ os = "chibios" => allocator_impl[AllocatorOf[state_producer]] # 0

\* A thread goes on with the call it is in
GoesOn(t) ==
    \/ LockProducers(t) \/ UnlockProducers(t) \/ Reported(t)
    \/ LockAllocators(t) \/ UnlockAllocators(t)
    \/ /\ component_state_update(t) \/ OverallTurn(t)
       /\ packets' # packets => CanSend
       /\ UNCHANGED startVars

StartupNext ==
    \/ Start \/ StatesRegistered
    \/ \E t \in Threads :
         \/ ProducerInit(t) \/ AllocatorInit(t)
         \/ init[t] = NoInit /\ SendOverall(t) /\ UNCHANGED startVars
         \/ \E c \in Components, state \in States :
              init[t] = NoInit /\ Update(t, c, state) /\ UNCHANGED startVars
         \/ GoesOn(t)

StartupSpec == StartupInit /\ [][StartupNext]_allVars

\* A thread in a call goes on; strong fairness, as a lock that is free again and
\* again is taken.  messaging_start is not abandoned once it was called.
FairStartupSpec == StartupSpec /\ \A t \in Threads : SF_allVars(GoesOn(t))

-----------------------------------------------------------------------------
\* A slot of a pool belongs to one producer or allocator, however many threads
\* initialise them, the same one twice too, and none is lost or given out beyond
\* the pool: a full pool has as many as its size.
SlotsExact ==
    /\ \A p, q \in Producers : producer_impl[p] = producer_impl[q] /\ p # q => producer_impl[p] = 0
    /\ \A a, b \in Allocators :
         allocator_impl[a] = allocator_impl[b] /\ a # b => allocator_impl[a] = 0
    /\ producer_register_mutex = None =>
         cur_producer_pool_index = Cardinality({p \in Producers : producer_impl[p] # 0})
    /\ register_mutex = None =>
         cur_allocator_pool_index = Cardinality({a \in Allocators : allocator_impl[a] # 0})

\* Every initialisation returns, one that fails and reports so while it holds the
\* lock of a pool too: the reports take no lock that a thread may hold.
InitsReturn == \A t \in Threads : init[t] # NoInit ~> init[t] = NoInit
=============================================================================
