---------------------------- MODULE MessagingStd ----------------------------
(***************************************************************************)
(* The desktop publish/subscribe core, os/std/messaging.cpp, with the      *)
(* mailbox it is built on, os/std/impl/TQueue.h: an unbounded queue, a     *)
(* mutex and a condition variable, which can be closed and opened again.   *)
(* Packets are held by shared pointers, so their memory is not modelled.   *)
(*                                                                         *)
(* A step is what happens between two visible operations: one critical     *)
(* section of a TQueue, or one access to is_paused or to the pool of       *)
(* consumers.                                                              *)
(***************************************************************************)
EXTENDS Integers, Sequences, FiniteSets

CONSTANTS
    Senders,            \* threads that send
    Receivers,          \* threads that call messaging_consumer_receive
    Controllers,        \* threads that initialise, pause, resume and terminate
    Consumers,
    Reads,              \* Reads[t]: the consumers thread t receives from
    Controls,           \* Controls[t]: the consumers thread t controls
    Messages,
    Accepts,            \* Accepts[c]: the messages that pass c's masks
    MAX_NUM_CONSUMERS,
    MaxQueue,           \* bound: a send begins only while each mailbox has fewer
    None

Threads == Senders \cup Receivers \cup Controllers

ASSUME StdAssumption ==
    /\ IsFiniteSet(Threads)
    /\ Senders \cap (Receivers \cup Controllers) = {}
    /\ Receivers \cap Controllers = {}
    /\ Reads \in [Receivers -> SUBSET Consumers]
    /\ Controls \in [Controllers -> SUBSET Consumers]
    /\ Accepts \in [Consumers -> SUBSET Messages]
    /\ MAX_NUM_CONSUMERS \in Nat /\ MaxQueue \in Nat \ {0}
    /\ None \notin Threads \cup Messages \cup Consumers

VARIABLES
    pc,                 \* where each thread is
    consumer,           \* the consumer of the call it is in
    blocking, silent,   \* arguments of its messaging_consumer_receive
    flushing,           \* that call is made by messaging_pause_consumer
    message,            \* the message a thread holds a shared pointer to
    index, num_consumers,   \* messaging_send's loop
    returned,           \* what its last messaging_consumer_receive returned,
                        \* until it calls again
    queue_, running,    \* the TQueue of each consumer
    is_paused,
    consumer_pool,
    register_mutex,     \* the thread that holds consumer_register_mutex, or None
    component_state

args == <<consumer, blocking, silent, flushing>>
sends == <<message, index, num_consumers>>
mailbox == <<queue_, running>>
shared == <<mailbox, is_paused, consumer_pool, register_mutex, component_state>>
vars == <<pc, args, sends, returned, shared>>

Registered == {consumer_pool[k] : k \in 1..Len(consumer_pool)}

Labels == {"idle", "test", "enqueue", "peek", "dequeue", "waiting", "callback",
           "close", "unpause"}

Codes == {"ok", "buffer_empty", "invalid_consumer", "callback_error", "terminate"}

Init ==
    /\ pc = [t \in Threads |-> "idle"]
    /\ consumer = [t \in Threads |-> None]
    /\ blocking = [t \in Threads |-> FALSE]
    /\ silent = [t \in Threads |-> FALSE]
    /\ flushing = [t \in Threads |-> FALSE]
    /\ message = [t \in Threads |-> None]
    /\ index = [t \in Senders |-> 1]
    /\ num_consumers = [t \in Senders |-> 0]
    /\ returned = [t \in Threads |-> None]
    /\ queue_ = [c \in Consumers |-> <<>>]
    /\ running = [c \in Consumers |-> TRUE]
    /\ is_paused = [c \in Consumers |-> FALSE]
    /\ consumer_pool = <<>>
    /\ register_mutex = None
    /\ component_state = "ok"

Goto(t, label) == pc' = [pc EXCEPT ![t] = label]

\* The arguments of a call, and their end with it
Call(t, c, block, quiet, flush) ==
    /\ consumer' = [consumer EXCEPT ![t] = c]
    /\ blocking' = [blocking EXCEPT ![t] = block]
    /\ silent' = [silent EXCEPT ![t] = quiet]
    /\ flushing' = [flushing EXCEPT ![t] = flush]

EndCall(t) == Call(t, None, FALSE, FALSE, FALSE)

-----------------------------------------------------------------------------
(* TQueue *)

Waiting(c) == {t \in Threads : pc[t] = "waiting" /\ consumer[t] = c}

\* Mutant: enqueue wakes a receiver only when the queue was empty
NotifyWhenEmpty(t, c, label) ==
    \/ /\ Waiting(c) # {} /\ queue_[c] = <<>>
       /\ \E w \in Waiting(c) : pc' = [pc EXCEPT ![t] = label, ![w] = "dequeue"]
    \/ /\ Waiting(c) = {} \/ queue_[c] # <<>>
       /\ Goto(t, label)

\* condition_.notify_one, as thread t goes on to label
NotifyOne(t, c, label) ==
    \/ \E w \in Waiting(c) : pc' = [pc EXCEPT ![t] = label, ![w] = "dequeue"]
    \/ Waiting(c) = {} /\ Goto(t, label)

\* condition_.notify_all
NotifyAll(t, c, label) ==
    pc' = [u \in Threads |-> IF u = t THEN label
                             ELSE IF u \in Waiting(c) THEN "dequeue" ELSE pc[u]]

-----------------------------------------------------------------------------
(* Sending *)

Target(s) == consumer_pool[index[s]]

\* messaging_producer_send: the copy of the data, the reference, and the
\* snapshot of the number of consumers
BeginSend(s) ==
    /\ pc[s] = "idle"
    /\ \A c \in Consumers : Len(queue_[c]) < MaxQueue
    /\ \E m \in Messages : message' = [message EXCEPT ![s] = m]
    /\ index' = [index EXCEPT ![s] = 1]
    /\ num_consumers' = [num_consumers EXCEPT ![s] = Len(consumer_pool)]
    /\ Goto(s, "test")
    /\ UNCHANGED <<args, returned, shared>>

\* ... or no memory for it: messaging_send_producer_heap_full
AllocFails(s) ==
    /\ pc[s] = "idle"
    /\ component_state' = "error"
    /\ UNCHANGED <<pc, args, sends, returned, mailbox, is_paused, consumer_pool,
                   register_mutex>>

Wants(s) == ~is_paused[Target(s)] /\ message[s] \in Accepts[Target(s)]

\* Mutant: the loop counts down
SkipDown(s) ==
    /\ pc[s] = "test"
    /\ index[s] <= num_consumers[s]
    /\ ~Wants(s)
    /\ index' = [index EXCEPT ![s] = @ - 1]
    /\ UNCHANGED <<pc, args, message, num_consumers, returned, shared>>

Skip(s) ==
    /\ pc[s] = "test"
    /\ index[s] <= num_consumers[s]
    /\ ~Wants(s)
    /\ index' = [index EXCEPT ![s] = @ + 1]
    /\ UNCHANGED <<pc, args, message, num_consumers, returned, shared>>

Select(s) ==
    /\ pc[s] = "test"
    /\ index[s] <= num_consumers[s]
    /\ Wants(s)
    /\ Goto(s, "enqueue")
    /\ UNCHANGED <<args, sends, returned, shared>>

\* Mutant: a closed queue still takes what it is given
EnqueueClosed(s) ==
    /\ pc[s] = "enqueue"
    /\ queue_' = [queue_ EXCEPT ![Target(s)] = Append(@, message[s])]
    /\ NotifyOne(s, Target(s), "test")
    /\ index' = [index EXCEPT ![s] = @ + 1]
    /\ UNCHANGED <<args, message, num_consumers, returned, running, is_paused,
                   consumer_pool, register_mutex, component_state>>

\* TQueue.enqueue; a closed queue swallows the message, and nobody is told
Enqueue(s) ==
    /\ pc[s] = "enqueue"
    /\ \/ /\ running[Target(s)]
          /\ queue_' = [queue_ EXCEPT ![Target(s)] = Append(@, message[s])]
          /\ NotifyOne(s, Target(s), "test")
       \/ /\ ~running[Target(s)]
          /\ Goto(s, "test")
          /\ UNCHANGED queue_
    /\ index' = [index EXCEPT ![s] = @ + 1]
    /\ UNCHANGED <<args, message, num_consumers, returned, running, is_paused,
                   consumer_pool, register_mutex, component_state>>

EndSend(s) ==
    /\ pc[s] = "test"
    /\ index[s] > num_consumers[s]
    /\ message' = [message EXCEPT ![s] = None]
    /\ index' = [index EXCEPT ![s] = 1]
    /\ num_consumers' = [num_consumers EXCEPT ![s] = 0]
    /\ Goto(s, "idle")
    /\ UNCHANGED <<args, returned, shared>>

-----------------------------------------------------------------------------
(* Receiving *)

\* messaging_consumer_receive(c, block, quiet)
Receive(t, c, block, quiet) ==
    /\ pc[t] = "idle"
    /\ c \in Registered
    /\ Call(t, c, block, quiet, FALSE)
    /\ Goto(t, IF block THEN "dequeue" ELSE "peek")
    /\ returned' = [returned EXCEPT ![t] = None]
    /\ UNCHANGED <<sends, shared>>

ReceiveInvalid(t, c) ==
    /\ pc[t] = "idle"
    /\ c \notin Registered
    /\ component_state' = "error"
    /\ returned' = [returned EXCEPT ![t] = "invalid_consumer"]
    /\ UNCHANGED <<pc, args, sends, mailbox, is_paused, consumer_pool, register_mutex>>

\* Where a call that ends with this code goes on: the loop of
\* messaging_pause_consumer calls again until the buffer is empty, and keeps
\* the code to itself
Return(t, code) ==
    /\ returned' = [returned EXCEPT ![t] = IF flushing[t] THEN None ELSE code]
    /\ IF flushing[t] /\ code # "buffer_empty" THEN Goto(t, "peek") /\ UNCHANGED args
       ELSE Goto(t, "idle") /\ EndCall(t)

\* TQueue.isEmpty, of a call that is not to block
Peek(t) ==
    /\ pc[t] = "peek"
    /\ IF queue_[consumer[t]] = <<>> THEN Return(t, "buffer_empty")
       ELSE Goto(t, "dequeue") /\ UNCHANGED <<args, returned>>
    /\ UNCHANGED <<sends, shared>>

\* TQueue.dequeue: take the first message ...
Dequeue(t) ==
    /\ pc[t] = "dequeue"
    /\ queue_[consumer[t]] # <<>>
    /\ queue_' = [queue_ EXCEPT ![consumer[t]] = Tail(@)]
    /\ IF silent[t] THEN Return(t, "ok") /\ UNCHANGED message
       ELSE /\ message' = [message EXCEPT ![t] = Head(queue_[consumer[t]])]
            /\ Goto(t, "callback")
            /\ UNCHANGED <<args, returned>>
    /\ UNCHANGED <<index, num_consumers, running, is_paused, consumer_pool,
                   register_mutex, component_state>>

\* ... or wait for one ...
Wait(t) ==
    /\ pc[t] = "dequeue"
    /\ queue_[consumer[t]] = <<>> /\ running[consumer[t]]
    /\ Goto(t, "waiting")
    /\ UNCHANGED <<args, sends, returned, shared>>

\* ... or find the queue closed, and nothing left in it
Terminated(t) ==
    /\ pc[t] = "dequeue"
    /\ queue_[consumer[t]] = <<>> /\ ~running[consumer[t]]
    /\ Return(t, "terminate")
    /\ UNCHANGED <<sends, shared>>

\* A condition variable may wake a thread without cause
SpuriousWake(t) ==
    /\ pc[t] = "waiting"
    /\ Goto(t, "dequeue")
    /\ UNCHANGED <<args, sends, returned, shared>>

CallbackReturns(t) ==
    /\ pc[t] = "callback"
    /\ \E code \in {"ok", "callback_error"} : Return(t, code)
    /\ message' = [message EXCEPT ![t] = None]
    /\ UNCHANGED <<index, num_consumers, shared>>

-----------------------------------------------------------------------------
(* Controlling *)

\* messaging_consumer_init of a new consumer.  Storing impl and raising the index of the
\* pool are one step: senders do not look at the entry before the index is raised, and
\* nobody else uses the consumer before its messaging_consumer_init has returned.
Register(t, c) ==
    /\ pc[t] = "idle" /\ register_mutex = None
    /\ c \notin Registered
    /\ Len(consumer_pool) < MAX_NUM_CONSUMERS
    /\ consumer_pool' = Append(consumer_pool, c)
    /\ UNCHANGED <<pc, args, sends, returned, mailbox, is_paused, register_mutex,
                   component_state>>

RegisterFails(t, c) ==
    /\ pc[t] = "idle" /\ register_mutex = None
    /\ c \notin Registered
    /\ Len(consumer_pool) >= MAX_NUM_CONSUMERS
    /\ component_state' = "error"
    /\ UNCHANGED <<pc, args, sends, returned, mailbox, is_paused, consumer_pool,
                   register_mutex>>

\* ... and of one that may have been closed: open its mailbox, and only then ...
Reopen(t, c) ==
    /\ pc[t] = "idle" /\ register_mutex = None
    /\ c \in Registered
    /\ register_mutex' = t
    /\ running' = [running EXCEPT ![c] = TRUE]
    /\ Call(t, c, FALSE, FALSE, FALSE)
    /\ Goto(t, "unpause")
    /\ UNCHANGED <<sends, returned, queue_, is_paused,
                   consumer_pool, component_state>>

\* ... resume it
Unpause(t) ==
    /\ pc[t] = "unpause"
    /\ is_paused' = [is_paused EXCEPT ![consumer[t]] = FALSE]
    /\ register_mutex' = None
    /\ EndCall(t)
    /\ Goto(t, "idle")
    /\ UNCHANGED <<sends, returned, mailbox, consumer_pool, component_state>>

\* messaging_pause_consumer
Pause(t, c, flush_buffer) ==
    /\ pc[t] = "idle"
    /\ c \in Registered
    /\ is_paused' = [is_paused EXCEPT ![c] = TRUE]
    /\ IF flush_buffer THEN Call(t, c, FALSE, TRUE, TRUE) /\ Goto(t, "peek")
       ELSE UNCHANGED <<pc, args>>
    /\ UNCHANGED <<sends, returned, mailbox, consumer_pool, register_mutex, component_state>>

\* messaging_resume_consumer, by a client that has not terminated the consumer
Resume(t, c) ==
    /\ pc[t] = "idle"
    /\ c \in Registered /\ running[c] /\ is_paused[c]
    /\ is_paused' = [is_paused EXCEPT ![c] = FALSE]
    /\ UNCHANGED <<pc, args, sends, returned, mailbox, consumer_pool, register_mutex,
                   component_state>>

\* Mutant: the consumer is closed without being paused
TerminateUnpaused(t, c) ==
    /\ pc[t] = "idle"
    /\ c \in Registered
    /\ Call(t, c, FALSE, FALSE, FALSE)
    /\ Goto(t, "close")
    /\ UNCHANGED <<sends, returned, mailbox, is_paused, consumer_pool, register_mutex,
                   component_state>>

\* messaging_consumer_terminate: no new sends, then ...
Terminate(t, c) ==
    /\ pc[t] = "idle"
    /\ c \in Registered
    /\ is_paused' = [is_paused EXCEPT ![c] = TRUE]
    /\ Call(t, c, FALSE, FALSE, FALSE)
    /\ Goto(t, "close")
    /\ UNCHANGED <<sends, returned, mailbox, consumer_pool,
                   register_mutex, component_state>>

\* Mutant: close wakes one receiver
CloseNotifyOne(t) ==
    /\ pc[t] = "close"
    /\ running' = [running EXCEPT ![consumer[t]] = FALSE]
    /\ NotifyOne(t, consumer[t], "idle")
    /\ EndCall(t)
    /\ UNCHANGED <<sends, returned, queue_, is_paused, consumer_pool,
                   register_mutex, component_state>>

\* Mutant: close wakes nobody
CloseSilently(t) ==
    /\ pc[t] = "close"
    /\ running' = [running EXCEPT ![consumer[t]] = FALSE]
    /\ Goto(t, "idle")
    /\ EndCall(t)
    /\ UNCHANGED <<sends, returned, queue_, is_paused, consumer_pool,
                   register_mutex, component_state>>

\* ... TQueue.close
Close(t) ==
    /\ pc[t] = "close"
    /\ running' = [running EXCEPT ![consumer[t]] = FALSE]
    /\ NotifyAll(t, consumer[t], "idle")
    /\ EndCall(t)
    /\ UNCHANGED <<sends, returned, queue_, is_paused, consumer_pool,
                   register_mutex, component_state>>

-----------------------------------------------------------------------------
Sending(s) == Skip(s) \/ Select(s) \/ Enqueue(s) \/ EndSend(s)

\* The rest of a messaging_consumer_receive
Receiving(t) ==
    Peek(t) \/ Dequeue(t) \/ Wait(t) \/ Terminated(t) \/ CallbackReturns(t)

Control(t, c) ==
    \/ Register(t, c) \/ RegisterFails(t, c) \/ Reopen(t, c)
    \/ \E flush_buffer \in BOOLEAN : Pause(t, c, flush_buffer)
    \/ Resume(t, c) \/ Terminate(t, c)

Next ==
    \/ \E s \in Senders : BeginSend(s) \/ AllocFails(s) \/ Sending(s)
    \/ \E t \in Receivers : \E c \in Reads[t] :
         \/ \E block \in BOOLEAN : Receive(t, c, block, FALSE)
         \/ ReceiveInvalid(t, c)
    \/ \E t \in Controllers : \E c \in Controls[t] : Control(t, c)
    \/ \E t \in Controllers : Unpause(t) \/ Close(t)
    \/ \E t \in Receivers \cup Controllers : Receiving(t) \/ SpuriousWake(t)

Spec == Init /\ [][Next]_vars

-----------------------------------------------------------------------------
(* The bus that this code implements, the same as that of ChibiOS, with     *)
(* queues that never fill.                                                   *)

BusSend(s) ==
    IF message[s] = None THEN None
    ELSE [message |-> message[s],
          todo    |-> {consumer_pool[j] : j \in index[s]..num_consumers[s]},
          failed  |-> FALSE,
          room    |-> "unknown"]

Bus == INSTANCE MessageBus WITH
    Capacity   <- [c \in Consumers |-> MaxQueue + Cardinality(Senders)],
    registered <- Registered,
    sending    <- [s \in Senders |-> BusSend(s)],
    queue      <- queue_,
    inhand     <- [t \in Receivers |-> message[t]],
    paused     <- is_paused,
    error      <- (component_state = "error")

-----------------------------------------------------------------------------
(* Properties *)

\* A send of the bus is not the value that stands for no send
ASSUME BusAssumption == None \notin Bus!Sends

\* A message that reaches a callback of one of a consumer's threads was sent, is
\* accepted by the consumer, comes in the order of its mailbox and comes once; a
\* send that passes a consumer over does so because it is paused or does not
\* accept the message, even while it is terminated or reopened.
ImplementsBus == Bus!Spec

\* Within a call a thread has the consumer or the message it is about; a send's
\* loop stays within the consumers there are.
CallsOK ==
    /\ \A t \in Threads :
         pc[t] \in {"peek", "dequeue", "waiting", "callback", "close", "unpause"}
         => consumer[t] \in Consumers /\ t \notin Senders
    /\ \A s \in Senders :
         /\ pc[s] \in {"test", "enqueue"} => message[s] # None
         /\ num_consumers[s] <= Len(consumer_pool)
         /\ pc[s] = "enqueue" => index[s] <= num_consumers[s]

\* Type correctness of the desktop core.
StdTypeOK ==
    /\ pc \in [Threads -> Labels]
    /\ consumer \in [Threads -> Consumers \cup {None}]
    /\ blocking \in [Threads -> BOOLEAN]
    /\ silent \in [Threads -> BOOLEAN]
    /\ flushing \in [Threads -> BOOLEAN]
    /\ message \in [Threads -> Messages \cup {None}]
    /\ index \in [Senders -> Nat \ {0}]
    /\ num_consumers \in [Senders -> Nat]
    /\ returned \in [Threads -> Codes \cup {None}]
    /\ queue_ \in [Consumers -> Seq(Messages)]
    /\ running \in [Consumers -> BOOLEAN]
    /\ is_paused \in [Consumers -> BOOLEAN]
    /\ consumer_pool \in Seq(Consumers)
    /\ register_mutex \in Threads \cup {None}
    /\ component_state \in {"ok", "error"}
    /\ CallsOK

\* The receivers of c that are awake, inside TQueue.dequeue
Awake(c) == {t \in Threads : pc[t] = "dequeue" /\ consumer[t] = c}

\* No wakeup is lost: while a receiver sleeps, every message of the mailbox has
\* a receiver of its own that is awake to take it.
NoLostWakeup ==
    \A c \in Consumers : Waiting(c) # {} => Cardinality(Awake(c)) >= Len(queue_[c])

\* messaging_consumer_terminate "unblocks any messaging threads waiting on
\* packets" (messaging.h): nobody sleeps on a closed mailbox, not one of several
\* receivers, nor one that comes late.
NobodyWaitsOnClosed == \A c \in Consumers : Waiting(c) # {} => running[c]

\* ... "and prevents new packets being enqueued to this consumer": as long as a
\* mailbox stays closed it only shrinks, whatever sends were on their way to it.
ClosedOnlyDrains ==
    [][\A c \in Consumers : ~running[c] /\ ~running'[c] =>
         \E n \in 1..Len(queue_[c]) + 1 : queue_'[c] = SubSeq(queue_[c], n, Len(queue_[c]))]_vars

\* README.md says that blocking "specifies whether to block waiting for packets".
NonBlockingNeverWaits == \A t \in Threads : pc[t] = "waiting" => blocking[t]
=============================================================================
