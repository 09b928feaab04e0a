------------------------------ MODULE Messaging ------------------------------
(***************************************************************************)
(* The ChibiOS publish/subscribe core, os/chibios/messaging.c: producers   *)
(* allocate a packet and post a reference to it into the mailbox of every  *)
(* matching consumer; a reference counter shared by the sender and the     *)
(* mailboxes says when the packet and the reference go back to their       *)
(* pools.                                                                  *)
(*                                                                         *)
(* A thread is a Sender (a thread calling messaging_producer_send in a     *)
(* loop) or a Consumer (the thread that owns one message_consumer_t, and   *)
(* registers, receives from, pauses and resumes it).  Every kernel call    *)
(* (chMBPost, chMBFetch, chPoolAlloc, chHeapAlloc...) and every LDREX/STREX*)
(* loop is one atomic step; every two of them are separate steps.          *)
(***************************************************************************)
EXTENDS Integers, Sequences, FiniteSets

CONSTANTS
    Senders,            \* threads that send
    Consumers,          \* consumers, and the thread that serves each
    Refs,               \* the blocks of telemetry_ref_memory_pool
    Packets,            \* the blocks of the producers' heaps
    Heap,               \* Heap[s]: the blocks of sender s's allocator
    Messages,           \* (header.id, flags) as the masks tell them apart
    Produces,           \* Produces[s]: the messages sender s's producer sends
    Accepts,            \* Accepts[c]: the messages that pass c's masks
    MailboxSize,        \* mailbox_size of each MESSAGING_CONSUMER
    MAX_NUM_CONSUMERS,  \* entries of consumer_pool
    FetchBeforeRetain,  \* see Window below
    None

Threads == Senders \cup Consumers

ASSUME ThreadAssumption ==
    /\ IsFiniteSet(Threads)
    /\ Senders \cap Consumers = {}
    /\ None \notin Threads

ASSUME MemoryAssumption ==
    /\ Heap \in [Senders -> SUBSET Packets]
    /\ Produces \in [Senders -> SUBSET Messages]
    /\ None \notin Refs \cup Packets \cup Messages

ASSUME ConsumerAssumption ==
    /\ Accepts \in [Consumers -> SUBSET Messages]
    /\ MailboxSize \in [Consumers -> Nat \ {0}]
    /\ MAX_NUM_CONSUMERS \in Nat

ASSUME WindowAssumption == FetchBeforeRetain \in BOOLEAN

VARIABLES
    pc,                 \* where each thread is
    heap,               \* the message in a packet, None when it is free
    ref_pool,           \* the free blocks of telemetry_ref_memory_pool
    ref_packet,         \* telemetry_ref_t.packet
    reference_count,    \* telemetry_ref_t.reference_count
    mailbox,            \* mailbox_t of each consumer
    is_paused,          \* message_consumer_impl_t.is_paused
    consumer_pool,      \* registered consumers; cur_consumer_pool_index is its length
    packet,             \* a sender's local packet before its reference exists
    ref,                \* messaging_send's local ref
    index,              \* messaging_send's loop counter, from 1
    num_consumers,      \* messaging_send's copy of cur_consumer_pool_index
    enqueue_successful, \* messaging_send's local
    fetched,            \* messaging_consumer_receive's local ref, of each thread
    freeing,            \* the reference a thread brought to zero and has yet to free
    returning,          \* the threads that have freed its packet, not yet the reference
    component_states    \* what COMPONENT_STATE_UPDATE last recorded

shared == <<heap, ref_pool, ref_packet, reference_count, mailbox, is_paused,
            consumer_pool, component_states>>
locals == <<packet, ref, index, num_consumers, enqueue_successful, fetched, freeing, returning>>
vars == <<pc, shared, locals>>

Labels == {"idle", "create", "filter", "post", "drop", "drop_release", "repost", "retain",
           "init", "invalid", "returned", "receive", "callback", "flush",
           "flush_release", "flushed", "paused"}

Init ==
    /\ pc = [t \in Threads |-> IF t \in Senders THEN "idle" ELSE "init"]
    /\ heap = [p \in Packets |-> None]
    /\ ref_pool = Refs
    /\ ref_packet = [r \in Refs |-> None]
    /\ reference_count = [r \in Refs |-> 0]
    /\ mailbox = [c \in Consumers |-> <<>>]
    /\ is_paused = [c \in Consumers |-> FALSE]
    /\ consumer_pool = <<>>
    /\ packet = [s \in Senders |-> None]
    /\ ref = [s \in Senders |-> None]
    /\ index = [s \in Senders |-> 1]
    /\ num_consumers = [s \in Senders |-> 0]
    /\ enqueue_successful = [s \in Senders |-> TRUE]
    /\ fetched = [t \in Threads |-> None]
    /\ freeing = [t \in Threads |-> None]
    /\ returning = {}
    /\ component_states = [messaging |-> "ok", telemetry_allocator |-> "ok"]

At(t, label) == pc[t] = label /\ freeing[t] = None

Goto(t, label) == pc' = [pc EXCEPT ![t] = label]

-----------------------------------------------------------------------------
(* The heap of a producer's telemetry_allocator, as many packets as fit in it *)

telemetry_allocator_alloc(p, m) ==
    /\ heap[p] = None
    /\ heap' = [heap EXCEPT ![p] = m]

telemetry_allocator_free(p) == heap' = [heap EXCEPT ![p] = None]

-----------------------------------------------------------------------------
(* Reference counting *)

\* Mutant: a release that frees while one count is left
ReleaseFreesEarly(t, r) ==
    /\ reference_count' = [reference_count EXCEPT ![r] = @ - 1]
    /\ freeing' = [freeing EXCEPT ![t] = IF reference_count[r] <= 2 THEN r ELSE None]

\* telemetry_reference_release up to its test: the thread that brings the
\* count to zero owes the frees, which Free performs.  (The counter is a
\* uint32_t; it is below zero, or above the number of holders, only once
\* NoUseAfterFree has already failed.)
Release(t, r) ==
    /\ reference_count' = [reference_count EXCEPT ![r] = @ - 1]
    /\ freeing' = [freeing EXCEPT ![t] = IF reference_count[r] = 1 THEN r ELSE None]

\* telemetry_allocator_free(ref->packet) ...
FreePacket(t) ==
    /\ freeing[t] # None /\ t \notin returning
    /\ telemetry_allocator_free(ref_packet[freeing[t]])
    /\ returning' = returning \cup {t}
    /\ UNCHANGED <<pc, ref_pool, ref_packet, reference_count, mailbox, is_paused, consumer_pool,
                   component_states, packet, ref, index, num_consumers,
                   enqueue_successful, fetched, freeing>>

\* ... then chPoolFree of the reference, whose first word, packet, becomes the pool's link
FreeRef(t) ==
    /\ t \in returning
    /\ ref_pool' = ref_pool \cup {freeing[t]}
    /\ ref_packet' = [ref_packet EXCEPT ![freeing[t]] = None]
    /\ freeing' = [freeing EXCEPT ![t] = None]
    /\ returning' = returning \ {t}
    /\ UNCHANGED <<pc, heap, reference_count, mailbox, is_paused, consumer_pool,
                   component_states, packet, ref, index, num_consumers,
                   enqueue_successful, fetched>>

Free(t) == FreePacket(t) \/ FreeRef(t)

\* The reference is in a mailbox and its sender has yet to retain it there:
\* messaging_consumer_enqueue_packet posts before it retains.  With
\* FetchBeforeRetain another thread may fetch it in that window, as a kernel
\* does that wakes a receiver of higher priority inside chMBPost; without, the
\* window closes first, as when all threads share one priority and the kernel
\* has no time slices.
Window(r) == \E s \in Senders : pc[s] = "retain" /\ ref[s] = r

\* chMBFetch of a mailbox that is not empty
Fetch(t, c) ==
    /\ mailbox[c] # <<>>
    /\ FetchBeforeRetain \/ ~Window(Head(mailbox[c]))
    /\ fetched' = [fetched EXCEPT ![t] = Head(mailbox[c])]
    /\ mailbox' = [mailbox EXCEPT ![c] = Tail(@)]

-----------------------------------------------------------------------------
(* Sending *)

\* messaging_producer_send_timestamp: allocate the packet and fill it
Alloc(s) ==
    /\ At(s, "idle")
    /\ \E p \in Heap[s], m \in Produces[s] :
         /\ telemetry_allocator_alloc(p, m)
         /\ packet' = [packet EXCEPT ![s] = p]
    /\ Goto(s, "create")
    /\ UNCHANGED <<ref_pool, ref_packet, reference_count, mailbox, is_paused, consumer_pool,
                   component_states, ref, index, num_consumers, enqueue_successful,
                   fetched, freeing, returning>>

\* ... or find the producer's heap full: messaging_send_producer_heap_full
AllocFails(s) ==
    /\ At(s, "idle")
    /\ \A p \in Heap[s] : heap[p] # None
    /\ component_states' = [messaging |-> "error", telemetry_allocator |-> "error"]
    /\ UNCHANGED <<pc, heap, ref_pool, ref_packet, reference_count, mailbox, is_paused,
                   consumer_pool, locals>>

\* messaging_send: the reference, its count of one for the sender, and the
\* snapshot of the number of consumers
CreateRef(s) ==
    /\ At(s, "create")
    /\ \E r \in ref_pool :
         /\ ref_pool' = ref_pool \ {r}
         /\ ref_packet' = [ref_packet EXCEPT ![r] = packet[s]]
         /\ reference_count' = [reference_count EXCEPT ![r] = 1]
         /\ ref' = [ref EXCEPT ![s] = r]
    /\ packet' = [packet EXCEPT ![s] = None]
    /\ index' = [index EXCEPT ![s] = 1]
    /\ num_consumers' = [num_consumers EXCEPT ![s] = Len(consumer_pool)]
    /\ enqueue_successful' = [enqueue_successful EXCEPT ![s] = TRUE]
    /\ Goto(s, "filter")
    /\ UNCHANGED <<heap, mailbox, is_paused, consumer_pool, component_states, fetched,
                   freeing, returning>>

\* Mutant: the error path forgets telemetry_allocator_free
CreateRefFailsKeepsPacket(s) ==
    /\ At(s, "create")
    /\ ref_pool = {}
    /\ component_states' = [component_states EXCEPT !.messaging = "error"]
    /\ packet' = [packet EXCEPT ![s] = None]
    /\ Goto(s, "idle")
    /\ UNCHANGED <<heap, ref_pool, ref_packet, reference_count, mailbox, is_paused,
                   consumer_pool, ref, index, num_consumers, enqueue_successful,
                   fetched, freeing, returning>>

\* ... or no reference is left: the packet, which nobody else knows, goes back at once,
\* messaging_send_internal_pool_full
CreateRefFails(s) ==
    /\ At(s, "create")
    /\ ref_pool = {}
    /\ component_states' = [component_states EXCEPT !.messaging = "error"]
    /\ telemetry_allocator_free(packet[s])
    /\ packet' = [packet EXCEPT ![s] = None]
    /\ Goto(s, "idle")
    /\ UNCHANGED <<ref_pool, ref_packet, reference_count, mailbox, is_paused, consumer_pool,
                   ref, index, num_consumers, enqueue_successful, fetched, freeing, returning>>

\* The consumer the loop of messaging_send has reached, and the packet it offers
Target(s) == consumer_pool[index[s]]
Message(r) == heap[ref_packet[r]]

\* The loop's condition: not paused now, and both masks match
Wants(c, r) == ~is_paused[c] /\ Message(r) \in Accepts[c]

NextConsumer(s) ==
    /\ index' = [index EXCEPT ![s] = @ + 1]
    /\ Goto(s, "filter")

Skip(s) ==
    /\ At(s, "filter")
    /\ index[s] <= num_consumers[s]
    /\ ~Wants(Target(s), ref[s])
    /\ NextConsumer(s)
    /\ UNCHANGED <<shared, packet, ref, num_consumers, enqueue_successful, fetched, freeing,
                   returning>>

Select(s) ==
    /\ At(s, "filter")
    /\ index[s] <= num_consumers[s]
    /\ Wants(Target(s), ref[s])
    /\ Goto(s, "post")
    /\ UNCHANGED <<shared, locals>>

HasRoom(c) == Len(mailbox[c]) < MailboxSize[c]

\* Either chMBPost of messaging_consumer_enqueue_packet, when it succeeds
Post(s) ==
    /\ At(s, "post") \/ At(s, "repost")
    /\ HasRoom(Target(s))
    /\ mailbox' = [mailbox EXCEPT ![Target(s)] = Append(@, ref[s])]
    /\ Goto(s, "retain")
    /\ UNCHANGED <<heap, ref_pool, ref_packet, reference_count, is_paused, consumer_pool,
                   component_states, locals>>

\* The first post found the mailbox full: drop the oldest message
PostFails(s) ==
    /\ At(s, "post")
    /\ ~HasRoom(Target(s))
    /\ Goto(s, "drop")
    /\ UNCHANGED <<shared, locals>>

\* messaging_consumer_receive(consumer, false, true): the fetch ...
DropOldest(s) ==
    /\ At(s, "drop")
    /\ Fetch(s, Target(s))
    /\ Goto(s, "drop_release")
    /\ UNCHANGED <<heap, ref_pool, ref_packet, reference_count, is_paused, consumer_pool,
                   component_states, packet, ref, index, num_consumers,
                   enqueue_successful, freeing, returning>>

\* ... which finds nothing when the consumer has drained its mailbox meanwhile ...
DropNothing(s) ==
    /\ At(s, "drop")
    /\ mailbox[Target(s)] = <<>>
    /\ Goto(s, "repost")
    /\ UNCHANGED <<shared, locals>>

\* ... and the release of what it fetched
ReleaseDropped(s) ==
    /\ At(s, "drop_release")
    /\ Release(s, fetched[s])
    /\ fetched' = [fetched EXCEPT ![s] = None]
    /\ Goto(s, "repost")
    /\ UNCHANGED <<heap, ref_pool, ref_packet, mailbox, is_paused, consumer_pool,
                   component_states, packet, ref, index, num_consumers, enqueue_successful,
                   returning>>

\* Mutant: the second failure goes unreported
RepostFailsSilently(s) ==
    /\ At(s, "repost")
    /\ ~HasRoom(Target(s))
    /\ NextConsumer(s)
    /\ UNCHANGED <<shared, packet, ref, num_consumers, enqueue_successful, fetched, freeing,
                   returning>>

\* Another sender took the place: messaging_consumer_enqueue_packet returns false
RepostFails(s) ==
    /\ At(s, "repost")
    /\ ~HasRoom(Target(s))
    /\ enqueue_successful' = [enqueue_successful EXCEPT ![s] = FALSE]
    /\ NextConsumer(s)
    /\ UNCHANGED <<shared, packet, ref, num_consumers, fetched, freeing, returning>>

\* telemetry_reference_retain, after the post
Retain(s) ==
    /\ At(s, "retain")
    /\ reference_count' = [reference_count EXCEPT ![ref[s]] = @ + 1]
    /\ NextConsumer(s)
    /\ UNCHANGED <<heap, ref_pool, ref_packet, mailbox, is_paused, consumer_pool,
                   component_states, packet, ref, num_consumers, enqueue_successful,
                   fetched, freeing, returning>>

\* The end of messaging_send: the sender's own count goes, the outcome is reported
EndSend(s) ==
    /\ At(s, "filter")
    /\ index[s] > num_consumers[s]
    /\ Release(s, ref[s])
    /\ component_states' = [component_states EXCEPT
         !.messaging = IF enqueue_successful[s] THEN @ ELSE "error"]
    /\ ref' = [ref EXCEPT ![s] = None]
    /\ Goto(s, "idle")
    /\ UNCHANGED <<heap, ref_pool, ref_packet, mailbox, is_paused, consumer_pool,
                   packet, index, num_consumers, enqueue_successful, fetched, returning>>

-----------------------------------------------------------------------------
(* Receiving *)

\* The entry of consumer_pool is complete before cur_consumer_pool_index says so,
\* hence one step
Register(c) ==
    /\ Len(consumer_pool) < MAX_NUM_CONSUMERS
    /\ mailbox' = [mailbox EXCEPT ![c] = <<>>]
    /\ consumer_pool' = Append(consumer_pool, c)
    /\ Goto(c, "returned")
    /\ UNCHANGED <<heap, ref_pool, ref_packet, reference_count, is_paused,
                   component_states, locals>>

RegisterFails(c) ==
    /\ Len(consumer_pool) >= MAX_NUM_CONSUMERS
    /\ component_states' = [component_states EXCEPT !.messaging = "error"]
    /\ Goto(c, "invalid")
    /\ UNCHANGED <<heap, ref_pool, ref_packet, reference_count, mailbox, is_paused,
                   consumer_pool, locals>>

messaging_consumer_init(c) ==
    /\ At(c, "init")
    /\ Register(c) \/ RegisterFails(c)

\* messaging_consumer_receive without an impl, before messaging_consumer_init or
\* after it failed: messaging_receive_invalid_consumer
ReceiveInvalid(c) ==
    /\ At(c, "init") \/ At(c, "invalid")
    /\ component_states' = [component_states EXCEPT !.messaging = "error"]
    /\ UNCHANGED <<pc, heap, ref_pool, ref_packet, reference_count, mailbox, is_paused,
                   consumer_pool, locals>>

\* messaging_consumer_receive(consumer, blocking, FALSE): the fetch; consumer_func runs next
Receive(c) ==
    /\ At(c, "returned") \/ At(c, "receive") \/ At(c, "paused")
    /\ Fetch(c, c)
    /\ Goto(c, "callback")
    /\ UNCHANGED <<heap, ref_pool, ref_packet, reference_count, is_paused, consumer_pool,
                   component_states, packet, ref, index, num_consumers,
                   enqueue_successful, freeing, returning>>

\* Mutant: the callback_error return comes without its release
CallbackErrorKeepsRef(c) ==
    /\ At(c, "callback")
    /\ \/ Release(c, fetched[c])
       \/ UNCHANGED <<reference_count, freeing>>
    /\ fetched' = [fetched EXCEPT ![c] = None]
    /\ Goto(c, IF is_paused[c] THEN "paused" ELSE "returned")
    /\ UNCHANGED <<heap, ref_pool, ref_packet, mailbox, is_paused, consumer_pool,
                   component_states, packet, ref, index, num_consumers, enqueue_successful,
                   returning>>

\* consumer_func has returned; true or false, the reference is released
CallbackReturns(c) ==
    /\ At(c, "callback")
    /\ Release(c, fetched[c])
    /\ fetched' = [fetched EXCEPT ![c] = None]
    /\ Goto(c, IF is_paused[c] THEN "paused" ELSE "returned")
    /\ UNCHANGED <<heap, ref_pool, ref_packet, mailbox, is_paused, consumer_pool,
                   component_states, packet, ref, index, num_consumers, enqueue_successful,
                   returning>>

\* Mutant: the flush runs without setting is_paused
PauseForgets(c, flush_buffer) ==
    /\ At(c, "returned") \/ At(c, "paused") \/ At(c, "flushed")
    /\ Goto(c, IF flush_buffer THEN "flush" ELSE "paused")
    /\ UNCHANGED <<shared, locals>>

\* messaging_pause_consumer(consumer, flush_buffer)
Pause(c, flush_buffer) ==
    /\ At(c, "returned") \/ At(c, "paused") \/ At(c, "flushed")
    /\ is_paused' = [is_paused EXCEPT ![c] = TRUE]
    /\ Goto(c, IF flush_buffer THEN "flush" ELSE "paused")
    /\ UNCHANGED <<heap, ref_pool, ref_packet, reference_count, mailbox, consumer_pool,
                   component_states, locals>>

\* One turn of its loop: messaging_consumer_receive(consumer, false, true) ...
FlushFetch(c) ==
    /\ At(c, "flush")
    /\ Fetch(c, c)
    /\ Goto(c, "flush_release")
    /\ UNCHANGED <<heap, ref_pool, ref_packet, reference_count, is_paused, consumer_pool,
                   component_states, packet, ref, index, num_consumers,
                   enqueue_successful, freeing, returning>>

FlushRelease(c) ==
    /\ At(c, "flush_release")
    /\ Release(c, fetched[c])
    /\ fetched' = [fetched EXCEPT ![c] = None]
    /\ is_paused' = [is_paused EXCEPT ![c] = TRUE]
    /\ Goto(c, "flush")
    /\ UNCHANGED <<heap, ref_pool, ref_packet, mailbox, consumer_pool,
                   component_states, packet, ref, index, num_consumers, enqueue_successful,
                   returning>>

\* ... until it returns messaging_receive_buffer_empty
FlushEnds(c) ==
    /\ At(c, "flush")
    /\ mailbox[c] = <<>>
    /\ Goto(c, "flushed")
    /\ UNCHANGED <<shared, locals>>

\* messaging_resume_consumer; its callers (usb_telemetry.c) go on to receive
Resume(c) ==
    /\ At(c, "paused") \/ At(c, "flushed")
    /\ is_paused' = [is_paused EXCEPT ![c] = FALSE]
    /\ Goto(c, "receive")
    /\ UNCHANGED <<heap, ref_pool, ref_packet, reference_count, mailbox, consumer_pool,
                   component_states, locals>>

-----------------------------------------------------------------------------
\* The rest of a send, once a sender has started one
FinishSend(s) ==
    \/ CreateRef(s) \/ CreateRefFails(s)
    \/ Skip(s) \/ Select(s) \/ Post(s) \/ PostFails(s)
    \/ DropOldest(s) \/ DropNothing(s) \/ ReleaseDropped(s) \/ RepostFails(s)
    \/ Retain(s) \/ EndSend(s)

\* What a consumer's thread does of its own accord
Serve(c) ==
    \/ Receive(c) \/ CallbackReturns(c)
    \/ FlushFetch(c) \/ FlushRelease(c) \/ FlushEnds(c) \/ Resume(c)

Sender(s) == Alloc(s) \/ AllocFails(s) \/ FinishSend(s)

Consumer(c) ==
    \/ messaging_consumer_init(c) \/ ReceiveInvalid(c)
    \/ Serve(c)
    \/ \E flush_buffer \in BOOLEAN : Pause(c, flush_buffer)

Next ==
    \/ \E s \in Senders : Sender(s)
    \/ \E c \in Consumers : Consumer(c)
    \/ \E t \in Threads : Free(t)

Spec == Init /\ [][Next]_vars

-----------------------------------------------------------------------------
(* The bus that this code implements: references become the messages they   *)
(* hold, and a sender's program counter the consumers it has yet to visit.   *)

Remaining(s) ==
    {consumer_pool[j] : j \in (IF pc[s] = "retain" THEN index[s] + 1 ELSE index[s])
                                .. num_consumers[s]}

BusSend(s) ==
    IF ref[s] = None THEN None
    ELSE [message |-> Message(ref[s]),
          todo    |-> Remaining(s),
          failed  |-> ~enqueue_successful[s],
          room    |-> CASE pc[s] = "drop" -> "full"
                        [] pc[s] \in {"drop_release", "repost"} -> "evicted"
                        [] OTHER -> "unknown"]

BusRegistered == {consumer_pool[j] : j \in 1..Len(consumer_pool)}

BusQueue(c) == [k \in 1..Len(mailbox[c]) |-> Message(mailbox[c][k])]

BusInHand(c) == IF pc[c] = "callback" THEN Message(fetched[c]) ELSE None

Bus == INSTANCE MessageBus WITH
    Receivers  <- Consumers,    \* each consumer has a thread of its own
    Capacity   <- MailboxSize,
    registered <- BusRegistered,
    sending    <- [s \in Senders |-> BusSend(s)],
    queue      <- [c \in Consumers |-> BusQueue(c)],
    inhand     <- [c \in Consumers |-> BusInHand(c)],
    paused     <- is_paused,
    error      <- (component_states.messaging = "error")

\* A send of the bus is not the value that stands for no send
ASSUME BusAssumption == None \notin Bus!Sends

\* Every step of messaging.c is a step of the bus or invisible to it: what a
\* mailbox holds is what was sent, every consumer a send should reach gets the
\* message or the error is reported, and at most one older message is lost to
\* make room.
ImplementsBus == Bus!Spec

-----------------------------------------------------------------------------
(* Properties *)

\* Type correctness of the state of messaging.c.
TypeOK ==
    /\ pc \in [Threads -> Labels]
    /\ heap \in [Packets -> Messages \cup {None}]
    /\ ref_pool \subseteq Refs
    /\ ref_packet \in [Refs -> Packets \cup {None}]
    /\ reference_count \in [Refs -> Int]
    /\ mailbox \in [Consumers -> Seq(Refs)]
    /\ is_paused \in [Consumers -> BOOLEAN]
    /\ consumer_pool \in Seq(Consumers)
    /\ packet \in [Senders -> Packets \cup {None}]
    /\ ref \in [Senders -> Refs \cup {None}]
    /\ index \in [Senders -> Nat \ {0}]
    /\ num_consumers \in [Senders -> Nat]
    /\ enqueue_successful \in [Senders -> BOOLEAN]
    /\ fetched \in [Threads -> Refs \cup {None}]
    /\ freeing \in [Threads -> Refs \cup {None}]
    /\ returning \subseteq Threads
    /\ component_states \in [{"messaging", "telemetry_allocator"} -> {"ok", "error"}]

\* Everything that will still read the reference: the sender that owns it, the
\* mailboxes that hold it, and the threads that fetched it.
Held(r) ==
    \/ \E s \in Senders : ref[s] = r
    \/ \E c \in Consumers : \E k \in 1..Len(mailbox[c]) : mailbox[c][k] = r
    \/ \E t \in Threads : fetched[t] = r

\* The references that have a packet: not those whose packet has been freed and which
\* have yet to go back themselves.
Live == (Refs \ ref_pool) \ {freeing[t] : t \in returning}

\* A reference someone holds is neither back in its pool nor about to go there,
\* and its packet is not free: no callback reads, and no release touches,
\* memory that may have been handed out again.
NoUseAfterFree ==
    \A r \in Refs : Held(r) =>
        /\ r \notin ref_pool
        /\ \A t \in Threads : freeing[t] # r
        /\ ref_packet[r] \in Packets /\ Message(r) # None

\* Conversely nothing leaks: an allocated reference has a holder or a thread
\* about to free it, and an allocated packet a reference or its sender.
NoLeak ==
    /\ \A r \in Refs \ ref_pool : Held(r) \/ \E t \in Threads : freeing[t] = r
    /\ \A p \in Packets : heap[p] # None =>
         \/ \E r \in Live : ref_packet[r] = p
         \/ \E s \in Senders : packet[s] = p

\* Two threads never owe the free of one reference, nor have two references
\* the same packet: the double free that a miscounted release would cause.
NoDoubleFree ==
    /\ \A t, u \in Threads : freeing[t] # None /\ freeing[t] = freeing[u] => t = u
    /\ \A q, r \in Live : ref_packet[q] = ref_packet[r] => q = r

\* The counted holders of a reference: the sender that owns it, the mailboxes
\* for which it has been retained, and the threads that fetched it.
InBox(c) == {mailbox[c][k] : k \in 1..Len(mailbox[c])}
Owners(r) == {s \in Senders : ref[s] = r}
Unretained(r, c) == \E s \in Senders : pc[s] = "retain" /\ ref[s] = r /\ Target(s) = c
Boxes(r) == {c \in Consumers : r \in InBox(c) /\ ~Unretained(r, c)}
Fetchers(r) == {t \in Threads : fetched[t] = r}
HolderCount(r) ==
    Cardinality(Owners(r)) + Cardinality(Boxes(r)) + Cardinality(Fetchers(r))

\* What a thread's locals hold where it is.
LocalsOK ==
    /\ \A s \in Senders :
         /\ (ref[s] # None) <=>
              (pc[s] \in {"filter", "post", "drop", "drop_release", "repost", "retain"})
         /\ (packet[s] # None) <=> (pc[s] = "create")
         /\ pc[s] \in {"post", "drop", "drop_release", "repost", "retain"} =>
              index[s] <= num_consumers[s]
         /\ num_consumers[s] <= Len(consumer_pool)
    /\ \A t \in Threads :
         (fetched[t] # None) <=> (pc[t] \in {"drop_release", "callback", "flush_release"})
    /\ \A c \in Consumers : pc[c] \notin {"idle", "create", "filter", "post", "drop",
                                            "drop_release", "repost", "retain"}

\* A thread returns the reference it was freeing.
ReturningOK == \A t \in returning : freeing[t] # None

\* A consumer has at most one entry of the pool, none before it registers.
PoolOK ==
    /\ \A j, k \in 1..Len(consumer_pool) : consumer_pool[j] = consumer_pool[k] => j = k
    /\ \A c \in Consumers : pc[c] = "init" =>
         mailbox[c] = <<>> /\ \A j \in 1..Len(consumer_pool) : consumer_pool[j] # c

\* A send offers its reference to each consumer once: it is in none of the
\* mailboxes still to be visited, it is in the one just posted to, and in no
\* mailbox twice.
PostedOnce ==
    /\ \A s \in Senders : \A j \in index[s]..num_consumers[s] :
         ref[s] \in InBox(consumer_pool[j]) => pc[s] = "retain" /\ j = index[s]
    /\ \A s \in Senders : pc[s] = "retain" => ref[s] \in InBox(Target(s))
    /\ \A c \in Consumers : \A j, k \in 1..Len(mailbox[c]) :
         mailbox[c][j] = mailbox[c][k] => j = k

\* An allocated reference counts its holders, exactly; a sender has its own.
CountOK ==
    /\ \A s, u \in Senders : ref[s] # None /\ ref[s] = ref[u] => s = u
    /\ \A r \in Refs \ ref_pool : reference_count[r] = HolderCount(r)

\* Nobody holds a reference that is free or about to be.
FreeOK ==
    /\ \A r \in ref_pool : ~Held(r)
    /\ \A t \in Threads : freeing[t] # None => ~Held(freeing[t]) /\ freeing[t] \notin ref_pool
    /\ \A t, u \in Threads : freeing[t] # None /\ freeing[t] = freeing[u] => t = u
    /\ \A r \in Refs \ ref_pool : Held(r) \/ \E t \in Threads : freeing[t] = r

\* Packets in use belong to one sender or to one reference.
PacketsOK ==
    /\ \A r \in Live : ref_packet[r] \in Packets /\ heap[ref_packet[r]] # None
    /\ \A q, r \in Live : ref_packet[q] = ref_packet[r] => q = r
    /\ \A s \in Senders : packet[s] # None =>
         /\ heap[packet[s]] # None
         /\ \A u \in Senders : packet[u] = packet[s] => u = s
         /\ \A r \in Live : ref_packet[r] # packet[s]
    /\ \A p \in Packets : heap[p] # None =>
         \/ \E r \in Live : ref_packet[r] = p
         \/ \E s \in Senders : packet[s] = p

\* The inductive invariant of the reference counting of messaging.c, when no
\* reference is fetched before it is retained.
RefCountInv ==
    /\ TypeOK /\ LocalsOK /\ ReturningOK /\ PoolOK
    /\ PostedOnce /\ CountOK /\ FreeOK /\ PacketsOK

\* What messaging_pause_consumer(c, true) achieves: once the flush is over, a
\* packet that arrives before the resume comes from a send that had tested
\* is_paused earlier, at most one of each sender that produces it.
LateEnqueuesBounded ==
    \A c \in Consumers : pc[c] = "flushed" =>
        \A M \in SUBSET Messages :
            Cardinality({k \in 1..Len(mailbox[c]) : Message(mailbox[c][k]) \in M})
            <= Cardinality({s \in Senders : Produces[s] \cap M # {}})

\* A reference that leaves the pool comes back: whatever mailboxes it visits,
\* the last release frees it.
EveryRefReturns == \A r \in Refs : r \notin ref_pool ~> r \in ref_pool
=============================================================================
