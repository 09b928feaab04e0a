----------------------------- MODULE MessageBus -----------------------------
(***************************************************************************)
(* What messaging.h promises its clients, without references, counters or  *)
(* pools: a send visits every consumer registered when it began; one that  *)
(* is not paused and wants the message has it appended to its bounded      *)
(* queue, unchanged, at the price of at most one older message, or else    *)
(* the send is reported as an error.  A callback sees messages in the      *)
(* order of the queue, each once.                                          *)
(***************************************************************************)
EXTENDS Integers, Sequences

CONSTANTS Senders, Receivers, Consumers, Messages, Accepts, Capacity, None

VARIABLES
    registered,     \* the consumers that sends from now on will visit
    sending,        \* the send each sender is in, or None: its message, the consumers
                    \* it has still to visit, whether it failed, and what it knows of
                    \* the queue it is offering the message to: "unknown", "full"
                    \* or "evicted"
    queue,          \* the messages waiting for each consumer
    inhand,         \* the message each receiver's callback is working on, or None
    paused,
    error           \* the messaging system has reported an error

\* What sending[s] is during a send
Sends ==
    [message : Messages, todo : SUBSET Consumers, failed : BOOLEAN,
     room : {"unknown", "full", "evicted"}]

busVars == <<registered, sending, queue, inhand, paused, error>>

Init ==
    /\ registered = {}
    /\ sending = [s \in Senders |-> None]
    /\ queue = [c \in Consumers |-> <<>>]
    /\ inhand = [t \in Receivers |-> None]
    /\ paused = [c \in Consumers |-> FALSE]
    /\ error = FALSE

Register(c) ==
    /\ c \notin registered
    /\ registered' = registered \cup {c}
    /\ UNCHANGED <<sending, queue, inhand, paused, error>>

Begin(s) ==
    /\ sending[s] = None
    /\ \E m \in Messages :
         sending' = [sending EXCEPT ![s] =
             [message |-> m, todo |-> registered, failed |-> FALSE, room |-> "unknown"]]
    /\ UNCHANGED <<registered, queue, inhand, paused, error>>

Visited(s, c) == [sending[s] EXCEPT !.todo = @ \ {c}, !.room = "unknown"]

\* Passed over for a reason the documentation gives
PassOver(s, c) ==
    /\ sending[s] # None
    /\ c \in sending[s].todo
    /\ sending[s].room = "unknown"
    /\ paused[c] \/ sending[s].message \notin Accepts[c]
    /\ sending' = [sending EXCEPT ![s] = Visited(s, c)]
    /\ UNCHANGED <<registered, queue, inhand, paused, error>>

\* A consumer may pause after the sender has looked, so paused[c] is no guard
Enqueue(s, c) ==
    /\ sending[s] # None
    /\ c \in sending[s].todo
    /\ sending[s].room # "full"
    /\ sending[s].message \in Accepts[c]
    /\ Len(queue[c]) < Capacity[c]
    /\ queue' = [queue EXCEPT ![c] = Append(@, sending[s].message)]
    /\ sending' = [sending EXCEPT ![s] = Visited(s, c)]
    /\ UNCHANGED <<registered, inhand, paused, error>>

FindFull(s, c) ==
    /\ sending[s] # None
    /\ c \in sending[s].todo
    /\ sending[s].room = "unknown"
    /\ sending[s].message \in Accepts[c]
    /\ Len(queue[c]) = Capacity[c]
    /\ sending' = [sending EXCEPT ![s].room = "full"]
    /\ UNCHANGED <<registered, queue, inhand, paused, error>>

\* The one older message a send may cost a consumer
Evict(s, c) ==
    /\ sending[s] # None
    /\ c \in sending[s].todo
    /\ sending[s].room = "full"
    /\ sending' = [sending EXCEPT ![s].room = "evicted"]
    /\ queue' = [queue EXCEPT ![c] = IF @ = <<>> THEN @ ELSE Tail(@)]
    /\ UNCHANGED <<registered, inhand, paused, error>>

\* Still no room: this consumer misses the message and the send has failed
Reject(s, c) ==
    /\ sending[s] # None
    /\ c \in sending[s].todo
    /\ sending[s].room = "evicted"
    /\ Len(queue[c]) = Capacity[c]
    /\ sending' = [sending EXCEPT ![s] = [Visited(s, c) EXCEPT !.failed = TRUE]]
    /\ UNCHANGED <<registered, queue, inhand, paused, error>>

End(s) ==
    /\ sending[s] # None
    /\ sending[s].todo = {}
    /\ error' = (error \/ sending[s].failed)
    /\ sending' = [sending EXCEPT ![s] = None]
    /\ UNCHANGED <<registered, queue, inhand, paused>>

\* Any other error: no memory for the packet, no room for a consumer
Fail ==
    /\ error' = TRUE
    /\ UNCHANGED <<registered, sending, queue, inhand, paused>>

Deliver(t, c) ==
    /\ c \in registered /\ inhand[t] = None /\ queue[c] # <<>>
    /\ inhand' = [inhand EXCEPT ![t] = Head(queue[c])]
    /\ queue' = [queue EXCEPT ![c] = Tail(@)]
    /\ UNCHANGED <<registered, sending, paused, error>>

Done(t) ==
    /\ inhand[t] # None
    /\ inhand' = [inhand EXCEPT ![t] = None]
    /\ UNCHANGED <<registered, sending, queue, paused, error>>

SetPaused(c) ==
    /\ c \in registered
    /\ \E p \in BOOLEAN : paused' = [paused EXCEPT ![c] = p]
    /\ UNCHANGED <<registered, sending, queue, inhand, error>>

\* Only a paused consumer discards what it was sent
Flush(c) ==
    /\ paused[c] /\ queue[c] # <<>>
    /\ queue' = [queue EXCEPT ![c] = Tail(@)]
    /\ UNCHANGED <<registered, sending, inhand, paused, error>>

Next ==
    \/ \E s \in Senders : Begin(s) \/ End(s)
    \/ \E s \in Senders, c \in Consumers :
         PassOver(s, c) \/ Enqueue(s, c) \/ FindFull(s, c) \/ Evict(s, c) \/ Reject(s, c)
    \/ \E c \in Consumers : Register(c) \/ SetPaused(c) \/ Flush(c)
    \/ \E t \in Receivers : Done(t) \/ \E c \in Consumers : Deliver(t, c)
    \/ Fail

Spec == Init /\ [][Next]_busVars
=============================================================================
