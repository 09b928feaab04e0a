-------------------------- MODULE MessagingStdProofs --------------------------
(***************************************************************************)
(* Theorems about MessagingStd, for every number of threads and consumers. *)
(***************************************************************************)
EXTENDS MessagingStd, FiniteSetTheorems, TLAPS

-----------------------------------------------------------------------------
(* Types *)

\* A send keeps the types.
LEMMA SendStdTyping ==
  ASSUME StdTypeOK, NEW s \in Senders, BeginSend(s) \/ AllocFails(s) \/ Sending(s)
  PROVE  StdTypeOK'
<1> USE StdAssumption DEF StdTypeOK, CallsOK, Labels, Codes, Threads, Goto, args, shared,
                          mailbox, sends
<1>1. CASE BeginSend(s)
  BY <1>1 DEF BeginSend
<1>2. CASE AllocFails(s)
  BY <1>2 DEF AllocFails
<1>3. CASE Skip(s)
  BY <1>3 DEF Skip
<1>4. CASE Select(s)
  BY <1>4 DEF Select
<1>5. CASE Enqueue(s)
  <2>1. Target(s) \in Consumers
    BY <1>5 DEF Enqueue, Target
  <2>2. pc' \in [Threads -> Labels] /\ pc'[s] = "test"
        /\ \A t \in Threads : t # s => pc'[t] = pc[t] \/ (pc[t] = "waiting" /\ pc'[t] = "dequeue")
    BY <1>5 DEF Enqueue, NotifyOne, Waiting
  <2>3. queue_' \in [Consumers -> Seq(Messages)]
    <3>1. message[s] \in Messages
      BY <1>5 DEF Enqueue
    <3>2. Append(queue_[Target(s)], message[s]) \in Seq(Messages)
      BY <3>1, <2>1
    <3> QED
      BY <1>5, <2>1, <3>2 DEF Enqueue
  <2>4. index' \in [Senders -> Nat \ {0}]
    BY <1>5 DEF Enqueue
  <2>5. CallsOK'
    BY <1>5, <2>2 DEF Enqueue
  <2> QED
    BY <1>5, <2>2, <2>3, <2>4, <2>5 DEF Enqueue
<1>6. CASE EndSend(s)
  BY <1>6 DEF EndSend
<1> QED
  BY <1>1, <1>2, <1>3, <1>4, <1>5, <1>6 DEF Sending

\* What the end of a messaging_consumer_receive does to its thread.
LEMMA ReturnTyping ==
  ASSUME StdTypeOK, NEW t \in Receivers \cup Controllers, NEW code \in Codes,
         pc[t] \in {"peek", "dequeue", "waiting", "callback"}, Return(t, code)
  PROVE  /\ pc' \in [Threads -> Labels] /\ returned' \in [Threads -> Codes \cup {None}]
         /\ consumer' \in [Threads -> Consumers \cup {None}]
         /\ blocking' \in [Threads -> BOOLEAN] /\ silent' \in [Threads -> BOOLEAN]
         /\ flushing' \in [Threads -> BOOLEAN]
         /\ \A u \in Threads \ {t} : pc'[u] = pc[u] /\ consumer'[u] = consumer[u]
         /\ pc'[t] = "idle" \/ (pc'[t] = "peek" /\ consumer'[t] = consumer[t])
<1> USE DEF StdTypeOK, Labels, Threads, Goto, args, Return, EndCall, Call
<1>1. CASE flushing[t] /\ code # "buffer_empty"
  BY <1>1
<1>2. CASE ~(flushing[t] /\ code # "buffer_empty")
  BY <1>2
<1> QED
  BY <1>1, <1>2

\* A receive keeps the types.
LEMMA ReceiveStdTyping ==
  ASSUME StdTypeOK, NEW t \in Receivers \cup Controllers, Receiving(t) \/ SpuriousWake(t)
  PROVE  StdTypeOK'
<1> USE StdAssumption DEF StdTypeOK, CallsOK, Labels, Threads, Goto, args, shared,
                          mailbox, sends
<1>0. t \in Threads /\ t \notin Senders
  OBVIOUS
<1>1. CASE Peek(t)
  <2>1. CASE Return(t, "buffer_empty")
    BY <1>0, <1>1, <2>1, ReturnTyping DEF Peek, Codes
  <2>2. CASE Goto(t, "dequeue") /\ UNCHANGED <<args, returned>>
    BY <1>0, <1>1, <2>2 DEF Peek
  <2> QED
    BY <1>1, <2>1, <2>2 DEF Peek
<1>2. CASE Dequeue(t)
  <2>1. queue_' \in [Consumers -> Seq(Messages)]
    BY <1>2 DEF Dequeue
  <2>2. Head(queue_[consumer[t]]) \in Messages
    BY <1>2 DEF Dequeue
  <2>3. CASE silent[t]
    <3>1. Return(t, "ok") /\ UNCHANGED message
      BY <1>2, <2>3 DEF Dequeue
    <3> QED
      BY <1>0, <1>2, <2>1, <3>1, ReturnTyping DEF Dequeue, Codes
  <2>4. CASE ~silent[t]
    <3>1. /\ message' = [message EXCEPT ![t] = Head(queue_[consumer[t]])]
          /\ pc' = [pc EXCEPT ![t] = "callback"]
          /\ UNCHANGED <<args, returned, index, num_consumers, running, is_paused,
                         consumer_pool, register_mutex, component_state>>
      BY <1>2, <2>4 DEF Dequeue
    <3>2. message' \in [Threads -> Messages \cup {None}] /\ pc' \in [Threads -> Labels]
      BY <1>0, <2>2, <3>1
    <3>3. consumer[t] \in Consumers
      BY <1>0, <1>2 DEF Dequeue
    <3>4. \A s \in Senders : message'[s] = message[s] /\ pc'[s] = pc[s]
      BY <1>0, <3>1
    <3>5. CallsOK'
      BY <1>0, <3>1, <3>3, <3>4
    <3> QED
      BY <2>1, <3>1, <3>2, <3>5
  <2> QED
    BY <2>3, <2>4
<1>3. CASE Wait(t)
  BY <1>3 DEF Wait
<1>4. CASE Terminated(t)
  BY <1>0, <1>4, ReturnTyping DEF Terminated, Codes
<1>5. CASE CallbackReturns(t)
  <2>1. PICK code \in {"ok", "callback_error"} : Return(t, code)
    BY <1>5 DEF CallbackReturns
  <2>2. code \in Codes /\ pc[t] = "callback"
        /\ message' = [message EXCEPT ![t] = None]
        /\ UNCHANGED <<index, num_consumers, shared>>
    BY <1>5, <2>1 DEF CallbackReturns, Codes
  <2>3. message' \in [Threads -> Messages \cup {None}]
        /\ \A s \in Senders : message'[s] = message[s]
    BY <1>0, <2>2
  <2>4. /\ pc' \in [Threads -> Labels] /\ returned' \in [Threads -> Codes \cup {None}]
        /\ consumer' \in [Threads -> Consumers \cup {None}]
        /\ blocking' \in [Threads -> BOOLEAN] /\ silent' \in [Threads -> BOOLEAN]
        /\ flushing' \in [Threads -> BOOLEAN]
        /\ \A u \in Threads \ {t} : pc'[u] = pc[u] /\ consumer'[u] = consumer[u]
        /\ pc'[t] = "idle" \/ (pc'[t] = "peek" /\ consumer'[t] = consumer[t])
    BY <2>1, <2>2, ReturnTyping
  <2>5. CallsOK'
    BY <1>0, <2>2, <2>3, <2>4
  <2> QED
    BY <2>2, <2>3, <2>4, <2>5
<1>6. CASE SpuriousWake(t)
  BY <1>6 DEF SpuriousWake
<1> QED
  BY <1>1, <1>2, <1>3, <1>4, <1>5, <1>6 DEF Receiving

\* So does a call of messaging_consumer_receive ...
LEMMA CallStdTyping ==
  ASSUME StdTypeOK, NEW t \in Receivers, NEW c \in Reads[t], NEW block \in BOOLEAN,
         Receive(t, c, block, FALSE) \/ ReceiveInvalid(t, c)
  PROVE  StdTypeOK'
<1> USE StdAssumption DEF StdTypeOK, CallsOK, Labels, Codes, Threads, Goto, args, shared,
                          mailbox, sends, Call, Registered
<1>1. CASE Receive(t, c, block, FALSE)
  BY <1>1 DEF Receive
<1>2. CASE ReceiveInvalid(t, c)
  BY <1>2 DEF ReceiveInvalid
<1> QED
  BY <1>1, <1>2

\* ... whatever a controller begins ...
LEMMA ControlStdTyping ==
  ASSUME StdTypeOK, NEW t \in Controllers, NEW c \in Controls[t], Control(t, c)
  PROVE  StdTypeOK'
<1> USE StdAssumption DEF StdTypeOK, CallsOK, Labels, Threads, Goto, args, shared,
                          mailbox, sends, Call, Registered
<1>0. t \in Threads /\ t \notin Senders /\ c \in Consumers
  OBVIOUS
<1>1. CASE Register(t, c)
  BY <1>0, <1>1 DEF Register
<1>2. CASE RegisterFails(t, c)
  BY <1>2 DEF RegisterFails
<1>3. CASE Reopen(t, c)
  BY <1>3 DEF Reopen
<1>4. ASSUME NEW flush_buffer \in BOOLEAN, Pause(t, c, flush_buffer) PROVE StdTypeOK'
  <2>1. CASE flush_buffer
    <3>1. /\ pc' = [pc EXCEPT ![t] = "peek"] /\ consumer' = [consumer EXCEPT ![t] = c]
          /\ blocking' = [blocking EXCEPT ![t] = FALSE]
          /\ silent' = [silent EXCEPT ![t] = TRUE]
          /\ flushing' = [flushing EXCEPT ![t] = TRUE]
          /\ is_paused' = [is_paused EXCEPT ![c] = TRUE]
          /\ UNCHANGED <<sends, returned, mailbox, consumer_pool, register_mutex,
                         component_state>>
      BY <1>4, <2>1 DEF Pause
    <3>2. CallsOK'
      BY <1>0, <3>1
    <3> QED
      BY <1>0, <3>1, <3>2
  <2>2. CASE ~flush_buffer
    BY <1>0, <1>4, <2>2 DEF Pause
  <2> QED
    BY <2>1, <2>2
<1>5. CASE Resume(t, c)
  BY <1>5 DEF Resume
<1>6. CASE Terminate(t, c)
  BY <1>6 DEF Terminate
<1> QED
  BY <1>1, <1>2, <1>3, <1>4, <1>5, <1>6 DEF Control

\* ... and how it ends.
LEMMA ControlEndTyping ==
  ASSUME StdTypeOK, NEW t \in Controllers, Unpause(t) \/ Close(t)
  PROVE  StdTypeOK'
<1> USE StdAssumption DEF StdTypeOK, CallsOK, Labels, Threads, Goto, args, shared,
                          mailbox, sends, Call, EndCall
<1>1. CASE Unpause(t)
  BY <1>1 DEF Unpause
<1>2. CASE Close(t)
  BY <1>2 DEF Close, NotifyAll, Waiting
<1> QED
  BY <1>1, <1>2

\* No step of the core breaks a type.
LEMMA StdTypeKept == StdTypeOK /\ [Next]_vars => StdTypeOK'
<1> SUFFICES ASSUME StdTypeOK, [Next]_vars PROVE StdTypeOK'
  OBVIOUS
<1>1. CASE \E s \in Senders : BeginSend(s) \/ AllocFails(s) \/ Sending(s)
  BY <1>1, SendStdTyping
<1>2. CASE \E t \in Receivers : \E c \in Reads[t] :
             \/ \E block \in BOOLEAN : Receive(t, c, block, FALSE)
             \/ ReceiveInvalid(t, c)
  BY <1>2, CallStdTyping
<1>3. CASE \E t \in Controllers : \E c \in Controls[t] : Control(t, c)
  BY <1>3, ControlStdTyping
<1>4. CASE \E t \in Controllers : Unpause(t) \/ Close(t)
  BY <1>4, ControlEndTyping
<1>5. CASE \E t \in Receivers \cup Controllers : Receiving(t) \/ SpuriousWake(t)
  BY <1>5, ReceiveStdTyping
<1>6. CASE UNCHANGED vars
  BY <1>6 DEF StdTypeOK, CallsOK, vars, args, sends, shared, mailbox
<1> QED
  BY <1>1, <1>2, <1>3, <1>4, <1>5, <1>6 DEF Next

\* The state of the desktop core stays well typed, whatever the threads do: a
\* thread inside a call always has the consumer or the message it is about, and a
\* send's loop never leaves the pool of consumers.
THEOREM StdTypeCorrect == Spec => []StdTypeOK
<1>1. Init => StdTypeOK
  BY StdAssumption DEF Init, StdTypeOK, CallsOK, Labels, Codes, Threads
<1> QED
  BY <1>1, StdTypeKept, PTL DEF Spec

-----------------------------------------------------------------------------
(* Wakeups *)

\* What NoLostWakeup says of one consumer.
WakeupsOf(c) == Waiting(c) # {} => Cardinality(Awake(c)) >= Len(queue_[c])

\* Cardinalities of the receivers awake are numbers, now and after a step.
LEMMA AwakeFinite ==
  ASSUME NEW c \in Consumers
  PROVE  /\ IsFiniteSet(Awake(c)) /\ Cardinality(Awake(c)) \in Nat
         /\ IsFiniteSet(Awake(c)') /\ Cardinality(Awake(c)') \in Nat
<1>1. Awake(c) \subseteq Threads /\ Awake(c)' \subseteq Threads
  BY DEF Awake
<1> QED
  BY <1>1, StdAssumption, FS_Subset, FS_CardinalityType

\* A consumer whose mailbox is left alone keeps its wakeups if it gets no new
\* sleeper and loses no receiver that is awake.
LEMMA WakeupsStay ==
  ASSUME StdTypeOK, NoLostWakeup, NEW c \in Consumers,
         Waiting(c)' \subseteq Waiting(c), Awake(c) \subseteq Awake(c)',
         queue_'[c] = queue_[c]
  PROVE  WakeupsOf(c)'
<1>1. SUFFICES ASSUME Waiting(c)' # {}
               PROVE  Cardinality(Awake(c)') >= Len(queue_'[c])
  BY DEF WakeupsOf
<1>2. Cardinality(Awake(c)) >= Len(queue_[c])
  BY <1>1 DEF NoLostWakeup
<1>3. Cardinality(Awake(c)) <= Cardinality(Awake(c)')
  BY AwakeFinite, FS_Subset
<1>4. Len(queue_[c]) \in Nat
  BY DEF StdTypeOK
<1> QED
  BY <1>2, <1>3, <1>4, AwakeFinite

\* Thread t goes from one label to another, and neither is that of a sleeper or
\* of a receiver that is about to take a message.
Elsewhere(t) ==
    /\ \A u \in Threads \ {t} : pc'[u] = pc[u] /\ consumer'[u] = consumer[u]
    /\ pc[t] # "dequeue" /\ pc'[t] # "waiting"

\* Such a step touches nobody's wakeups.
LEMMA ElsewhereStep ==
  ASSUME StdTypeOK, NoLostWakeup, NEW t \in Threads, Elsewhere(t), UNCHANGED queue_
  PROVE  NoLostWakeup'
<1> SUFFICES ASSUME NEW c \in Consumers PROVE WakeupsOf(c)'
  BY DEF NoLostWakeup, WakeupsOf
<1>1. Waiting(c)' \subseteq Waiting(c)
  BY DEF Waiting, Elsewhere
<1>2. Awake(c) \subseteq Awake(c)'
  BY DEF Awake, Elsewhere
<1> QED
  BY <1>1, <1>2, WakeupsStay

\* TQueue.enqueue adds a message and wakes a sleeper for it, if there is one.
LEMMA EnqueueWakes ==
  ASSUME StdTypeOK, NoLostWakeup, NEW s \in Senders, Enqueue(s)
  PROVE  NoLostWakeup'
<1>0. s \in Threads /\ Target(s) \in Consumers /\ pc[s] = "enqueue"
  BY DEF Enqueue, Target, StdTypeOK, CallsOK, Threads
<1> SUFFICES ASSUME NEW d \in Consumers, d = Target(s)
             PROVE  NoLostWakeup'
  BY <1>0
<1>1. CASE ~running[d]
  <2>1. Elsewhere(s) /\ UNCHANGED queue_
    BY <1>0, <1>1 DEF Enqueue, Elsewhere, Goto, args, StdTypeOK
  <2> QED
    BY <1>0, <2>1, ElsewhereStep
<1>2. CASE running[d] /\ Waiting(d) = {} /\ Goto(s, "test")
  <2>1. \A c \in Consumers : Waiting(c)' \subseteq Waiting(c) /\ Awake(c) \subseteq Awake(c)'
    BY <1>0, <1>2 DEF Enqueue, Goto, args, StdTypeOK, Waiting, Awake
  <2>2. \A c \in Consumers \ {d} : queue_'[c] = queue_[c]
    BY <1>0, <1>2 DEF Enqueue, StdTypeOK
  <2>3. WakeupsOf(d)'
    BY <1>0, <1>2, <2>1 DEF WakeupsOf
  <2> QED
    BY <2>1, <2>2, <2>3, WakeupsStay DEF NoLostWakeup, WakeupsOf
<1>3. ASSUME running[d], NEW w \in Waiting(d),
             pc' = [pc EXCEPT ![s] = "test", ![w] = "dequeue"]
      PROVE  NoLostWakeup'
  <2>1. /\ w \in Threads /\ w # s /\ pc[w] = "waiting" /\ consumer[w] = d
        /\ UNCHANGED consumer
    BY <1>0, <1>3 DEF Waiting, Enqueue, args
  <2>2. queue_' = [queue_ EXCEPT ![d] = Append(@, message[s])]
    BY <1>3 DEF Enqueue
  <2>3. pc' \in [Threads -> Labels] /\ pc'[w] = "dequeue" /\ pc'[s] = "test"
        /\ \A u \in Threads \ {s, w} : pc'[u] = pc[u]
    BY <1>0, <1>3, <2>1 DEF StdTypeOK, Labels
  <2>4. \A c \in Consumers : Waiting(c)' \subseteq Waiting(c)
    BY <1>0, <2>1, <2>3 DEF Waiting
  <2>5. \A c \in Consumers \ {d} : Awake(c) \subseteq Awake(c)' /\ queue_'[c] = queue_[c]
    BY <1>0, <2>1, <2>2, <2>3 DEF Awake, StdTypeOK
  <2>6. Awake(d)' = Awake(d) \cup {w} /\ w \notin Awake(d)
    BY <1>0, <2>1, <2>3 DEF Awake
  <2>7. Cardinality(Awake(d)') = Cardinality(Awake(d)) + 1
    BY <1>0, <2>6, AwakeFinite, FS_AddElement
  <2>8. Len(queue_'[d]) = Len(queue_[d]) + 1 /\ Len(queue_[d]) \in Nat
    <3>1. message[s] \in Messages /\ queue_[d] \in Seq(Messages)
      BY <1>0 DEF StdTypeOK, CallsOK, Enqueue
    <3>2. queue_'[d] = Append(queue_[d], message[s])
      BY <1>0, <2>2 DEF StdTypeOK
    <3> QED
      BY <3>1, <3>2
  <2>9. Cardinality(Awake(d)) >= Len(queue_[d])
    BY <1>0, <1>3 DEF NoLostWakeup
  <2>10. WakeupsOf(d)'
    BY <1>0, <2>7, <2>8, <2>9, AwakeFinite DEF WakeupsOf
  <2> QED
    BY <2>4, <2>5, <2>10, WakeupsStay DEF NoLostWakeup, WakeupsOf
<1> QED
  BY <1>1, <1>2, <1>3 DEF Enqueue, NotifyOne

\* Where a receiver inside TQueue.dequeue goes when it has not waited.
LEMMA LeavesDequeue ==
  ASSUME StdTypeOK, NEW t \in Receivers \cup Controllers, Dequeue(t) \/ Terminated(t)
  PROVE  /\ \A u \in Threads \ {t} : pc'[u] = pc[u] /\ consumer'[u] = consumer[u]
         /\ pc[t] = "dequeue" /\ pc'[t] \in {"idle", "peek", "callback"}
<1>0. t \in Threads /\ t \notin Senders /\ pc[t] = "dequeue"
  BY StdAssumption DEF Threads, Dequeue, Terminated
<1>1. CASE Return(t, "ok") \/ Return(t, "terminate")
  BY <1>0, <1>1, ReturnTyping DEF Codes
<1>2. CASE Goto(t, "callback") /\ UNCHANGED args
  BY <1>0, <1>2 DEF Goto, args, StdTypeOK
<1> QED
  BY <1>1, <1>2 DEF Dequeue, Terminated

\* TQueue.dequeue takes a message and its receiver with it.
LEMMA DequeueWakes ==
  ASSUME StdTypeOK, NoLostWakeup, NEW t \in Receivers \cup Controllers, Dequeue(t)
  PROVE  NoLostWakeup'
<1>0. t \in Threads /\ consumer[t] \in Consumers
  BY DEF Dequeue, StdTypeOK, CallsOK, Threads
<1> SUFFICES ASSUME NEW d \in Consumers, d = consumer[t]
             PROVE  NoLostWakeup'
  BY <1>0
<1>1. /\ \A u \in Threads \ {t} : pc'[u] = pc[u] /\ consumer'[u] = consumer[u]
      /\ pc[t] = "dequeue" /\ pc'[t] \in {"idle", "peek", "callback"}
  BY LeavesDequeue
<1>2. \A c \in Consumers : Waiting(c)' \subseteq Waiting(c)
  BY <1>1 DEF Waiting
<1>3. \A c \in Consumers \ {d} : Awake(c) \subseteq Awake(c)' /\ queue_'[c] = queue_[c]
  BY <1>0, <1>1 DEF Awake, Dequeue, StdTypeOK
<1>4. Awake(d)' = Awake(d) \ {t} /\ t \in Awake(d)
  BY <1>0, <1>1 DEF Awake
<1>5. Cardinality(Awake(d)') = Cardinality(Awake(d)) - 1
  BY <1>4, AwakeFinite, FS_RemoveElement
<1>6. Len(queue_'[d]) = Len(queue_[d]) - 1 /\ Len(queue_[d]) \in Nat
  BY <1>0 DEF Dequeue, StdTypeOK
<1>7. WakeupsOf(d)'
  <2>1. CASE Waiting(d)' = {}
    BY <2>1 DEF WakeupsOf
  <2>2. CASE Waiting(d)' # {}
    <3>1. Cardinality(Awake(d)) >= Len(queue_[d])
      BY <1>2, <2>2 DEF NoLostWakeup
    <3> QED
      BY <1>5, <1>6, <3>1, AwakeFinite DEF WakeupsOf
  <2> QED
    BY <2>1, <2>2
<1> QED
  BY <1>2, <1>3, <1>7, WakeupsStay DEF NoLostWakeup, WakeupsOf

\* A receiver goes to sleep, or gives up, only on an empty mailbox.
LEMMA EmptyWakes ==
  ASSUME StdTypeOK, NoLostWakeup, NEW t \in Receivers \cup Controllers,
         Wait(t) \/ Terminated(t)
  PROVE  NoLostWakeup'
<1>0. t \in Threads /\ consumer[t] \in Consumers
  BY DEF Wait, Terminated, StdTypeOK, CallsOK, Threads
<1> SUFFICES ASSUME NEW d \in Consumers, d = consumer[t]
             PROVE  NoLostWakeup'
  BY <1>0
<1>1. queue_[d] = <<>> /\ UNCHANGED queue_
  BY DEF Wait, Terminated, shared, mailbox
<1>2. \A u \in Threads \ {t} : pc'[u] = pc[u] /\ consumer'[u] = consumer[u]
  BY LeavesDequeue DEF Wait, Goto, StdTypeOK, args
<1>3. pc[t] = "dequeue" /\ (pc'[t] = "waiting" => consumer'[t] = d)
  BY <1>0, LeavesDequeue DEF Wait, Goto, StdTypeOK, args
<1>4. \A c \in Consumers \ {d} : Waiting(c)' \subseteq Waiting(c) /\ Awake(c) \subseteq Awake(c)'
  BY <1>0, <1>2, <1>3 DEF Waiting, Awake
<1>5. WakeupsOf(d)'
  BY <1>1, AwakeFinite DEF WakeupsOf
<1> QED
  BY <1>1, <1>4, <1>5, WakeupsStay DEF NoLostWakeup, WakeupsOf

\* The rest of what a sender does is nobody's wakeup.
LEMMA SenderWakes ==
  ASSUME StdTypeOK, NoLostWakeup, NEW s \in Senders,
         BeginSend(s) \/ AllocFails(s) \/ Skip(s) \/ Select(s) \/ EndSend(s)
  PROVE  NoLostWakeup'
<1>0. s \in Threads
  BY DEF Threads
<1>1. Elsewhere(s) /\ UNCHANGED queue_
  BY <1>0 DEF Elsewhere, BeginSend, AllocFails, Skip, Select, EndSend, Goto, args, shared,
              mailbox, StdTypeOK
<1> QED
  BY <1>0, <1>1, ElsewhereStep

\* Nor is a call's beginning, the look it takes at the mailbox when it is not to
\* block, its callback or a wakeup without cause.
LEMMA CallWakes ==
  ASSUME StdTypeOK, NoLostWakeup, NEW t \in Receivers \cup Controllers,
         \/ \E c \in Consumers : \E block \in BOOLEAN : Receive(t, c, block, FALSE)
         \/ \E c \in Consumers : ReceiveInvalid(t, c)
         \/ Peek(t) \/ CallbackReturns(t) \/ SpuriousWake(t)
  PROVE  NoLostWakeup'
<1>0. t \in Threads
  BY DEF Threads
<1> USE DEF Elsewhere, Goto, args, shared, mailbox, StdTypeOK
<1>1. CASE \E c \in Consumers : \E block \in BOOLEAN : Receive(t, c, block, FALSE)
  <2>1. Elsewhere(t) /\ UNCHANGED queue_
    BY <1>0, <1>1 DEF Receive, Call
  <2> QED
    BY <1>0, <2>1, ElsewhereStep
<1>2. CASE \E c \in Consumers : ReceiveInvalid(t, c)
  <2>1. Elsewhere(t) /\ UNCHANGED queue_
    BY <1>0, <1>2 DEF ReceiveInvalid
  <2> QED
    BY <1>0, <2>1, ElsewhereStep
<1>3. CASE Peek(t)
  <2>1. CASE Return(t, "buffer_empty")
    BY <1>0, <1>3, <2>1, ReturnTyping, ElsewhereStep DEF Peek, Codes
  <2>2. CASE Goto(t, "dequeue") /\ UNCHANGED args
    <3>1. Elsewhere(t) /\ UNCHANGED queue_
      BY <1>0, <1>3, <2>2 DEF Peek
    <3> QED
      BY <1>0, <3>1, ElsewhereStep
  <2> QED
    BY <1>3, <2>1, <2>2 DEF Peek
<1>4. CASE CallbackReturns(t)
  <2>1. PICK code \in {"ok", "callback_error"} : Return(t, code)
    BY <1>4 DEF CallbackReturns
  <2>2. code \in Codes /\ pc[t] = "callback" /\ UNCHANGED queue_
    BY <1>4, <2>1 DEF CallbackReturns, Codes
  <2>3. Elsewhere(t)
    BY <1>0, <2>1, <2>2, ReturnTyping
  <2> QED
    BY <1>0, <2>2, <2>3, ElsewhereStep
<1>5. CASE SpuriousWake(t)
  <2>1. Elsewhere(t) /\ UNCHANGED queue_
    BY <1>0, <1>5 DEF SpuriousWake
  <2> QED
    BY <1>0, <2>1, ElsewhereStep
<1> QED
  BY <1>1, <1>2, <1>3, <1>4, <1>5

\* Nor is what a controller begins.
LEMMA ControlWakes ==
  ASSUME StdTypeOK, NoLostWakeup, NEW t \in Controllers, NEW c \in Controls[t],
         Control(t, c)
  PROVE  NoLostWakeup'
<1>0. t \in Threads
  BY DEF Threads
<1> USE DEF Elsewhere, Goto, args, shared, mailbox, StdTypeOK, Call, EndCall
<1>1. CASE Register(t, c) \/ RegisterFails(t, c)
  <2>1. Elsewhere(t) /\ UNCHANGED queue_
    BY <1>0, <1>1 DEF Register, RegisterFails
  <2> QED
    BY <1>0, <2>1, ElsewhereStep
<1>2. CASE Reopen(t, c) \/ Terminate(t, c)
  <2>1. Elsewhere(t) /\ UNCHANGED queue_
    BY <1>0, <1>2 DEF Reopen, Terminate
  <2> QED
    BY <1>0, <2>1, ElsewhereStep
<1>3. CASE Resume(t, c) \/ \E flush_buffer \in BOOLEAN : Pause(t, c, flush_buffer)
  <2>1. Elsewhere(t) /\ UNCHANGED queue_
    BY <1>0, <1>3 DEF Resume, Pause
  <2> QED
    BY <1>0, <2>1, ElsewhereStep
<1> QED
  BY <1>1, <1>2, <1>3 DEF Control

\* TQueue.close leaves no sleeper of its consumer, and everyone else alone.
LEMMA CloseWakes ==
  ASSUME StdTypeOK, NEW t \in Controllers, Close(t)
  PROVE  /\ NoLostWakeup => NoLostWakeup'
         /\ \A c \in Consumers : Waiting(c)' \subseteq Waiting(c)
         /\ \A d \in Consumers : d = consumer[t] => Waiting(d)' = {}
<1>0. t \in Threads /\ consumer[t] \in Consumers /\ pc[t] = "close"
  BY DEF Close, StdTypeOK, CallsOK, Threads
<1> SUFFICES ASSUME NEW d \in Consumers, d = consumer[t]
             PROVE  /\ NoLostWakeup => NoLostWakeup'
                    /\ \A c \in Consumers : Waiting(c)' \subseteq Waiting(c)
                    /\ Waiting(d)' = {}
  BY <1>0
<1>1. /\ pc' = [u \in Threads |-> IF u = t THEN "idle"
                                  ELSE IF u \in Waiting(d) THEN "dequeue" ELSE pc[u]]
      /\ \A u \in Threads \ {t} : consumer'[u] = consumer[u]
      /\ UNCHANGED queue_
  BY <1>0 DEF Close, NotifyAll, EndCall, Call, StdTypeOK
<1>2. \A c \in Consumers : Waiting(c)' \subseteq Waiting(c)
  BY <1>0, <1>1 DEF Waiting
<1>3. Waiting(d)' = {}
  BY <1>0, <1>1 DEF Waiting
<1>4. \A c \in Consumers : Awake(c) \subseteq Awake(c)'
  BY <1>0, <1>1 DEF Awake, Waiting
<1>5. NoLostWakeup => NoLostWakeup'
  BY <1>1, <1>2, <1>4, WakeupsStay DEF NoLostWakeup, WakeupsOf
<1> QED
  BY <1>2, <1>3, <1>5

\* No wakeup of a receiver is ever lost: at every moment a receiver sleeps, each
\* message of its mailbox has another receiver that is awake to take it, however
\* the sends, the receives, the pauses and the closings interleave.
THEOREM WakeupsKept == Spec => []NoLostWakeup
<1>1. Init => NoLostWakeup
  BY DEF Init, NoLostWakeup, Waiting
<1>2. StdTypeOK /\ NoLostWakeup /\ [Next]_vars => NoLostWakeup'
  <2> SUFFICES ASSUME StdTypeOK, NoLostWakeup, [Next]_vars PROVE NoLostWakeup'
    OBVIOUS
  <2>1. CASE \E s \in Senders : BeginSend(s) \/ AllocFails(s) \/ Sending(s)
    BY <2>1, SenderWakes, EnqueueWakes DEF Sending
  <2>2. CASE \E t \in Receivers : \E c \in Reads[t] :
               \/ \E block \in BOOLEAN : Receive(t, c, block, FALSE)
               \/ ReceiveInvalid(t, c)
    <3>1. PICK t \in Receivers : \E c \in Reads[t] :
               \/ \E block \in BOOLEAN : Receive(t, c, block, FALSE)
               \/ ReceiveInvalid(t, c)
      BY <2>2
    <3>2. \A c \in Reads[t] : c \in Consumers
      BY StdAssumption
    <3> QED
      BY <3>1, <3>2, CallWakes
  <2>3. CASE \E t \in Controllers : \E c \in Controls[t] : Control(t, c)
    BY <2>3, ControlWakes
  <2>4. CASE \E t \in Controllers : Unpause(t)
    <3>1. PICK t \in Controllers : Unpause(t)
      BY <2>4
    <3>2. Elsewhere(t) /\ UNCHANGED queue_ /\ t \in Threads
      BY <3>1 DEF Unpause, Elsewhere, EndCall, Call, Goto, mailbox, StdTypeOK, Threads
    <3> QED
      BY <3>2, ElsewhereStep
  <2>5. CASE \E t \in Controllers : Close(t)
    BY <2>5, CloseWakes
  <2>6. CASE \E t \in Receivers \cup Controllers : Receiving(t) \/ SpuriousWake(t)
    BY <2>6, DequeueWakes, EmptyWakes, CallWakes DEF Receiving
  <2>7. CASE UNCHANGED vars
    BY <2>7 DEF vars, args, shared, mailbox, NoLostWakeup, Waiting, Awake
  <2> QED
    BY <2>1, <2>2, <2>3, <2>4, <2>5, <2>6, <2>7 DEF Next
<1> QED
  BY <1>1, <1>2, StdTypeCorrect, PTL DEF Spec

-----------------------------------------------------------------------------
(* Closing *)

\* Only the step that puts a thread to sleep adds a sleeper, and it finds the
\* mailbox open.
LEMMA SleepsOnOpen ==
  ASSUME StdTypeOK, NobodyWaitsOnClosed, NEW t \in Receivers \cup Controllers, Wait(t)
  PROVE  NobodyWaitsOnClosed'
<1>0. t \in Threads
  BY DEF Threads
<1> SUFFICES ASSUME NEW c \in Consumers, Waiting(c)' # {}
             PROVE  running'[c]
  BY DEF NobodyWaitsOnClosed
<1>1. Waiting(c) # {} \/ c = consumer[t]
  BY <1>0 DEF Waiting, Wait, Goto, args, StdTypeOK
<1>2. running[consumer[t]] /\ UNCHANGED running
  BY DEF Wait, shared, mailbox
<1> QED
  BY <1>1, <1>2 DEF NobodyWaitsOnClosed

\* Nobody sleeps on a closed mailbox: messaging_consumer_terminate reaches every
\* receiver, the one that comes late included.
THEOREM NobodySleepsOnClosed == Spec => []NobodyWaitsOnClosed
<1>1. Init => NobodyWaitsOnClosed
  BY DEF Init, NobodyWaitsOnClosed, Waiting
<1>2. StdTypeOK /\ NobodyWaitsOnClosed /\ [Next]_vars => NobodyWaitsOnClosed'
  <2> SUFFICES ASSUME StdTypeOK, NobodyWaitsOnClosed, [Next]_vars
               PROVE  NobodyWaitsOnClosed'
    OBVIOUS
  <2>1. CASE \E t \in Controllers : Close(t)
    <3>1. PICK t \in Controllers : Close(t)
      BY <2>1
    <3>2. \A c \in Consumers : c # consumer[t] => running'[c] = running[c]
      BY <3>1 DEF Close, StdTypeOK
    <3> QED
      BY <3>1, <3>2, CloseWakes DEF NobodyWaitsOnClosed
  <2>2. CASE \E t \in Receivers \cup Controllers : Wait(t)
    BY <2>2, SleepsOnOpen
  <2> DEFINE Opens == \A c \in Consumers : running[c] => running'[c]
             NoSleeper == \A c \in Consumers : Waiting(c)' \subseteq Waiting(c)
  <2>3. Opens /\ NoSleeper => NobodyWaitsOnClosed'
    BY DEF NobodyWaitsOnClosed
  <2>4. CASE \E s \in Senders : BeginSend(s) \/ AllocFails(s) \/ Sending(s)
    <3>1. PICK s \in Senders : BeginSend(s) \/ AllocFails(s) \/ Sending(s)
      BY <2>4
    <3>2. s \in Threads /\ UNCHANGED running
      BY <3>1 DEF Threads, BeginSend, AllocFails, Sending, Skip, Select, Enqueue, EndSend,
                  shared, mailbox
    <3>3. NoSleeper
      <4>1. CASE Enqueue(s)
        BY <3>2, <4>1 DEF Enqueue, NotifyOne, Goto, args, Waiting, StdTypeOK
      <4>2. CASE BeginSend(s) \/ AllocFails(s) \/ Skip(s) \/ Select(s) \/ EndSend(s)
        BY <3>2, <4>2 DEF BeginSend, AllocFails, Skip, Select, EndSend, Goto, args, Waiting,
                          StdTypeOK
      <4> QED
        BY <3>1, <4>1, <4>2 DEF Sending
    <3> QED
      BY <2>3, <3>2, <3>3
  <2>5. CASE \E t \in Receivers : \E c \in Reads[t] :
               \/ \E block \in BOOLEAN : Receive(t, c, block, FALSE)
               \/ ReceiveInvalid(t, c)
    <3>1. Opens /\ NoSleeper
      BY <2>5 DEF Receive, ReceiveInvalid, Goto, Call, args, shared, mailbox, Waiting, StdTypeOK
    <3> QED
      BY <2>3, <3>1
  <2>6. CASE \E t \in Controllers : \E c \in Controls[t] : Control(t, c)
    <3>1. PICK t \in Controllers : \E c \in Controls[t] : Control(t, c)
      BY <2>6
    <3>2. PICK c \in Controls[t] : Control(t, c)
      BY <3>1
    <3>3. Opens
      BY <3>2 DEF Control, Register, RegisterFails, Reopen, Pause, Resume, Terminate,
                  mailbox, StdTypeOK
    <3>4. t \in Threads
      BY DEF Threads
    <3>5. NoSleeper
      BY <3>2, <3>4 DEF Control, Register, RegisterFails, Reopen, Pause, Resume, Terminate,
                  Goto, Call, args, Waiting, StdTypeOK
    <3> QED
      BY <2>3, <3>3, <3>5
  <2>7. CASE \E t \in Controllers : Unpause(t)
    <3>1. Opens /\ NoSleeper
      BY <2>7 DEF Unpause, Goto, Call, EndCall, mailbox, Waiting, StdTypeOK, Threads
    <3> QED
      BY <2>3, <3>1
  <2>8. ASSUME NEW t \in Receivers \cup Controllers,
               Peek(t) \/ Dequeue(t) \/ Terminated(t) \/ CallbackReturns(t) \/ SpuriousWake(t)
        PROVE  NobodyWaitsOnClosed'
    <3>1. UNCHANGED running
      BY <2>8 DEF Peek, Dequeue, Terminated, CallbackReturns, SpuriousWake, shared, mailbox
    <3>2. t \in Threads
      BY DEF Threads
    <3>3. NoSleeper
      <4>1. CASE Dequeue(t) \/ Terminated(t)
        BY <4>1, LeavesDequeue DEF Waiting
      <4>2. CASE CallbackReturns(t)
        <5>1. PICK code \in {"ok", "callback_error"} : Return(t, code)
          BY <4>2 DEF CallbackReturns
        <5> QED
          BY <4>2, <5>1, ReturnTyping DEF CallbackReturns, Codes, Waiting
      <4>3. CASE Peek(t)
        <5>1. CASE Return(t, "buffer_empty")
          BY <4>3, <5>1, ReturnTyping DEF Peek, Codes, Waiting
        <5>2. CASE Goto(t, "dequeue") /\ UNCHANGED args
          BY <3>2, <5>2 DEF Goto, args, Waiting, StdTypeOK
        <5> QED
          BY <4>3, <5>1, <5>2 DEF Peek
      <4>4. CASE SpuriousWake(t)
        BY <3>2, <4>4 DEF SpuriousWake, Goto, args, Waiting, StdTypeOK
      <4> QED
        BY <2>8, <4>1, <4>2, <4>3, <4>4
    <3> QED
      BY <2>3, <3>1, <3>3
  <2>9. CASE UNCHANGED vars
    BY <2>9 DEF vars, args, shared, mailbox, NobodyWaitsOnClosed, Waiting
  <2> QED
    BY <2>1, <2>2, <2>4, <2>5, <2>6, <2>7, <2>8, <2>9 DEF Next, Receiving
<1> QED
  BY <1>1, <1>2, StdTypeCorrect, PTL DEF Spec

\* A mailbox that is left alone is its own suffix, and so is its tail.
LEMMA Suffixes ==
  ASSUME NEW q \in Seq(Messages)
  PROVE  /\ 1 \in 1..Len(q) + 1 /\ q = SubSeq(q, 1, Len(q))
         /\ q # <<>> => 2 \in 1..Len(q) + 1 /\ Tail(q) = SubSeq(q, 2, Len(q))
<1>1. Len(q) \in Nat
  OBVIOUS
<1>2. q = SubSeq(q, 1, Len(q))
  OBVIOUS
<1>3. ASSUME q # <<>> PROVE 2 \in 1..Len(q) + 1 /\ Tail(q) = SubSeq(q, 2, Len(q))
  BY <1>1, <1>3
<1> QED
  BY <1>1, <1>2, <1>3

\* As long as a mailbox stays closed it only shrinks, from the front: no send that
\* was on its way when messaging_consumer_terminate ran gets a message in.
THEOREM ClosedMailboxesDrain == Spec => ClosedOnlyDrains
<1> DEFINE Drains == \A c \in Consumers : ~running[c] /\ ~running'[c] =>
                       \E n \in 1..Len(queue_[c]) + 1 :
                         queue_'[c] = SubSeq(queue_[c], n, Len(queue_[c]))
<1>1. StdTypeOK /\ [Next]_vars => [Drains]_vars
  <2> SUFFICES ASSUME StdTypeOK, Next, NEW c \in Consumers, ~running[c], ~running'[c]
               PROVE  \E n \in 1..Len(queue_[c]) + 1 :
                        queue_'[c] = SubSeq(queue_[c], n, Len(queue_[c]))
    OBVIOUS
  <2>1. queue_[c] \in Seq(Messages)
    BY DEF StdTypeOK
  <2>2. queue_'[c] = queue_[c] \/ (queue_[c] # <<>> /\ queue_'[c] = Tail(queue_[c]))
    <3>1. CASE \E s \in Senders : Enqueue(s)
      BY <3>1 DEF Enqueue, Target, StdTypeOK, CallsOK
    <3>2. CASE \E t \in Receivers \cup Controllers : Dequeue(t)
      BY <3>2 DEF Dequeue, StdTypeOK, CallsOK, Threads
    <3>3. CASE UNCHANGED queue_
      BY <3>3
    <3>4. ASSUME NEW s \in Senders, BeginSend(s) \/ AllocFails(s) \/ Sending(s)
          PROVE  UNCHANGED queue_ \/ Enqueue(s)
      BY <3>4 DEF BeginSend, AllocFails, Sending, Skip, Select, EndSend, shared, mailbox
    <3>5. ASSUME NEW t \in Receivers \cup Controllers, Receiving(t) \/ SpuriousWake(t)
          PROVE  UNCHANGED queue_ \/ Dequeue(t)
      BY <3>5 DEF Receiving, Peek, Wait, Terminated, CallbackReturns, SpuriousWake, shared,
                  mailbox
    <3>6. ASSUME NEW t \in Receivers, NEW d \in Reads[t],
                 \/ \E block \in BOOLEAN : Receive(t, d, block, FALSE)
                 \/ ReceiveInvalid(t, d)
          PROVE  UNCHANGED queue_
      BY <3>6 DEF Receive, ReceiveInvalid, shared, mailbox
    <3>7. ASSUME NEW t \in Controllers, NEW d \in Controls[t], Control(t, d)
          PROVE  UNCHANGED queue_
      BY <3>7 DEF Control, Register, RegisterFails, Reopen, Pause, Resume, Terminate, mailbox
    <3>8. ASSUME NEW t \in Controllers, Unpause(t) \/ Close(t)
          PROVE  UNCHANGED queue_
      BY <3>8 DEF Unpause, Close, mailbox
    <3> QED
      BY <3>1, <3>2, <3>3, <3>4, <3>5, <3>6, <3>7, <3>8 DEF Next
  <2>3. CASE queue_'[c] = queue_[c]
    BY <2>1, <2>3, Suffixes
  <2>4. CASE queue_[c] # <<>> /\ queue_'[c] = Tail(queue_[c])
    BY <2>1, <2>4, Suffixes
  <2> QED
    BY <2>2, <2>3, <2>4
<1> QED
  BY <1>1, StdTypeCorrect, PTL DEF Spec, ClosedOnlyDrains

-----------------------------------------------------------------------------
(* The bus *)

\* A consumer has one controller.  With two, one of them may resume a consumer
\* that the other is terminating, and a closed mailbox that is not paused
\* swallows what it is sent.
SoleControl == \A t, u \in Controllers : Controls[t] \cap Controls[u] # {} => t = u

PoolDistinct == \A j, k \in 1..Len(consumer_pool) : consumer_pool[j] = consumer_pool[k] => j = k

\* A sender inside its loop has a message, and offers it to who accepts it.
SendsOK ==
    \A s \in Senders :
      /\ (message[s] # None) <=> (pc[s] \in {"test", "enqueue"})
      /\ pc[s] = "enqueue" => message[s] \in Accepts[Target(s)]

\* A receiver works on a registered consumer, and on a message in its callback.
ReceiverOK(t) ==
    /\ pc[t] \in {"idle", "peek", "dequeue", "waiting", "callback"}
    /\ (message[t] # None) <=> (pc[t] = "callback")
    /\ ~silent[t]
    /\ pc[t] # "idle" => consumer[t] \in Registered

ReceivesOK == \A t \in Receivers : ReceiverOK(t)

\* A controller works on a consumer of its own: it flushes one that is paused,
\* closes one that is paused, and resumes one that is open.
ControllerOK(t) ==
    /\ pc[t] \in {"idle", "peek", "dequeue", "waiting", "close", "unpause"}
    /\ pc[t] # "idle" => consumer[t] \in Controls[t] \cap Registered
    /\ pc[t] \in {"peek", "dequeue", "waiting"} => silent[t]
    /\ pc[t] \in {"peek", "dequeue", "waiting", "close"} => is_paused[consumer[t]]
    /\ pc[t] = "unpause" => running[consumer[t]]

ControlsOK == \A t \in Controllers : ControllerOK(t)

ClosedPaused == \A c \in Consumers : ~running[c] => is_paused[c]

\* The senders that may still put a message into a mailbox, and the room for them.
Todo(s) == {consumer_pool[j] : j \in index[s]..num_consumers[s]}
Offering(c) == {s \in Senders : message[s] # None /\ c \in Todo(s)}
RoomOK ==
    \A c \in Consumers :
      Len(queue_[c]) + Cardinality(Offering(c)) <= MaxQueue + Cardinality(Senders)

BusInv == PoolDistinct /\ SendsOK /\ ReceivesOK /\ ControlsOK /\ ClosedPaused /\ RoomOK

\* The step concerns neither the sends nor the receives of other threads: what
\* it leaves of BusInv needs no more than this.
LEMMA RoomKept ==
  ASSUME StdTypeOK, RoomOK, NEW c \in Consumers,
         Len(queue_'[c]) \in Nat, Len(queue_'[c]) <= Len(queue_[c]),
         \A s \in Senders : message'[s] = message[s] /\ Todo(s)' = Todo(s)
  PROVE  (Len(queue_[c]) + Cardinality(Offering(c)) <= MaxQueue + Cardinality(Senders))'
<1>1. Offering(c)' = Offering(c)
  BY DEF Offering
<1>2. /\ IsFiniteSet(Senders) /\ Cardinality(Senders) \in Nat
      /\ Cardinality(Offering(c)) \in Nat
  <2>1. IsFiniteSet(Senders)
    BY StdAssumption, FS_Subset DEF Threads
  <2>2. Offering(c) \subseteq Senders
    BY DEF Offering
  <2> QED
    BY <2>1, <2>2, FS_Subset, FS_CardinalityType
<1>3. Len(queue_[c]) \in Nat
  BY DEF StdTypeOK
<1> QED
  BY <1>1, <1>2, <1>3, StdAssumption DEF RoomOK

\* The consumers a send has still to visit are those it had, whatever is appended
\* to the pool.
LEMMA TodoKept ==
  ASSUME StdTypeOK, NEW s \in Senders,
         index'[s] = index[s], num_consumers'[s] = num_consumers[s],
         \A j \in 1..Len(consumer_pool) : consumer_pool'[j] = consumer_pool[j]
  PROVE  Todo(s)' = Todo(s)
<1> DEFINE I == index[s]..num_consumers[s]
<1>1. \A j \in I : consumer_pool'[j] = consumer_pool[j]
  BY DEF StdTypeOK, CallsOK
<1>2. Todo(s) = {consumer_pool[j] : j \in I} /\ Todo(s)' = {consumer_pool'[j] : j \in I}
  BY DEF Todo
<1> HIDE DEF I
<1> QED
  BY <1>1, <1>2

\* Moving on takes one consumer off the list, and only that one.
LEMMA TodoVisited ==
  ASSUME StdTypeOK, PoolDistinct, NEW s \in Senders, index[s] <= num_consumers[s]
  PROVE  /\ Target(s) \in Todo(s) /\ Target(s) \in Consumers
         /\ {consumer_pool[j] : j \in index[s] + 1 .. num_consumers[s]} = Todo(s) \ {Target(s)}
<1>1. /\ index[s] \in 1..Len(consumer_pool)
      /\ num_consumers[s] \in Nat /\ Len(consumer_pool) \in Nat
      /\ num_consumers[s] <= Len(consumer_pool)
      /\ consumer_pool[index[s]] \in Consumers
  BY DEF StdTypeOK, CallsOK
<1>2. \A j \in index[s] + 1 .. num_consumers[s] : consumer_pool[j] # consumer_pool[index[s]]
  BY <1>1 DEF PoolDistinct
<1>3. index[s]..num_consumers[s] = (index[s] + 1 .. num_consumers[s]) \cup {index[s]}
  BY <1>1
<1> DEFINE I == index[s] + 1 .. num_consumers[s]
           i == index[s]
<1>4. {consumer_pool[j] : j \in I \cup {i}} = {consumer_pool[j] : j \in I} \cup {consumer_pool[i]}
  <2> HIDE DEF I, i
  <2> QED
    OBVIOUS
<1> QED
  BY <1>1, <1>2, <1>3, <1>4 DEF Target, Todo

\* A thread that wakes up is still in the call it was in.
OnlyWakes(t) == pc'[t] = pc[t] \/ (pc[t] = "waiting" /\ pc'[t] = "dequeue")

\* Receivers and controllers notice nothing of a send but that it wakes them.
LEMMA SendBus ==
  ASSUME StdTypeOK, StdTypeOK', BusInv, NEW s \in Senders,
         BeginSend(s) \/ AllocFails(s) \/ Sending(s)
  PROVE  BusInv'
<1> USE StdAssumption DEF Threads, Goto, args, shared, mailbox, sends
<1>1. /\ UNCHANGED <<consumer_pool, running, is_paused, consumer, silent>>
      /\ \A t \in Threads : t # s =>
           /\ OnlyWakes(t) /\ message'[t] = message[t]
           /\ t \in Senders => pc'[t] = pc[t] /\ index'[t] = index[t]
                               /\ num_consumers'[t] = num_consumers[t]
  <2>1. CASE Enqueue(s)
    <3>1. \A t \in Threads : t # s => OnlyWakes(t)
      BY <2>1 DEF Enqueue, NotifyOne, Waiting, StdTypeOK, OnlyWakes
    <3>2. \A t \in Senders : t # s => pc'[t] = pc[t]
      BY <2>1 DEF Enqueue, NotifyOne, Waiting, StdTypeOK, CallsOK
    <3>3. /\ UNCHANGED <<consumer_pool, running, is_paused, consumer, silent>>
          /\ message' = message /\ num_consumers' = num_consumers
          /\ \A t \in Senders : t # s => index'[t] = index[t]
      BY <2>1 DEF Enqueue, StdTypeOK
    <3> QED
      BY <3>1, <3>2, <3>3
  <2>2. CASE BeginSend(s) \/ AllocFails(s) \/ Skip(s) \/ Select(s) \/ EndSend(s)
    BY <2>2 DEF BeginSend, AllocFails, Skip, Select, EndSend, StdTypeOK, OnlyWakes
  <2> QED
    BY <2>1, <2>2 DEF Sending
<1>2. PoolDistinct'
  BY <1>1 DEF BusInv, PoolDistinct
<1>3. ReceivesOK' /\ ControlsOK' /\ ClosedPaused'
  BY <1>1 DEF BusInv, ReceivesOK, ReceiverOK, ControlsOK, ControllerOK, ClosedPaused, Registered,
               OnlyWakes
<1>4. SendsOK'
  <2>1. ASSUME NEW u \in Senders, u # s
        PROVE  /\ (message'[u] # None) <=> (pc'[u] \in {"test", "enqueue"})
               /\ pc'[u] = "enqueue" => message'[u] \in Accepts[Target(u)']
    BY <1>1, <2>1 DEF BusInv, SendsOK, Target
  <2>2. /\ (message'[s] # None) <=> (pc'[s] \in {"test", "enqueue"})
        /\ pc'[s] = "enqueue" => message'[s] \in Accepts[Target(s)']
    <3>1. CASE Enqueue(s)
      <4>1. pc'[s] = "test" /\ message'[s] = message[s] /\ pc[s] = "enqueue"
        BY <3>1 DEF Enqueue, NotifyOne, Waiting, StdTypeOK
      <4> QED
        BY <4>1 DEF BusInv, SendsOK
    <3>2. CASE BeginSend(s) \/ AllocFails(s) \/ Skip(s) \/ EndSend(s)
      BY <3>2 DEF BeginSend, AllocFails, Skip, EndSend, StdTypeOK, BusInv, SendsOK, Target
    <3>3. CASE Select(s)
      BY <3>3 DEF Select, Wants, StdTypeOK, BusInv, SendsOK, Target
    <3> QED
      BY <3>1, <3>2, <3>3 DEF Sending
  <2> QED
    BY <2>1, <2>2 DEF SendsOK
<1>5. RoomOK'
  <2> SUFFICES ASSUME NEW c \in Consumers
               PROVE  (Len(queue_[c]) + Cardinality(Offering(c)) <= MaxQueue + Cardinality(Senders))'
    BY DEF RoomOK
  <2>1. /\ IsFiniteSet(Senders) /\ Cardinality(Senders) \in Nat
        /\ IsFiniteSet(Offering(c)) /\ Cardinality(Offering(c)) \in Nat
        /\ Offering(c) \subseteq Senders /\ Offering(c)' \subseteq Senders
    <3>1. IsFiniteSet(Senders)
      BY FS_Subset
    <3>2. Offering(c) \subseteq Senders /\ Offering(c)' \subseteq Senders
      BY DEF Offering
    <3> QED
      BY <3>1, <3>2, FS_Subset, FS_CardinalityType
  <2>2. /\ Len(queue_[c]) \in Nat /\ Len(queue_'[c]) \in Nat /\ MaxQueue \in Nat
        /\ Len(queue_[c]) + Cardinality(Offering(c)) <= MaxQueue + Cardinality(Senders)
    BY DEF StdTypeOK, BusInv, RoomOK
  <2>3. \A u \in Senders : u # s => Todo(u)' = Todo(u)
    BY <1>1, TodoKept
  <2>4. Cardinality(Offering(c)') \in Nat /\ Cardinality(Offering(c)') <= Cardinality(Senders)
    BY <2>1, FS_Subset, FS_CardinalityType
  <2>5. CASE BeginSend(s)
    BY <2>1, <2>2, <2>4, <2>5 DEF BeginSend
  <2>6. CASE AllocFails(s) \/ Select(s)
    <3>1. Todo(s)' = Todo(s) /\ message'[s] = message[s] /\ queue_' = queue_
      BY <1>1, <2>6, TodoKept DEF AllocFails, Select
    <3> QED
      BY <1>1, <2>2, <2>3, <3>1, RoomKept DEF BusInv
  <2>7. CASE Skip(s) \/ Enqueue(s) \/ EndSend(s)
    <3>1. message'[s] # None => Todo(s)' = Todo(s) \ {Target(s)} /\ message[s] # None
      <4>1. CASE Skip(s) \/ Enqueue(s)
        <5>1. /\ index[s] <= num_consumers[s] /\ index'[s] = index[s] + 1
              /\ num_consumers'[s] = num_consumers[s] /\ message'[s] = message[s]
          BY <4>1 DEF Skip, Enqueue, StdTypeOK, CallsOK
        <5> QED
          BY <1>1, <5>1, TodoVisited DEF BusInv, Todo
      <4>2. CASE EndSend(s)
        BY <4>2 DEF EndSend, StdTypeOK
      <4> QED
        BY <2>7, <4>1, <4>2
    <3>2. Offering(c)' \subseteq Offering(c)
      BY <1>1, <2>3, <3>1 DEF Offering
    <3>3. Cardinality(Offering(c)') <= Cardinality(Offering(c))
      BY <2>1, <3>2, FS_Subset
    <3>4. CASE queue_'[c] = queue_[c]
      BY <2>1, <2>2, <2>4, <3>3, <3>4
    <3>5. CASE queue_'[c] # queue_[c]
      <4>1. /\ Enqueue(s) /\ c = Target(s) /\ queue_'[c] = Append(queue_[c], message[s])
        BY <2>7, <3>5 DEF Skip, Enqueue, EndSend, StdTypeOK
      <4>2. /\ Len(queue_'[c]) = Len(queue_[c]) + 1
        BY <4>1 DEF StdTypeOK
      <4>3. s \in Offering(c) /\ s \notin Offering(c)'
        <5>1. index[s] <= num_consumers[s] /\ message[s] # None
          BY <4>1 DEF Enqueue, StdTypeOK, CallsOK
        <5>2. c \in Todo(s)
          BY <4>1, <5>1, TodoVisited DEF BusInv
        <5> QED
          BY <3>1, <4>1, <5>1, <5>2 DEF Offering
      <4>4. Cardinality(Offering(c)') <= Cardinality(Offering(c)) - 1
        <5>1. Offering(c)' \subseteq Offering(c) \ {s}
          BY <3>2, <4>3
        <5>2. IsFiniteSet(Offering(c) \ {s}) /\ Cardinality(Offering(c) \ {s}) = Cardinality(Offering(c)) - 1
          BY <2>1, <4>3, FS_RemoveElement
        <5> QED
          BY <5>1, <5>2, FS_Subset
      <4> QED
        BY <2>1, <2>2, <2>4, <4>2, <4>4
    <3> QED
      BY <3>4, <3>5
  <2> QED
    BY <2>5, <2>6, <2>7 DEF Sending
<1> QED
  BY <1>2, <1>3, <1>4, <1>5 DEF BusInv


\* The consumers a thread may pause, resume, close and open.
Own(t) == IF t \in Controllers THEN Controls[t] ELSE {}

\* A step of a receiver or a controller that keeps its own part of BusInv keeps the
\* rest, if it closes and resumes no consumer but its own.
LEMMA ThreadBus ==
  ASSUME SoleControl, StdTypeOK, StdTypeOK', BusInv, NEW t \in Receivers \cup Controllers,
         \A u \in Threads \ {t} :
           OnlyWakes(u) /\ consumer'[u] = consumer[u] /\ silent'[u] = silent[u]
           /\ message'[u] = message[u],
         UNCHANGED <<index, num_consumers>>,
         \A j \in 1..Len(consumer_pool) : consumer_pool'[j] = consumer_pool[j],
         Len(consumer_pool) <= Len(consumer_pool'), PoolDistinct',
         \A c \in Consumers : Len(queue_'[c]) <= Len(queue_[c]),
         \A c \in Consumers \ Own(t) : running'[c] = running[c] /\ is_paused'[c] = is_paused[c],
         ClosedPaused',
         t \in Receivers => ReceiverOK(t)', t \in Controllers => ControllerOK(t)'
  PROVE  BusInv'
<1> USE StdAssumption DEF Threads
<1>1. \A s \in Senders : s # t /\ pc'[s] = pc[s] /\ message'[s] = message[s]
  BY DEF OnlyWakes, StdTypeOK, CallsOK
<1>2. Registered \subseteq Registered'
  <2>1. Len(consumer_pool) \in Nat /\ Len(consumer_pool') \in Nat
    BY DEF StdTypeOK
  <2>2. \A j \in 1..Len(consumer_pool) : j \in 1..Len(consumer_pool')
    BY <2>1
  <2> QED
    BY <2>2 DEF Registered
<1>3. SendsOK'
  <2> SUFFICES ASSUME NEW s \in Senders
               PROVE  (/\ (message[s] # None) <=> (pc[s] \in {"test", "enqueue"})
                       /\ pc[s] = "enqueue" => message[s] \in Accepts[Target(s)])'
    BY DEF SendsOK
  <2>1. pc[s] = "enqueue" => Target(s)' = Target(s)
    <3>1. pc[s] = "enqueue" => index[s] \in 1..Len(consumer_pool)
      <4>1. StdTypeOK
        OBVIOUS
      <4> QED
        BY ONLY <4>1, s \in Senders DEF StdTypeOK, CallsOK
    <3> QED
      BY <3>1 DEF Target
  <2> QED
    BY <1>1, <2>1 DEF BusInv, SendsOK
<1>4. ReceivesOK'
  <2> SUFFICES ASSUME NEW u \in Receivers, u # t PROVE ReceiverOK(u)'
    BY DEF ReceivesOK
  <2> QED
    BY <1>2 DEF BusInv, ReceivesOK, ReceiverOK, OnlyWakes
<1>5. ControlsOK'
  <2> SUFFICES ASSUME NEW u \in Controllers, u # t PROVE ControllerOK(u)'
    BY DEF ControlsOK
  <2>1. ControllerOK(u) /\ OnlyWakes(u) /\ consumer'[u] = consumer[u] /\ silent'[u] = silent[u]
    BY DEF BusInv, ControlsOK
  <2>2. CASE pc[u] = "idle"
    BY <2>1, <2>2 DEF ControllerOK, OnlyWakes
  <2>3. CASE pc[u] # "idle"
    <3>1. consumer[u] \in Controls[u] /\ consumer[u] \in Consumers
      BY <2>1, <2>3 DEF ControllerOK
    <3>2. consumer[u] \notin Own(t)
      BY <3>1 DEF Own, SoleControl
    <3> QED
      BY <1>2, <2>1, <2>3, <3>1, <3>2 DEF ControllerOK, OnlyWakes
  <2> QED
    BY <2>2, <2>3
<1>6. RoomOK'
  <2>1. \A s \in Senders : message'[s] = message[s] /\ Todo(s)' = Todo(s)
    BY <1>1, TodoKept
  <2>2. \A c \in Consumers : Len(queue_'[c]) \in Nat
    BY DEF StdTypeOK
  <2> QED
    BY <2>1, <2>2, RoomKept DEF BusInv, RoomOK
<1> QED
  BY <1>3, <1>4, <1>5, <1>6 DEF BusInv

\* How a messaging_consumer_receive ends, or goes on flushing.
LEMMA ReturnBus ==
  ASSUME StdTypeOK, NEW t \in Receivers \cup Controllers, NEW code \in Codes, Return(t, code)
  PROVE  /\ \A u \in Threads \ {t} : pc'[u] = pc[u] /\ consumer'[u] = consumer[u]
                                     /\ silent'[u] = silent[u]
         /\ \/ pc'[t] = "idle" /\ consumer'[t] = None /\ ~silent'[t]
            \/ pc'[t] = "peek" /\ consumer'[t] = consumer[t] /\ silent'[t] = silent[t]
<1> USE DEF StdTypeOK, Threads, Goto, args, Return, EndCall, Call
<1>1. CASE flushing[t] /\ code # "buffer_empty"
  BY <1>1
<1>2. CASE ~(flushing[t] /\ code # "buffer_empty")
  BY <1>2
<1> QED
  BY <1>1, <1>2

\* A receive that goes on.
LEMMA ReceivingBus ==
  ASSUME SoleControl, StdTypeOK, StdTypeOK', BusInv, NEW t \in Receivers \cup Controllers,
         Receiving(t) \/ SpuriousWake(t)
  PROVE  BusInv'
<1>0. t \in Threads /\ t \notin Senders
      /\ (t \in Receivers => ReceiverOK(t) /\ t \notin Controllers)
      /\ (t \in Controllers => ControllerOK(t) /\ t \notin Receivers)
  BY StdAssumption DEF Threads, BusInv, ReceivesOK, ControlsOK
<1>1. UNCHANGED <<index, num_consumers, running, is_paused, consumer_pool>>
  BY DEF Receiving, Peek, Dequeue, Wait, Terminated, CallbackReturns, SpuriousWake, sends,
         shared, mailbox
<1>2. \A c \in Consumers : Len(queue_'[c]) <= Len(queue_[c])
  <2>1. CASE Dequeue(t)
    <3>1. consumer[t] \in Consumers
      BY <2>1 DEF Dequeue, StdTypeOK, CallsOK, Threads
    <3>2. \A c \in Consumers : queue_'[c] = queue_[c]
                               \/ (queue_[c] # <<>> /\ queue_'[c] = Tail(queue_[c]))
      BY <2>1, <3>1 DEF Dequeue, StdTypeOK
    <3>3. \A q \in Seq(Messages) : q # <<>> => Len(Tail(q)) <= Len(q)
      OBVIOUS
    <3>4. \A c \in Consumers : queue_[c] \in Seq(Messages) /\ Len(queue_[c]) \in Nat
      BY DEF StdTypeOK
    <3> QED
      <4> SUFFICES ASSUME NEW c \in Consumers PROVE Len(queue_'[c]) <= Len(queue_[c])
        OBVIOUS
      <4>1. CASE queue_'[c] = queue_[c]
        BY <3>4, <4>1
      <4>2. CASE queue_[c] # <<>> /\ queue_'[c] = Tail(queue_[c])
        BY <3>3, <3>4, <4>2
      <4> QED
        BY <3>2, <4>1, <4>2
  <2>2. CASE UNCHANGED queue_
    BY <2>2 DEF StdTypeOK
  <2> QED
    BY <2>1, <2>2 DEF Receiving, Peek, Wait, Terminated, CallbackReturns, SpuriousWake,
                      shared, mailbox
<1>3. /\ \A u \in Threads \ {t} : pc'[u] = pc[u] /\ consumer'[u] = consumer[u]
           /\ silent'[u] = silent[u] /\ message'[u] = message[u]
      /\ t \in Receivers => ReceiverOK(t)'
      /\ t \in Controllers => ControllerOK(t)'
  <2>1. CASE \E code \in Codes : Return(t, code)
                  /\ (t \in Receivers => message'[t] = None)
                  /\ pc[t] \in {"peek", "dequeue", "callback"}
                  /\ \A u \in Threads \ {t} : message'[u] = message[u]
    BY <1>0, <1>1, <2>1, ReturnBus DEF ReceiverOK, ControllerOK, Registered
  <2>2. CASE Peek(t)
    <3>1. CASE Return(t, "buffer_empty")
      <4>1. UNCHANGED message /\ pc[t] = "peek"
        BY <2>2 DEF Peek, sends
      <4>2. t \in Receivers => message[t] = None
        BY <1>0, <4>1 DEF ReceiverOK
      <4> QED
        BY <1>0, <2>1, <3>1, <4>1, <4>2 DEF Codes
    <3>2. CASE Goto(t, "dequeue") /\ UNCHANGED <<args, returned>>
      BY <1>0, <1>1, <2>2, <3>2
         DEF Peek, Goto, args, sends, ReceiverOK, ControllerOK, Registered, StdTypeOK
    <3> QED
      BY <2>2, <3>1, <3>2 DEF Peek
  <2>3. CASE Dequeue(t)
    <3>1. CASE silent[t]
      <4>1. t \notin Receivers /\ UNCHANGED message /\ pc[t] = "dequeue" /\ Return(t, "ok")
        BY <1>0, <2>3, <3>1 DEF Dequeue, ReceiverOK
      <4> QED
        BY <2>1, <4>1 DEF Codes
    <3>2. CASE ~silent[t]
      <4>1. t \in Receivers /\ pc[t] = "dequeue"
        BY <1>0, <2>3, <3>2 DEF Dequeue, ControllerOK
      <4>2. /\ message' = [message EXCEPT ![t] = Head(queue_[consumer[t]])]
            /\ pc' = [pc EXCEPT ![t] = "callback"]
            /\ UNCHANGED args
        BY <2>3, <3>2 DEF Dequeue, Goto
      <4>3. Head(queue_[consumer[t]]) \in Messages
        BY <1>0, <2>3 DEF Dequeue, StdTypeOK, CallsOK
      <4> QED
        BY <1>0, <1>1, <4>1, <4>2, <4>3, StdAssumption
           DEF args, ReceiverOK, Registered, StdTypeOK
    <3> QED
      BY <3>1, <3>2
  <2>4. CASE Wait(t) \/ SpuriousWake(t)
    BY <1>0, <1>1, <2>4 DEF Wait, SpuriousWake, Goto, args, sends, ReceiverOK, ControllerOK,
                            Registered, StdTypeOK
  <2>5. CASE Terminated(t)
    <3>1. t \in Receivers => message[t] = None
      BY <1>0, <2>5 DEF Terminated, ReceiverOK
    <3> QED
      BY <2>1, <2>5, <3>1 DEF Terminated, Codes, sends
  <2>6. CASE CallbackReturns(t)
    <3>1. PICK code \in {"ok", "callback_error"} : Return(t, code)
      BY <2>6 DEF CallbackReturns
    <3> QED
      BY <1>0, <2>1, <2>6, <3>1 DEF CallbackReturns, Codes, StdTypeOK
  <2> QED
    BY <2>2, <2>3, <2>4, <2>5, <2>6 DEF Receiving
<1>4. ClosedPaused' /\ PoolDistinct'
  BY <1>1 DEF BusInv, ClosedPaused, PoolDistinct
<1> QED
  BY <1>1, <1>2, <1>3, <1>4, ThreadBus DEF OnlyWakes, StdTypeOK

\* A call of messaging_consumer_receive.
LEMMA CallBus ==
  ASSUME SoleControl, StdTypeOK, StdTypeOK', BusInv, NEW t \in Receivers, NEW c \in Reads[t],
         NEW block \in BOOLEAN, Receive(t, c, block, FALSE) \/ ReceiveInvalid(t, c)
  PROVE  BusInv'
<1>0. t \in Threads /\ ReceiverOK(t) /\ t \notin Controllers
  BY StdAssumption DEF Threads, BusInv, ReceivesOK
<1>1. UNCHANGED <<message, index, num_consumers, queue_, running, is_paused, consumer_pool>>
  BY DEF Receive, ReceiveInvalid, sends, shared, mailbox
<1>2. /\ \A u \in Threads \ {t} : pc'[u] = pc[u] /\ consumer'[u] = consumer[u]
                                   /\ silent'[u] = silent[u]
      /\ ReceiverOK(t)'
  BY <1>0, <1>1 DEF Receive, ReceiveInvalid, Call, Goto, args, ReceiverOK, Registered, StdTypeOK
<1>3. ClosedPaused' /\ PoolDistinct'
  BY <1>1 DEF BusInv, ClosedPaused, PoolDistinct
<1>4. \A c1 \in Consumers : Len(queue_'[c1]) <= Len(queue_[c1])
  BY <1>1 DEF StdTypeOK
<1> QED
  BY <1>0, <1>1, <1>2, <1>3, <1>4, ThreadBus DEF OnlyWakes, StdTypeOK

\* What a controller begins ...
LEMMA ControlBus ==
  ASSUME SoleControl, StdTypeOK, StdTypeOK', BusInv, NEW t \in Controllers,
         NEW c \in Controls[t], Control(t, c)
  PROVE  BusInv'
<1>0. t \in Threads /\ ControllerOK(t) /\ t \notin Receivers /\ c \in Consumers /\ c \in Own(t)
  BY StdAssumption DEF Threads, BusInv, ControlsOK, Own
<1>1. UNCHANGED <<message, index, num_consumers, queue_>>
  BY DEF Control, Register, RegisterFails, Reopen, Pause, Resume, Terminate, sends, mailbox
<1>2. \A d \in Consumers : Len(queue_'[d]) <= Len(queue_[d])
  BY <1>1 DEF StdTypeOK
<1>3. \A u \in Threads \ {t} : pc'[u] = pc[u] /\ consumer'[u] = consumer[u]
                                /\ silent'[u] = silent[u]
  BY <1>0 DEF Control, Register, RegisterFails, Reopen, Pause, Resume, Terminate, Goto, Call,
              args, StdTypeOK
<1>4. CASE Register(t, c)
  <2>1. consumer_pool' = Append(consumer_pool, c) /\ c \notin Registered /\ pc'[t] = "idle"
        /\ UNCHANGED <<running, is_paused>>
    BY <1>0, <1>4 DEF Register, mailbox
  <2>2. Len(consumer_pool') = Len(consumer_pool) + 1 /\ Len(consumer_pool) \in Nat
        /\ \A j \in 1..Len(consumer_pool) : consumer_pool'[j] = consumer_pool[j]
        /\ consumer_pool'[Len(consumer_pool) + 1] = c
    BY <1>0, <2>1 DEF StdTypeOK
  <2>3. PoolDistinct'
    BY <2>1, <2>2 DEF BusInv, PoolDistinct, Registered
  <2>4. ClosedPaused' /\ ControllerOK(t)'
    BY <2>1 DEF BusInv, ClosedPaused, ControllerOK
  <2> QED
    BY <1>0, <1>1, <1>2, <1>3, <2>1, <2>2, <2>3, <2>4, ThreadBus DEF OnlyWakes
<1>5. CASE ~Register(t, c)
  <2>1. UNCHANGED consumer_pool
    BY <1>5 DEF Control, RegisterFails, Reopen, Pause, Resume, Terminate
  <2>0. Len(consumer_pool) \in Nat
    BY DEF StdTypeOK
  <2>2. PoolDistinct'
    BY <2>1 DEF BusInv, PoolDistinct
  <2>3. /\ \A d \in Consumers \ {c} : running'[d] = running[d] /\ is_paused'[d] = is_paused[d]
        /\ ClosedPaused'
    <3>1. CASE RegisterFails(t, c)
      BY <3>1 DEF RegisterFails, mailbox, BusInv, ClosedPaused
    <3>2. CASE Reopen(t, c)
      BY <1>0, <3>2 DEF Reopen, BusInv, ClosedPaused, StdTypeOK
    <3>3. CASE \E flush_buffer \in BOOLEAN : Pause(t, c, flush_buffer)
      BY <1>0, <3>3 DEF Pause, mailbox, BusInv, ClosedPaused, StdTypeOK
    <3>4. CASE Resume(t, c)
      BY <1>0, <3>4 DEF Resume, mailbox, BusInv, ClosedPaused, StdTypeOK
    <3>5. CASE Terminate(t, c)
      BY <1>0, <3>5 DEF Terminate, mailbox, BusInv, ClosedPaused, StdTypeOK
    <3> QED
      BY <1>5, <3>1, <3>2, <3>3, <3>4, <3>5 DEF Control
  <2>4. ControllerOK(t)'
    <3>1. CASE RegisterFails(t, c) \/ Resume(t, c)
      BY <1>0, <3>1 DEF RegisterFails, Resume, ControllerOK
    <3>2. CASE Reopen(t, c)
      BY <1>0, <2>1, <3>2 DEF Reopen, Call, Goto, ControllerOK, Registered, StdTypeOK
    <3>3. ASSUME NEW flush_buffer \in BOOLEAN, Pause(t, c, flush_buffer) PROVE ControllerOK(t)'
      BY <1>0, <2>1, <3>3 DEF Pause, Call, Goto, args, ControllerOK, Registered, StdTypeOK
    <3>4. CASE Terminate(t, c)
      BY <1>0, <2>1, <3>4 DEF Terminate, Call, Goto, ControllerOK, Registered, StdTypeOK
    <3> QED
      BY <1>5, <3>1, <3>2, <3>3, <3>4 DEF Control
  <2> QED
    BY <1>0, <1>1, <1>2, <1>3, <2>0, <2>1, <2>2, <2>3, <2>4, ThreadBus DEF OnlyWakes
<1> QED
  BY <1>4, <1>5

\* ... and how it ends.
LEMMA ControlEndBus ==
  ASSUME SoleControl, StdTypeOK, StdTypeOK', BusInv, NEW t \in Controllers,
         Unpause(t) \/ Close(t)
  PROVE  BusInv'
<1>0. t \in Threads /\ ControllerOK(t) /\ t \notin Receivers /\ pc[t] \in {"unpause", "close"}
  BY StdAssumption DEF Threads, BusInv, ControlsOK, Unpause, Close
<1> SUFFICES ASSUME NEW c \in Consumers, c = consumer[t], c \in Own(t) PROVE BusInv'
  BY <1>0, StdAssumption DEF ControllerOK, Own
<1>1. UNCHANGED <<message, index, num_consumers, queue_, consumer_pool>>
      /\ Len(consumer_pool) \in Nat /\ \A d \in Consumers : Len(queue_[d]) \in Nat
  BY DEF Unpause, Close, sends, mailbox, StdTypeOK
<1>2. \A u \in Threads \ {t} : OnlyWakes(u) /\ consumer'[u] = consumer[u] /\ silent'[u] = silent[u]
  BY <1>0 DEF Unpause, Close, NotifyAll, Waiting, OnlyWakes, EndCall, Call, Goto, StdTypeOK
<1>3. ControllerOK(t)'
  BY <1>0 DEF Unpause, Close, NotifyAll, ControllerOK, EndCall, Call, Goto, StdTypeOK
<1>4. PoolDistinct'
  BY <1>1 DEF BusInv, PoolDistinct
<1>5. \A d \in Consumers \ {c} : running'[d] = running[d] /\ is_paused'[d] = is_paused[d]
  BY DEF Unpause, Close, mailbox, StdTypeOK
<1>6. ClosedPaused'
  BY <1>0 DEF Unpause, Close, mailbox, StdTypeOK, BusInv, ClosedPaused, ControllerOK
<1> QED
  BY <1>0, <1>1, <1>2, <1>3, <1>4, <1>5, <1>6, ThreadBus

\* The bus that the desktop core implements keeps its invariant.
LEMMA BusKept == ASSUME SoleControl PROVE Spec => []BusInv
<1>1. Init => BusInv
  <2> SUFFICES ASSUME Init PROVE BusInv
    OBVIOUS
  <2>1. PoolDistinct /\ SendsOK /\ ReceivesOK /\ ControlsOK /\ ClosedPaused
    BY DEF Init, PoolDistinct, SendsOK, ReceivesOK, ReceiverOK, ControlsOK, ControllerOK,
           ClosedPaused, Threads
  <2>2. RoomOK
    <3> SUFFICES ASSUME NEW c \in Consumers
                 PROVE  Len(queue_[c]) + Cardinality(Offering(c)) <= MaxQueue + Cardinality(Senders)
      BY DEF RoomOK
    <3>1. Len(queue_[c]) = 0 /\ Offering(c) = {}
      BY DEF Init, Offering, Threads
    <3>2. Cardinality(Offering(c)) = 0 /\ Cardinality(Senders) \in Nat /\ MaxQueue \in Nat
      BY <3>1, StdAssumption, FS_EmptySet, FS_Subset, FS_CardinalityType DEF Threads
    <3> QED
      BY <3>1, <3>2
  <2> QED
    BY <2>1, <2>2 DEF BusInv
<1>2. StdTypeOK /\ StdTypeOK' /\ BusInv /\ [Next]_vars => BusInv'
  <2> SUFFICES ASSUME StdTypeOK, StdTypeOK', BusInv, [Next]_vars PROVE BusInv'
    OBVIOUS
  <2>1. CASE \E s \in Senders : BeginSend(s) \/ AllocFails(s) \/ Sending(s)
    BY <2>1, SendBus
  <2>2. CASE \E t \in Receivers : \E c \in Reads[t] :
               \/ \E block \in BOOLEAN : Receive(t, c, block, FALSE)
               \/ ReceiveInvalid(t, c)
    BY <2>2, CallBus
  <2>3. CASE \E t \in Controllers : \E c \in Controls[t] : Control(t, c)
    BY <2>3, ControlBus
  <2>4. CASE \E t \in Controllers : Unpause(t) \/ Close(t)
    BY <2>4, ControlEndBus
  <2>5. CASE \E t \in Receivers \cup Controllers : Receiving(t) \/ SpuriousWake(t)
    BY <2>5, ReceivingBus
  <2>6. CASE UNCHANGED vars
    BY <2>6 DEF vars, args, sends, shared, mailbox, BusInv, PoolDistinct, SendsOK, ReceivesOK,
                ReceiverOK, ControlsOK, ControllerOK, ClosedPaused, RoomOK, Offering, Todo,
                Target, Registered
  <2> QED
    BY <2>1, <2>2, <2>3, <2>4, <2>5, <2>6 DEF Next
<1> QED
  BY <1>1, <1>2, StdTypeCorrect, PTL DEF Spec

\* A send that has a message, as the bus sees it: the record of that message and of
\* the consumers still to visit.
LEMMA SendOfBus ==
  ASSUME StdTypeOK, BusInv, NEW s \in Senders, message[s] # None
  PROVE  /\ BusSend(s) = [message |-> message[s], todo |-> Todo(s),
                          failed |-> FALSE, room |-> "unknown"]
         /\ BusSend(s) # None
<1>1. BusSend(s) = [message |-> message[s], todo |-> Todo(s), failed |-> FALSE, room |-> "unknown"]
  BY DEF BusSend, Todo
<1>2. message[s] \in Messages
  BY DEF StdTypeOK, Threads
<1>3. Todo(s) \in SUBSET Consumers
  BY DEF Todo, StdTypeOK, CallsOK
<1>4. BusSend(s) \in Bus!Sends
  BY <1>1, <1>2, <1>3 DEF Bus!Sends
<1> QED
  BY <1>1, <1>4, BusAssumption

\* Moving on from a consumer is the bus's visit of it.
LEMMA MovesOn ==
  ASSUME StdTypeOK, BusInv, NEW s \in Senders, index[s] <= num_consumers[s], message[s] # None,
         index'[s] = index[s] + 1, num_consumers'[s] = num_consumers[s],
         message'[s] = message[s], UNCHANGED consumer_pool,
         NEW c, c = Target(s)
  PROVE  /\ c \in Consumers /\ c \in BusSend(s).todo /\ BusSend(s).message = message[s]
         /\ BusSend(s).room = "unknown"
         /\ BusSend(s)' = [BusSend(s) EXCEPT !.todo = @ \ {c}, !.room = "unknown"]
<1>1. /\ BusSend(s) = [message |-> message[s], todo |-> Todo(s),
                       failed |-> FALSE, room |-> "unknown"]
  BY SendOfBus
<1>2. c \in Consumers /\ c \in Todo(s)
      /\ {consumer_pool[j] : j \in index[s] + 1 .. num_consumers[s]} = Todo(s) \ {c}
  BY TodoVisited DEF BusInv
<1>3. BusSend(s)' = [message |-> message[s], todo |-> Todo(s) \ {c},
                     failed |-> FALSE, room |-> "unknown"]
  BY <1>2 DEF BusSend
<1>4. [BusSend(s) EXCEPT !.todo = @ \ {c}, !.room = "unknown"] =
        [message |-> message[s], todo |-> Todo(s) \ {c}, failed |-> FALSE, room |-> "unknown"]
  <2> DEFINE f == FALSE
             R == BusSend(s)
             R1 == [message |-> message[s], todo |-> Todo(s) \ {c}, failed |-> f,
                    room |-> "unknown"]
  <2>1. R = [message |-> message[s], todo |-> Todo(s), failed |-> f, room |-> "unknown"]
    BY <1>1
  <2> HIDE DEF f, R
  <2>2. [R EXCEPT !.todo = @ \ {c}] = R1
    BY <2>1
  <2>3. [R1 EXCEPT !.room = "unknown"] = R1
    OBVIOUS
  <2>4. [R EXCEPT !.todo = @ \ {c}, !.room = "unknown"] =
          [[R EXCEPT !.todo = @ \ {c}] EXCEPT !.room = "unknown"]
    OBVIOUS
  <2>5. [R EXCEPT !.todo = @ \ {c}, !.room = "unknown"] = R1
    BY <2>2, <2>3, <2>4
  <2> QED
    BY <2>5 DEF f, R
<1> QED
  BY <1>1, <1>2, <1>3, <1>4

\* A step of messaging_producer_send is one of the bus; a mailbox that has been
\* closed is passed over because its consumer is paused.
LEMMA SendStdRefines ==
  ASSUME StdTypeOK, StdTypeOK', BusInv, NEW s \in Senders,
         BeginSend(s) \/ AllocFails(s) \/ Sending(s)
  PROVE  Bus!Next \/ UNCHANGED Bus!busVars
<1> USE StdAssumption DEF Threads, Goto, args, shared, mailbox, sends
<1> DEFINE Sends == [u \in Senders |-> BusSend(u)]
           InHands == [t \in Receivers |-> message[t]]
           Error == component_state = "error"
<1>1. /\ UNCHANGED <<consumer_pool, is_paused>> /\ Registered' = Registered
      /\ \A t \in Threads : t # s => message'[t] = message[t]
      /\ \A u \in Senders : u # s => index'[u] = index[u] /\ num_consumers'[u] = num_consumers[u]
  BY DEF BeginSend, AllocFails, Sending, Skip, Select, Enqueue, EndSend, StdTypeOK, Registered
<1>2. InHands' = InHands
  BY <1>1
<1>3. \A u \in Senders : u # s => BusSend(u)' = BusSend(u)
  <2> SUFFICES ASSUME NEW u \in Senders, u # s PROVE BusSend(u)' = BusSend(u)
    OBVIOUS
  <2>1. /\ message'[u] = message[u] /\ index'[u] = index[u]
        /\ num_consumers'[u] = num_consumers[u] /\ consumer_pool' = consumer_pool
    BY <1>1
  <2> QED
    BY <2>1 DEF BusSend
<1>4. \A v : BusSend(s)' = v => Sends' = [Sends EXCEPT ![s] = v]
  BY <1>3
<1>5. BusSend(s)' = BusSend(s) => Sends' = Sends
  BY <1>3
<1>6. CASE BeginSend(s)
  <2>1. PICK m \in Messages : message' = [message EXCEPT ![s] = m]
    BY <1>6 DEF BeginSend
  <2>2. /\ message[s] = None /\ message'[s] = m /\ m # None /\ queue_' = queue_ /\ Error' = Error
        /\ index'[s] = 1 /\ num_consumers'[s] = Len(consumer_pool)
    BY <1>6, <2>1 DEF BeginSend, StdTypeOK, BusInv, SendsOK
  <2>3. BusSend(s) = None
    BY <2>2 DEF BusSend
  <2>4. BusSend(s)' = [message |-> m, todo |-> Registered, failed |-> FALSE, room |-> "unknown"]
    BY <1>1, <2>2 DEF BusSend, Registered
  <2>5. Bus!Begin(s)
    BY <1>1, <1>2, <1>4, <2>2, <2>3, <2>4 DEF Bus!Begin
  <2> QED
    BY <2>5 DEF Bus!Next
<1>7. CASE AllocFails(s)
  <2>1. Error' /\ queue_' = queue_ /\ BusSend(s)' = BusSend(s)
    BY <1>7 DEF AllocFails, BusSend
  <2>2. Bus!Fail
    BY <1>1, <1>2, <1>5, <2>1 DEF Bus!Fail
  <2> QED
    BY <2>2 DEF Bus!Next
<1>8. CASE Skip(s)
  <2>1. /\ index[s] <= num_consumers[s] /\ message[s] # None /\ index'[s] = index[s] + 1
        /\ num_consumers' = num_consumers /\ message' = message /\ queue_' = queue_
        /\ Error' = Error /\ (is_paused[Target(s)] \/ message[s] \notin Accepts[Target(s)])
    BY <1>8 DEF Skip, Wants, StdTypeOK, BusInv, SendsOK
  <2>2. PICK c \in Consumers : c = Target(s)
    BY <2>1, TodoVisited DEF BusInv
  <2>3. /\ c \in BusSend(s).todo /\ BusSend(s).message = message[s]
        /\ BusSend(s).room = "unknown" /\ BusSend(s) # None
        /\ BusSend(s)' = [BusSend(s) EXCEPT !.todo = @ \ {c}, !.room = "unknown"]
    BY <1>1, <2>1, <2>2, MovesOn, SendOfBus
  <2>4. BusSend(s)' = Bus!Visited(s, c)
    BY <2>3 DEF Bus!Visited
  <2>5. Bus!PassOver(s, c)
    BY <1>1, <1>2, <1>4, <2>1, <2>2, <2>3, <2>4 DEF Bus!PassOver
  <2> QED
    BY <2>5 DEF Bus!Next
<1>9. CASE Select(s)
  <2>1. queue_' = queue_ /\ Error' = Error /\ BusSend(s)' = BusSend(s)
    BY <1>9 DEF Select, BusSend
  <2> QED
    BY <1>1, <1>2, <1>5, <2>1 DEF Bus!busVars
<1>10. CASE Enqueue(s)
  <2>1. /\ index[s] <= num_consumers[s] /\ message[s] # None /\ index'[s] = index[s] + 1
        /\ num_consumers' = num_consumers /\ message' = message
        /\ Error' = Error /\ message[s] \in Accepts[Target(s)]
    BY <1>10 DEF Enqueue, StdTypeOK, CallsOK, BusInv, SendsOK
  <2>2. PICK c \in Consumers : c = Target(s)
    BY <2>1, TodoVisited DEF BusInv
  <2>3. /\ c \in BusSend(s).todo /\ BusSend(s).message = message[s]
        /\ BusSend(s).room = "unknown" /\ BusSend(s) # None
        /\ BusSend(s)' = [BusSend(s) EXCEPT !.todo = @ \ {c}, !.room = "unknown"]
    BY <1>1, <2>1, <2>2, MovesOn, SendOfBus
  <2>4. BusSend(s)' = Bus!Visited(s, c)
    BY <2>3 DEF Bus!Visited
  <2>5. CASE running[c]
    <3>1. queue_' = [queue_ EXCEPT ![c] = Append(@, message[s])]
      BY <1>10, <2>2, <2>5 DEF Enqueue
    <3>2. Len(queue_[c]) < MaxQueue + Cardinality(Senders)
      <4>1. s \in Offering(c) /\ IsFiniteSet(Offering(c))
        <5>1. s \in Offering(c)
          BY <2>1, <2>2, TodoVisited DEF BusInv, Offering
        <5>2. Offering(c) \subseteq Senders /\ IsFiniteSet(Senders)
          BY FS_Subset DEF Offering
        <5> QED
          BY <5>1, <5>2, FS_Subset
      <4>2. Cardinality(Offering(c)) \in Nat /\ Cardinality(Offering(c)) # 0
        BY <4>1, FS_EmptySet, FS_CardinalityType
      <4>3. Cardinality(Senders) \in Nat
        BY FS_Subset, FS_CardinalityType
      <4>4. Len(queue_[c]) \in Nat
        BY DEF StdTypeOK
      <4> QED
        BY <4>2, <4>3, <4>4 DEF BusInv, RoomOK
    <3>3. Bus!Enqueue(s, c)
      BY <1>1, <1>2, <1>4, <2>1, <2>2, <2>3, <2>4, <3>1, <3>2 DEF Bus!Enqueue
    <3> QED
      BY <3>3 DEF Bus!Next
  <2>6. CASE ~running[c]
    <3>1. queue_' = queue_ /\ is_paused[c]
      BY <1>10, <2>2, <2>6 DEF Enqueue, BusInv, ClosedPaused
    <3>2. Bus!PassOver(s, c)
      BY <1>1, <1>2, <1>4, <2>1, <2>2, <2>3, <2>4, <3>1 DEF Bus!PassOver
    <3> QED
      BY <3>2 DEF Bus!Next
  <2> QED
    BY <2>5, <2>6
<1>11. CASE EndSend(s)
  <2>1. /\ index[s] > num_consumers[s] /\ message[s] # None /\ message'[s] = None
        /\ queue_' = queue_ /\ Error' = Error
    BY <1>11 DEF EndSend, StdTypeOK, BusInv, SendsOK
  <2>2. Todo(s) = {}
    BY <2>1 DEF Todo, StdTypeOK
  <2>3. BusSend(s).todo = {} /\ BusSend(s).failed = FALSE /\ BusSend(s) # None
    BY <2>1, <2>2, SendOfBus
  <2>4. BusSend(s)' = None
    BY <2>1 DEF BusSend
  <2>5. Bus!End(s)
    BY <1>1, <1>2, <1>4, <2>1, <2>3, <2>4 DEF Bus!End
  <2> QED
    BY <2>5 DEF Bus!Next
<1> QED
  BY <1>6, <1>7, <1>8, <1>9, <1>10, <1>11 DEF Sending

\* What a receiver or a controller does leaves the sends of the bus alone.
LEMMA SendsOfBusKept ==
  ASSUME StdTypeOK,
         UNCHANGED <<index, num_consumers>>, \A s \in Senders : message'[s] = message[s],
         \A j \in 1..Len(consumer_pool) : consumer_pool'[j] = consumer_pool[j]
  PROVE  [s \in Senders |-> BusSend(s)]' = [s \in Senders |-> BusSend(s)]
<1> SUFFICES ASSUME NEW s \in Senders PROVE BusSend(s)' = BusSend(s)
  OBVIOUS
<1>1. Todo(s)' = Todo(s)
  BY TodoKept
<1> QED
  BY <1>1 DEF BusSend, Todo

\* A receive hands the head of a mailbox to the callback; a flush throws it away,
\* and is that of a paused consumer.
LEMMA ReceiveStdRefines ==
  ASSUME StdTypeOK, BusInv, NEW t \in Receivers \cup Controllers,
         Receiving(t) \/ SpuriousWake(t)
  PROVE  Bus!Next \/ UNCHANGED Bus!busVars
<1> DEFINE Sends == [u \in Senders |-> BusSend(u)]
           InHands == [u \in Receivers |-> message[u]]
           Error == component_state = "error"
<1>0. t \in Threads /\ t \notin Senders
      /\ (t \in Receivers => ReceiverOK(t) /\ t \notin Controllers)
      /\ (t \in Controllers => ControllerOK(t) /\ t \notin Receivers)
  BY StdAssumption DEF Threads, BusInv, ReceivesOK, ControlsOK
<1>1. /\ UNCHANGED <<index, num_consumers, is_paused, consumer_pool>>
      /\ Registered' = Registered /\ Error' = Error
      /\ \A u \in Threads : u # t => message'[u] = message[u]
  BY DEF Receiving, Peek, Dequeue, Wait, Terminated, CallbackReturns, SpuriousWake, sends,
         shared, mailbox, Registered, StdTypeOK
<1>2. Sends' = Sends
  BY <1>0, <1>1, SendsOfBusKept DEF Threads
<1>3. CASE Dequeue(t)
  <2>1. PICK c \in Consumers : c = consumer[t]
    BY <1>3 DEF Dequeue, StdTypeOK, CallsOK, Threads
  <2>2. queue_[c] # <<>> /\ queue_' = [queue_ EXCEPT ![c] = Tail(@)]
    BY <1>3, <2>1 DEF Dequeue
  <2>3. CASE silent[t]
    <3>1. t \in Controllers /\ is_paused[c] /\ message' = message
      BY <1>0, <1>3, <2>1, <2>3 DEF Dequeue, ReceiverOK, ControllerOK
    <3>2. Bus!Flush(c)
      BY <1>1, <1>2, <2>2, <3>1 DEF Bus!Flush
    <3> QED
      BY <3>2 DEF Bus!Next
  <2>4. CASE ~silent[t]
    <3>1. t \in Receivers /\ message[t] = None /\ c \in Registered
      BY <1>0, <1>3, <2>1, <2>4 DEF Dequeue, ReceiverOK, ControllerOK
    <3>2. message' = [message EXCEPT ![t] = Head(queue_[c])]
      BY <1>3, <2>1, <2>4 DEF Dequeue
    <3>3. InHands' = [InHands EXCEPT ![t] = Head(queue_[c])]
      BY <3>1, <3>2 DEF StdTypeOK, Threads
    <3>4. Bus!Deliver(t, c)
      BY <1>1, <1>2, <2>2, <3>1, <3>3 DEF Bus!Deliver
    <3> QED
      BY <3>1, <3>4 DEF Bus!Next
  <2> QED
    BY <2>3, <2>4
<1>4. CASE CallbackReturns(t)
  <2>1. t \in Receivers /\ message[t] # None /\ queue_' = queue_
        /\ message' = [message EXCEPT ![t] = None]
    BY <1>0, <1>4 DEF CallbackReturns, ReceiverOK, ControllerOK, shared, mailbox
  <2>2. InHands' = [InHands EXCEPT ![t] = None]
    BY <2>1 DEF StdTypeOK, Threads
  <2>3. Bus!Done(t)
    BY <1>1, <1>2, <2>1, <2>2 DEF Bus!Done
  <2> QED
    BY <2>1, <2>3 DEF Bus!Next
<1>5. CASE Peek(t) \/ Wait(t) \/ Terminated(t) \/ SpuriousWake(t)
  <2>1. message' = message /\ queue_' = queue_
    BY <1>5 DEF Peek, Wait, Terminated, SpuriousWake, sends, shared, mailbox
  <2> QED
    BY <1>1, <1>2, <2>1 DEF Bus!busVars
<1> QED
  BY <1>3, <1>4, <1>5 DEF Receiving

\* Registering, pausing, resuming, closing and reopening are what the bus calls
\* registering and pausing; a call that fails is an error of the bus.
LEMMA ControlStdRefines ==
  ASSUME StdTypeOK, BusInv, NEW t \in Receivers \cup Controllers,
         \/ t \in Receivers /\ \E c \in Reads[t] :
               \/ \E block \in BOOLEAN : Receive(t, c, block, FALSE)
               \/ ReceiveInvalid(t, c)
         \/ t \in Controllers /\ \E c \in Controls[t] : Control(t, c)
         \/ t \in Controllers /\ (Unpause(t) \/ Close(t))
  PROVE  Bus!Next \/ UNCHANGED Bus!busVars
<1> DEFINE Sends == [u \in Senders |-> BusSend(u)]
           InHands == [u \in Receivers |-> message[u]]
           Error == component_state = "error"
<1> USE DEF sends, shared, mailbox
<1>1. UNCHANGED <<message, index, num_consumers, queue_>>
  BY DEF Receive, ReceiveInvalid, Control, Register, RegisterFails, Reopen, Pause, Resume,
         Terminate, Unpause, Close
<1>2. InHands' = InHands
  BY <1>1
<1>3. ASSUME UNCHANGED <<consumer_pool, is_paused>> PROVE Bus!Next \/ UNCHANGED Bus!busVars
  <2>1. Registered' = Registered /\ Sends' = Sends
    BY <1>1, <1>3, SendsOfBusKept DEF Registered
  <2>2. Error' = Error \/ Error'
    BY DEF Receive, ReceiveInvalid, Control, Register, RegisterFails, Reopen, Pause, Resume,
           Terminate, Unpause, Close
  <2>3. CASE Error' = Error
    BY <1>1, <1>2, <1>3, <2>1, <2>3 DEF Bus!busVars
  <2>4. CASE Error'
    <3>1. Bus!Fail
      BY <1>1, <1>2, <1>3, <2>1, <2>4 DEF Bus!Fail
    <3> QED
      BY <3>1 DEF Bus!Next
  <2> QED
    BY <2>2, <2>3, <2>4
<1>4. ASSUME UNCHANGED <<consumer_pool, component_state>>,
             NEW c \in Consumers, c \in Registered, NEW p \in BOOLEAN,
             is_paused' = [is_paused EXCEPT ![c] = p]
      PROVE  Bus!Next \/ UNCHANGED Bus!busVars
  <2>1. Registered' = Registered /\ Sends' = Sends
    BY <1>1, <1>4, SendsOfBusKept DEF Registered
  <2>2. Bus!SetPaused(c)
    BY <1>1, <1>2, <1>4, <2>1 DEF Bus!SetPaused
  <2> QED
    BY <2>2 DEF Bus!Next
<1>5. ASSUME NEW c \in Consumers, Register(t, c) PROVE Bus!Next \/ UNCHANGED Bus!busVars
  <2>1. /\ c \notin Registered /\ consumer_pool' = Append(consumer_pool, c)
        /\ UNCHANGED <<is_paused, component_state>>
    BY <1>5 DEF Register
  <2>2. /\ Len(consumer_pool) \in Nat /\ Len(consumer_pool') = Len(consumer_pool) + 1
        /\ \A j \in 1..Len(consumer_pool) : consumer_pool'[j] = consumer_pool[j]
        /\ consumer_pool'[Len(consumer_pool) + 1] = c
    BY <2>1 DEF StdTypeOK
  <2>3. Registered' = Registered \cup {c} /\ Sends' = Sends
    <3>1. 1..Len(consumer_pool') = (1..Len(consumer_pool)) \cup {Len(consumer_pool) + 1}
      BY <2>2
    <3> QED
      BY <1>1, <2>2, <3>1, SendsOfBusKept DEF Registered
  <2>4. Bus!Register(c)
    BY <1>1, <1>2, <2>1, <2>3 DEF Bus!Register
  <2> QED
    BY <2>4 DEF Bus!Next
<1>6. CASE t \in Receivers /\ \E c \in Reads[t] :
               \/ \E block \in BOOLEAN : Receive(t, c, block, FALSE)
               \/ ReceiveInvalid(t, c)
  BY <1>3, <1>6 DEF Receive, ReceiveInvalid
<1>7. ASSUME t \in Controllers, NEW c \in Controls[t], Control(t, c)
      PROVE  Bus!Next \/ UNCHANGED Bus!busVars
  <2>0. c \in Consumers
    BY <1>7, StdAssumption
  <2>1. CASE Register(t, c)
    BY <1>5, <2>0, <2>1
  <2>2. CASE RegisterFails(t, c) \/ Reopen(t, c)
    BY <1>3, <2>2 DEF RegisterFails, Reopen
  <2>3. CASE \E flush_buffer \in BOOLEAN : Pause(t, c, flush_buffer)
    BY <1>4, <2>0, <2>3 DEF Pause
  <2>4. CASE Resume(t, c)
    BY <1>4, <2>0, <2>4 DEF Resume
  <2>5. CASE Terminate(t, c)
    BY <1>4, <2>0, <2>5 DEF Terminate
  <2> QED
    BY <1>7, <2>1, <2>2, <2>3, <2>4, <2>5 DEF Control
<1>8. ASSUME t \in Controllers, Unpause(t) PROVE Bus!Next \/ UNCHANGED Bus!busVars
  <2>1. consumer[t] \in Consumers /\ consumer[t] \in Registered
    BY <1>8, StdAssumption DEF Unpause, BusInv, ControlsOK, ControllerOK
  <2> QED
    BY <1>4, <1>8, <2>1 DEF Unpause
<1>9. CASE t \in Controllers /\ Close(t)
  BY <1>3, <1>9 DEF Close
<1> QED
  BY <1>6, <1>7, <1>8, <1>9

\* The desktop core implements the bus, whatever its threads do and whenever its
\* consumers are closed and opened again, as long as each has one controller.
THEOREM StdBusImplemented == ASSUME SoleControl PROVE Spec => ImplementsBus
<1>1. Init => Bus!Init
  <2> SUFFICES ASSUME Init PROVE Bus!Init
    OBVIOUS
  <2>1. Registered = {} /\ \A s \in Senders : BusSend(s) = None
    BY DEF Init, Registered, BusSend, Threads
  <2> QED
    BY <2>1 DEF Init, Bus!Init, Threads
<1>2. StdTypeOK /\ StdTypeOK' /\ BusInv /\ [Next]_vars => [Bus!Next]_Bus!busVars
  <2> SUFFICES ASSUME StdTypeOK, StdTypeOK', BusInv, [Next]_vars
               PROVE  Bus!Next \/ UNCHANGED Bus!busVars
    OBVIOUS
  <2>1. CASE \E s \in Senders : BeginSend(s) \/ AllocFails(s) \/ Sending(s)
    BY <2>1, SendStdRefines
  <2>2. CASE \E t \in Receivers \cup Controllers : Receiving(t) \/ SpuriousWake(t)
    BY <2>2, ReceiveStdRefines
  <2>3. CASE \E t \in Receivers : \E c \in Reads[t] :
               \/ \E block \in BOOLEAN : Receive(t, c, block, FALSE)
               \/ ReceiveInvalid(t, c)
    BY <2>3, ControlStdRefines
  <2>4. CASE \E t \in Controllers : \E c \in Controls[t] : Control(t, c)
    BY <2>4, ControlStdRefines
  <2>5. CASE \E t \in Controllers : Unpause(t) \/ Close(t)
    BY <2>5, ControlStdRefines
  <2>6. CASE UNCHANGED vars
    BY <2>6 DEF vars, args, sends, shared, mailbox, Bus!busVars, BusSend, Registered
  <2> QED
    BY <2>1, <2>2, <2>3, <2>4, <2>5, <2>6 DEF Next
<1> QED
  BY <1>1, <1>2, StdTypeCorrect, BusKept, PTL DEF Spec, ImplementsBus, Bus!Spec
=============================================================================
