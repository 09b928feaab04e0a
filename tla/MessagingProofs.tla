-------------------------- MODULE MessagingProofs ---------------------------
(***************************************************************************)
(* Theorems about Messaging, for every number of threads, consumers,       *)
(* references and packets and every mailbox size: the reference counts and *)
(* what they protect, and that messaging.c implements MessageBus.          *)
(***************************************************************************)
EXTENDS Messaging, FiniteSetTheorems, TLAPS

\* What typing needs: the values, the program counters they go with, and what a thread
\* between its two frees has.
TypeInv == TypeOK /\ LocalsOK /\ ReturningOK

\* The state of messaging.c that start-up leaves is well typed.
LEMMA TypeInvInit == Init => TypeInv
  BY ThreadAssumption, MemoryAssumption, ConsumerAssumption
  DEF Init, TypeInv, TypeOK, LocalsOK, ReturningOK, Labels, Threads

\* The locals of a sender fit its program counter.
SenderLocals(s) ==
  /\ (ref[s] # None) <=>
       (pc[s] \in {"filter", "post", "drop", "drop_release", "repost", "retain"})
  /\ (packet[s] # None) <=> (pc[s] = "create")
  /\ pc[s] \in {"post", "drop", "drop_release", "repost", "retain"} =>
       index[s] <= num_consumers[s]
  /\ num_consumers[s] <= Len(consumer_pool)

\* A step of one sender keeps everyone's locals in order if it keeps its own.
LEMMA SenderLocalsStep ==
  ASSUME LocalsOK, NEW s \in Senders, SenderLocals(s)', UNCHANGED consumer_pool,
         \A u \in Senders : u # s =>
           pc'[u] = pc[u] /\ ref'[u] = ref[u] /\ packet'[u] = packet[u]
           /\ index'[u] = index[u] /\ num_consumers'[u] = num_consumers[u],
         \A u \in Threads : u # s => pc'[u] = pc[u] /\ fetched'[u] = fetched[u],
         (fetched'[s] # None) <=> (pc'[s] \in {"drop_release", "callback", "flush_release"})
  PROVE  LocalsOK'
<1>1. \A u \in Senders : u # s => SenderLocals(u)'
  BY DEF LocalsOK, SenderLocals
<1>2. \A u \in Senders : SenderLocals(u)'
  BY <1>1
<1>3. \A u \in Threads :
        (fetched'[u] # None) <=> (pc'[u] \in {"drop_release", "callback", "flush_release"})
  BY DEF LocalsOK
<1>4. \A c \in Consumers : pc'[c] \notin {"idle", "create", "filter", "post", "drop",
                                           "drop_release", "repost", "retain"}
  BY ThreadAssumption DEF LocalsOK, Threads
<1> QED
  BY <1>2, <1>3, <1>4 DEF LocalsOK, SenderLocals

\* ... and so does a step of a consumer's thread.
LEMMA ConsumerLocalsStep ==
  ASSUME LocalsOK, NEW c \in Consumers, Len(consumer_pool') >= Len(consumer_pool),
         Len(consumer_pool) \in Nat, Len(consumer_pool') \in Nat,
         num_consumers \in [Senders -> Nat],
         UNCHANGED <<ref, packet, index, num_consumers>>,
         \A u \in Threads : u # c => pc'[u] = pc[u] /\ fetched'[u] = fetched[u],
         (fetched'[c] # None) <=> (pc'[c] \in {"drop_release", "callback", "flush_release"}),
         pc'[c] \notin {"idle", "create", "filter", "post", "drop", "drop_release", "repost",
                        "retain"}
  PROVE  LocalsOK'
<1>1. \A u \in Senders : pc'[u] = pc[u]
  BY ThreadAssumption DEF Threads
<1>2. \A u \in Senders : SenderLocals(u)'
  <2> TAKE u \in Senders
  <2>1. SenderLocals(u)
    BY DEF LocalsOK, SenderLocals
  <2>2. num_consumers[u] \in Nat
    OBVIOUS
  <2> QED
    BY <1>1, <2>1, <2>2 DEF SenderLocals
<1>3. \A u \in Threads :
        (fetched'[u] # None) <=> (pc'[u] \in {"drop_release", "callback", "flush_release"})
  BY DEF LocalsOK
<1>4. \A d \in Consumers : pc'[d] \notin {"idle", "create", "filter", "post", "drop",
                                           "drop_release", "repost", "retain"}
  BY DEF LocalsOK, Threads
<1> QED
  BY <1>2, <1>3, <1>4 DEF LocalsOK, SenderLocals

\* telemetry_reference_release keeps the types of what it changes.
LEMMA ReleaseTyping ==
  ASSUME TypeOK, NEW t \in Threads, NEW r \in Refs, Release(t, r)
  PROVE  reference_count' \in [Refs -> Int] /\ freeing' \in [Threads -> Refs \cup {None}]
<1>1. reference_count \in [Refs -> Int] /\ reference_count[r] - 1 \in Int
  BY DEF TypeOK
<1>2. reference_count' = [reference_count EXCEPT ![r] = reference_count[r] - 1]
  BY DEF Release
<1>3. freeing \in [Threads -> Refs \cup {None}]
  BY DEF TypeOK
<1>4. \E v \in {r, None} : freeing' = [freeing EXCEPT ![t] = v]
  BY DEF Release
<1> QED
  BY <1>1, <1>2, <1>3, <1>4

\* A step of messaging_send keeps the types.
LEMMA SendTyping ==
  ASSUME TypeInv, NEW s \in Senders, Sender(s)
  PROVE  TypeOK' /\ LocalsOK'
<1> USE MemoryAssumption DEF At, Goto, shared, locals
<1>0. /\ pc \in [Threads -> Labels] /\ packet \in [Senders -> Packets \cup {None}]
      /\ ref \in [Senders -> Refs \cup {None}] /\ index \in [Senders -> Nat \ {0}]
      /\ num_consumers \in [Senders -> Nat] /\ fetched \in [Threads -> Refs \cup {None}]
      /\ consumer_pool \in Seq(Consumers) /\ ref_pool \subseteq Refs
      /\ mailbox \in [Consumers -> Seq(Refs)]
  BY DEF TypeInv, TypeOK
<1>a. /\ SenderLocals(s) /\ s \in Threads
      /\ (fetched[s] # None) <=> (pc[s] \in {"drop_release", "callback", "flush_release"})
  BY DEF TypeInv, LocalsOK, SenderLocals, Threads
<1>b. LocalsOK
  BY DEF TypeInv
<1>c. pc[s] \in {"post", "drop", "drop_release", "repost"} => Target(s) \in Consumers
  BY <1>0, <1>a DEF SenderLocals, Target
<1>1. CASE Alloc(s)
  <2>1. TypeOK'
    BY <1>1, <1>a DEF telemetry_allocator_alloc, Alloc, TypeInv, TypeOK, Labels
  <2>2. LocalsOK'
    BY <1>1, <1>0, <1>a, <1>b, SenderLocalsStep DEF telemetry_allocator_alloc, Alloc, SenderLocals
  <2> QED
    BY <2>1, <2>2
<1>2. CASE AllocFails(s)
  <2>1. TypeOK'
    BY <1>2, <1>a DEF AllocFails, TypeInv, TypeOK, Labels
  <2>2. LocalsOK'
    BY <1>2, <1>0, <1>a, <1>b, SenderLocalsStep DEF AllocFails, SenderLocals
  <2> QED
    BY <2>1, <2>2
<1>3. CASE CreateRef(s)
  <2>1. TypeOK'
    BY <1>3, <1>a DEF CreateRef, TypeInv, TypeOK, Labels
  <2>2. LocalsOK'
    <3>1. PICK q \in ref_pool : ref' = [ref EXCEPT ![s] = q]
      BY <1>3 DEF CreateRef
    <3>2. ref'[s] # None /\ \A u \in Senders : u # s => ref'[u] = ref[u]
      BY <1>0, <3>1
    <3>3. /\ pc' = [pc EXCEPT ![s] = "filter"] /\ packet' = [packet EXCEPT ![s] = None]
          /\ num_consumers' = [num_consumers EXCEPT ![s] = Len(consumer_pool)]
          /\ index' = [index EXCEPT ![s] = 1]
          /\ UNCHANGED <<consumer_pool, fetched>> /\ pc[s] = "create"
      BY <1>3 DEF CreateRef
    <3>4. Len(consumer_pool) \in Nat
      BY <1>0
    <3>5. SenderLocals(s)'
      BY <1>0, <1>a, <3>2, <3>3, <3>4 DEF SenderLocals
    <3> QED
      BY <1>0, <1>a, <1>b, <3>2, <3>3, <3>5, SenderLocalsStep
  <2> QED
    BY <2>1, <2>2
<1>4. CASE CreateRefFails(s)
  <2>1. TypeOK'
    BY <1>4, <1>a DEF telemetry_allocator_free, CreateRefFails, TypeInv, TypeOK, Labels
  <2>2. LocalsOK'
    BY <1>4, <1>0, <1>a, <1>b, SenderLocalsStep
    DEF telemetry_allocator_free, CreateRefFails, SenderLocals
  <2> QED
    BY <2>1, <2>2
<1>5. CASE Skip(s)
  <2>1. TypeOK'
    BY <1>5, <1>a DEF Skip, NextConsumer, TypeInv, TypeOK, Labels
  <2>2. LocalsOK'
    BY <1>5, <1>0, <1>a, <1>b, SenderLocalsStep DEF Skip, NextConsumer, SenderLocals
  <2> QED
    BY <2>1, <2>2
<1>6. CASE Select(s)
  <2>1. TypeOK'
    BY <1>6, <1>a DEF Select, TypeInv, TypeOK, Labels
  <2>2. LocalsOK'
    BY <1>6, <1>0, <1>a, <1>b, SenderLocalsStep DEF Select, SenderLocals
  <2> QED
    BY <2>1, <2>2
<1>7. CASE Post(s)
  <2>1. TypeOK'
    <3>1. ref[s] \in Refs /\ Target(s) \in Consumers
      BY <1>0, <1>7, <1>a, <1>c DEF Post, SenderLocals
    <3>2. mailbox' \in [Consumers -> Seq(Refs)] /\ pc' \in [Threads -> Labels]
      BY <1>0, <1>7, <1>a, <3>1 DEF Post, Labels
    <3> QED
      BY <1>7, <3>2 DEF Post, TypeInv, TypeOK
  <2>2. LocalsOK'
    BY <1>7, <1>0, <1>a, <1>b, SenderLocalsStep DEF Post, SenderLocals
  <2> QED
    BY <2>1, <2>2
<1>8. CASE PostFails(s)
  <2>1. TypeOK'
    BY <1>8, <1>a DEF PostFails, TypeInv, TypeOK, Labels
  <2>2. LocalsOK'
    BY <1>8, <1>0, <1>a, <1>b, SenderLocalsStep DEF PostFails, SenderLocals
  <2> QED
    BY <2>1, <2>2
<1>9. CASE DropOldest(s)
  <2>1. TypeOK'
    BY <1>9, <1>c, <1>a DEF DropOldest, Fetch, TypeInv, TypeOK, Labels
  <2>2. LocalsOK'
    <3>1. Head(mailbox[Target(s)]) \in Refs
      BY <1>0, <1>9, <1>c DEF DropOldest, Fetch
    <3> QED
      <4>1. /\ pc' = [pc EXCEPT ![s] = "drop_release"]
            /\ fetched' = [fetched EXCEPT ![s] = Head(mailbox[Target(s)])]
            /\ UNCHANGED <<consumer_pool, packet, ref, index, num_consumers>> /\ pc[s] = "drop"
        BY <1>9 DEF DropOldest, Fetch
      <4>2. SenderLocals(s)'
        BY <1>0, <1>a, <4>1 DEF SenderLocals
      <4>3. /\ fetched'[s] # None /\ pc'[s] = "drop_release"
            /\ \A u \in Threads : u # s => pc'[u] = pc[u] /\ fetched'[u] = fetched[u]
        BY <1>0, <1>a, <3>1, <4>1
      <4>4. \A u \in Senders : u \in Threads
        BY DEF Threads
      <4> QED
        BY <1>b, <4>1, <4>2, <4>3, <4>4, SenderLocalsStep
  <2> QED
    BY <2>1, <2>2
<1>10. CASE DropNothing(s)
  <2>1. TypeOK'
    BY <1>10, <1>a DEF DropNothing, TypeInv, TypeOK, Labels
  <2>2. LocalsOK'
    BY <1>10, <1>0, <1>a, <1>b, SenderLocalsStep DEF DropNothing, SenderLocals
  <2> QED
    BY <2>1, <2>2
<1>11. CASE ReleaseDropped(s)
  <2>1. TypeOK'
    BY <1>11, <1>a DEF ReleaseDropped, Release, TypeInv, TypeOK, Labels
  <2>2. LocalsOK'
    BY <1>11, <1>0, <1>a, <1>b, SenderLocalsStep DEF ReleaseDropped, Release, SenderLocals
  <2> QED
    BY <2>1, <2>2
<1>12. CASE RepostFails(s)
  <2>1. TypeOK'
    BY <1>12, <1>a DEF RepostFails, NextConsumer, TypeInv, TypeOK, Labels
  <2>2. LocalsOK'
    BY <1>12, <1>0, <1>a, <1>b, SenderLocalsStep DEF RepostFails, NextConsumer, SenderLocals
  <2> QED
    BY <2>1, <2>2
<1>13. CASE Retain(s)
  <2>1. TypeOK'
    <3>0. ref[s] \in Refs
      BY <1>0, <1>13, <1>a DEF Retain, SenderLocals
    <3>1. reference_count' \in [Refs -> Int]
      BY <1>13, <3>0 DEF Retain, TypeInv, TypeOK
    <3>2. index' \in [Senders -> Nat \ {0}] /\ pc' \in [Threads -> Labels]
      BY <1>0, <1>13, <1>a DEF Retain, NextConsumer, Labels
    <3> QED
      BY <1>13, <3>1, <3>2 DEF Retain, NextConsumer, TypeInv, TypeOK
  <2>2. LocalsOK'
    BY <1>13, <1>0, <1>a, <1>b, SenderLocalsStep DEF Retain, NextConsumer, SenderLocals
  <2> QED
    BY <2>1, <2>2
<1>14. CASE EndSend(s)
  <2>1. TypeOK'
    <3>1. component_states' \in [{"messaging", "telemetry_allocator"} -> {"ok", "error"}]
      BY <1>14 DEF EndSend, TypeInv, TypeOK
    <3>2. /\ reference_count' \in [Refs -> Int]
          /\ freeing' \in [Threads -> Refs \cup {None}]
      BY <1>14, <1>a DEF EndSend, Release, TypeInv, TypeOK, SenderLocals
    <3> QED
      BY <1>14, <3>1, <3>2 DEF EndSend, TypeInv, TypeOK, Labels
  <2>2. LocalsOK'
    BY <1>14, <1>0, <1>a, <1>b, SenderLocalsStep DEF EndSend, Release, SenderLocals
  <2> QED
    BY <2>1, <2>2
<1> QED
  BY <1>1, <1>2, <1>3, <1>4, <1>5, <1>6, <1>7, <1>8, <1>9, <1>10, <1>11, <1>12,
     <1>13, <1>14 DEF Sender, FinishSend

\* So does a step of a consumer's thread ...
LEMMA ReceiveTyping ==
  ASSUME TypeInv, NEW c \in Consumers, Consumer(c)
  PROVE  TypeOK' /\ LocalsOK'
<1> USE MemoryAssumption DEF At, Goto, shared, locals
<1>0. /\ pc \in [Threads -> Labels] /\ c \in Threads /\ num_consumers \in [Senders -> Nat]
      /\ fetched \in [Threads -> Refs \cup {None}] /\ consumer_pool \in Seq(Consumers)
      /\ mailbox \in [Consumers -> Seq(Refs)] /\ Len(consumer_pool) \in Nat
  BY DEF TypeInv, TypeOK, Threads
<1>a. (fetched[c] # None) <=> (pc[c] \in {"drop_release", "callback", "flush_release"})
  BY <1>0 DEF TypeInv, LocalsOK
<1>b. LocalsOK
  BY DEF TypeInv
<1>1. CASE At(c, "init") /\ Register(c)
  <2>1. TypeOK'
    BY <1>1, <1>0 DEF Register, TypeInv, TypeOK, Labels
  <2>2. LocalsOK'
    <3>1. Len(consumer_pool') = Len(consumer_pool) + 1 /\ Len(consumer_pool') \in Nat
      BY <1>0, <1>1 DEF Register
    <3>2. /\ pc' = [pc EXCEPT ![c] = "returned"] /\ pc[c] = "init"
          /\ UNCHANGED <<ref, packet, index, num_consumers, fetched>>
      BY <1>1 DEF Register
    <3>3. pc'[c] = "returned" /\ \A u \in Threads : u # c => pc'[u] = pc[u]
      BY <1>0, <3>2
    <3>4. fetched'[c] = None
      BY <1>a, <3>2
    <3>5. Len(consumer_pool') >= Len(consumer_pool)
      BY <1>0, <3>1
    <3> QED
      BY <1>0, <1>b, <3>1, <3>2, <3>3, <3>4, <3>5, ConsumerLocalsStep
  <2> QED
    BY <2>1, <2>2
<1>2. CASE At(c, "init") /\ RegisterFails(c)
  <2>1. TypeOK'
    BY <1>2, <1>0 DEF RegisterFails, TypeInv, TypeOK, Labels
  <2>2. LocalsOK'
    BY <1>2, <1>0, <1>a, <1>b, ConsumerLocalsStep DEF RegisterFails
  <2> QED
    BY <2>1, <2>2
<1>3. CASE ReceiveInvalid(c)
  <2>1. TypeOK'
    BY <1>3, <1>0 DEF ReceiveInvalid, TypeInv, TypeOK, Labels
  <2>2. LocalsOK'
    BY <1>3, <1>b DEF ReceiveInvalid, LocalsOK
  <2> QED
    BY <2>1, <2>2
<1>4. CASE Receive(c)
  <2>1. TypeOK'
    BY <1>4, <1>0 DEF Receive, Fetch, TypeInv, TypeOK, Labels
  <2>2. LocalsOK'
    <3>1. Head(mailbox[c]) \in Refs
      BY <1>0, <1>4 DEF Receive, Fetch
    <3> QED
      BY <1>4, <1>0, <1>a, <1>b, <3>1, ConsumerLocalsStep DEF Receive, Fetch
  <2> QED
    BY <2>1, <2>2
<1>5. CASE CallbackReturns(c)
  <2>1. TypeOK'
    <3>1. Release(c, fetched[c]) /\ fetched[c] \in Refs
      BY <1>0, <1>5, <1>a DEF CallbackReturns
    <3>2. reference_count' \in [Refs -> Int] /\ freeing' \in [Threads -> Refs \cup {None}]
      BY <1>0, <3>1, ReleaseTyping DEF TypeInv
    <3>3. pc' \in [Threads -> Labels] /\ fetched' \in [Threads -> Refs \cup {None}]
      BY <1>0, <1>5 DEF CallbackReturns, Labels
    <3>4. is_paused' \in [Consumers -> BOOLEAN]
      BY <1>5 DEF CallbackReturns, TypeInv, TypeOK
    <3> QED
      BY <1>5, <3>1, <3>2, <3>3, <3>4 DEF CallbackReturns, TypeInv, TypeOK
  <2>2. LocalsOK'
    BY <1>5, <1>0, <1>a, <1>b, ConsumerLocalsStep DEF CallbackReturns, Release
  <2> QED
    BY <2>1, <2>2
<1>6. CASE FlushFetch(c)
  <2>1. TypeOK'
    BY <1>6, <1>0 DEF FlushFetch, Fetch, TypeInv, TypeOK, Labels
  <2>2. LocalsOK'
    <3>1. Head(mailbox[c]) \in Refs
      BY <1>0, <1>6 DEF FlushFetch, Fetch
    <3> QED
      BY <1>6, <1>0, <1>a, <1>b, <3>1, ConsumerLocalsStep DEF FlushFetch, Fetch
  <2> QED
    BY <2>1, <2>2
<1>7. CASE FlushRelease(c)
  <2>1. TypeOK'
    <3>1. Release(c, fetched[c]) /\ fetched[c] \in Refs
      BY <1>0, <1>7, <1>a DEF FlushRelease
    <3>2. reference_count' \in [Refs -> Int] /\ freeing' \in [Threads -> Refs \cup {None}]
      BY <1>0, <3>1, ReleaseTyping DEF TypeInv
    <3>3. pc' \in [Threads -> Labels] /\ fetched' \in [Threads -> Refs \cup {None}]
      BY <1>0, <1>7 DEF FlushRelease, Labels
    <3>4. is_paused' \in [Consumers -> BOOLEAN]
      BY <1>7 DEF FlushRelease, TypeInv, TypeOK
    <3> QED
      BY <1>7, <3>1, <3>2, <3>3, <3>4 DEF FlushRelease, TypeInv, TypeOK
  <2>2. LocalsOK'
    BY <1>7, <1>0, <1>a, <1>b, ConsumerLocalsStep DEF FlushRelease, Release
  <2> QED
    BY <2>1, <2>2
<1>8. CASE FlushEnds(c)
  <2>1. TypeOK'
    BY <1>8, <1>0 DEF FlushEnds, TypeInv, TypeOK, Labels
  <2>2. LocalsOK'
    BY <1>8, <1>0, <1>a, <1>b, ConsumerLocalsStep DEF FlushEnds
  <2> QED
    BY <2>1, <2>2
<1>9. CASE Resume(c)
  <2>1. TypeOK'
    BY <1>9, <1>0 DEF Resume, TypeInv, TypeOK, Labels
  <2>2. LocalsOK'
    BY <1>9, <1>0, <1>a, <1>b, ConsumerLocalsStep DEF Resume
  <2> QED
    BY <2>1, <2>2
<1>10. ASSUME NEW flush_buffer \in BOOLEAN, Pause(c, flush_buffer)
       PROVE  TypeOK' /\ LocalsOK'
  <2>1. TypeOK'
    BY <1>10, <1>0 DEF Pause, TypeInv, TypeOK, Labels
  <2>2. LocalsOK'
    BY <1>10, <1>0, <1>a, <1>b, ConsumerLocalsStep DEF Pause
  <2> QED
    BY <2>1, <2>2
<1> QED
  BY <1>1, <1>2, <1>3, <1>4, <1>5, <1>6, <1>7, <1>8, <1>9, <1>10 DEF Consumer, messaging_consumer_init, Serve

\* ... and telemetry_allocator_free with chPoolFree.
LEMMA FreeTyping ==
  ASSUME TypeInv, NEW t \in Threads, Free(t)
  PROVE  TypeOK' /\ LocalsOK'
<1>1. CASE FreePacket(t)
  <2>1. TypeOK'
    BY <1>1, MemoryAssumption DEF TypeInv, TypeOK, telemetry_allocator_free, FreePacket
  <2>2. LocalsOK'
    BY <1>1 DEF TypeInv, LocalsOK, FreePacket
  <2> QED
    BY <2>1, <2>2
<1>2. CASE FreeRef(t)
  <2>1. freeing[t] \in Refs
    BY <1>2 DEF TypeInv, TypeOK, ReturningOK, FreeRef
  <2>2. TypeOK'
    BY <1>2, <2>1 DEF TypeInv, TypeOK, FreeRef
  <2>3. LocalsOK'
    BY <1>2 DEF TypeInv, LocalsOK, FreeRef
  <2> QED
    BY <2>2, <2>3
<1> QED
  BY <1>1, <1>2 DEF Free

\* Senders and consumers leave alone what a thread between its two frees is about to return.
LEMMA FreeingKept ==
  ASSUME TypeInv, \/ \E s \in Senders : Sender(s)
                  \/ \E c \in Consumers : Consumer(c)
  PROVE  /\ returning' = returning
         /\ \A t \in returning : freeing'[t] = freeing[t] /\ freeing'[t] # None
<1> USE DEF At, Goto, shared, locals
<1>1. ASSUME NEW u \in Threads, NEW r, freeing[u] = None, Release(u, r), returning' = returning
      PROVE  \A t \in returning : freeing'[t] = freeing[t] /\ freeing'[t] # None
  BY <1>1 DEF Release, ReturningOK, TypeInv, TypeOK
<1>2. CASE UNCHANGED <<freeing, returning>>
  BY <1>2 DEF TypeInv, ReturningOK
<1>3. ASSUME NEW s \in Senders, ReleaseDropped(s) \/ EndSend(s)
      PROVE  /\ returning' = returning
             /\ \A t \in returning : freeing'[t] = freeing[t] /\ freeing'[t] # None
  <2>1. /\ s \in Threads /\ freeing[s] = None /\ returning' = returning
        /\ \E r : Release(s, r)
    BY <1>3 DEF ReleaseDropped, EndSend, Threads
  <2> QED
    BY <1>1, <2>1
<1>4. ASSUME NEW c \in Consumers, CallbackReturns(c) \/ FlushRelease(c)
      PROVE  /\ returning' = returning
             /\ \A t \in returning : freeing'[t] = freeing[t] /\ freeing'[t] # None
  <2>1. /\ c \in Threads /\ freeing[c] = None /\ returning' = returning
        /\ \E r : Release(c, r)
    BY <1>4 DEF CallbackReturns, FlushRelease, Threads
  <2> QED
    BY <1>1, <2>1
<1>5. ASSUME NEW s \in Senders, Sender(s), ~ReleaseDropped(s), ~EndSend(s)
      PROVE  UNCHANGED <<freeing, returning>>
  BY <1>5 DEF Sender, FinishSend, Alloc, AllocFails, CreateRef, CreateRefFails, Skip, Select, Post,
              PostFails, DropOldest, DropNothing, RepostFails, Retain
<1>6. ASSUME NEW c \in Consumers, Consumer(c), ~CallbackReturns(c), ~FlushRelease(c)
      PROVE  UNCHANGED <<freeing, returning>>
  BY <1>6 DEF Consumer, messaging_consumer_init, Serve, Register, RegisterFails, ReceiveInvalid,
              Receive, FlushFetch, FlushEnds, Resume, Pause
<1> QED
  BY <1>2, <1>3, <1>4, <1>5, <1>6

\* So a thread returns what it was freeing.
LEMMA ReturningStep ==
  ASSUME TypeInv, Next
  PROVE  ReturningOK'
<1>1. ASSUME NEW t \in Threads, FreePacket(t) PROVE ReturningOK'
  BY <1>1 DEF FreePacket, TypeInv, ReturningOK
<1>2. ASSUME NEW t \in Threads, FreeRef(t) PROVE ReturningOK'
  BY <1>2 DEF FreeRef, TypeInv, TypeOK, ReturningOK
<1>3. CASE (\E s \in Senders : Sender(s)) \/ (\E c \in Consumers : Consumer(c))
  BY <1>3, FreeingKept DEF ReturningOK
<1> QED
  BY <1>1, <1>2, <1>3 DEF Next, Free

\* The state of messaging.c stays well typed whatever the threads, the mailbox
\* sizes and the schedule, fetches before the retain included.
THEOREM TypeCorrect == Spec => []TypeOK
<1>1. Init => TypeInv
  BY TypeInvInit
<1>2. TypeInv /\ [Next]_vars => TypeInv'
  <2> SUFFICES ASSUME TypeInv, [Next]_vars PROVE TypeInv'
    OBVIOUS
  <2>1. CASE Next
    BY <2>1, SendTyping, ReceiveTyping, FreeTyping, ReturningStep DEF Next, TypeInv
  <2>2. CASE UNCHANGED vars
    BY <2>2 DEF TypeInv, TypeOK, LocalsOK, ReturningOK, vars, shared, locals
  <2> QED
    BY <2>1, <2>2
<1>3. TypeInv => TypeOK
  BY DEF TypeInv
<1> QED
  BY <1>1, <1>2, <1>3, PTL DEF Spec

-----------------------------------------------------------------------------
(* Counting holders *)

\* The three sets of holders are finite.
LEMMA HoldersFinite ==
  \A r : /\ IsFiniteSet(Owners(r)) /\ Cardinality(Owners(r)) \in Nat
         /\ IsFiniteSet(Boxes(r)) /\ Cardinality(Boxes(r)) \in Nat
         /\ IsFiniteSet(Fetchers(r)) /\ Cardinality(Fetchers(r)) \in Nat
<1> TAKE r
<1>1. /\ Owners(r) \subseteq Threads
      /\ Boxes(r) \subseteq Threads
      /\ Fetchers(r) \subseteq Threads
  BY DEF Owners, Boxes, Fetchers, Threads
<1> QED
  BY <1>1, ThreadAssumption, FS_Subset, FS_CardinalityType

\* A reference is held exactly when it has a counted holder: a mailbox it has
\* not been retained for yet comes with the sender that is about to.
LEMMA HeldIffCounted == \A r \in Refs : Held(r) <=> HolderCount(r) # 0
<1> TAKE r \in Refs
<1>1. /\ IsFiniteSet(Owners(r)) /\ Cardinality(Owners(r)) \in Nat
      /\ IsFiniteSet(Boxes(r)) /\ Cardinality(Boxes(r)) \in Nat
      /\ IsFiniteSet(Fetchers(r)) /\ Cardinality(Fetchers(r)) \in Nat
  BY HoldersFinite
<1>2. HolderCount(r) = 0 <=> Owners(r) = {} /\ Boxes(r) = {} /\ Fetchers(r) = {}
  <2>1. /\ Cardinality(Owners(r)) = 0 <=> Owners(r) = {}
        /\ Cardinality(Boxes(r)) = 0 <=> Boxes(r) = {}
        /\ Cardinality(Fetchers(r)) = 0 <=> Fetchers(r) = {}
    BY <1>1, FS_EmptySet
  <2> QED
    BY <1>1, <2>1 DEF HolderCount
<1>3. Held(r) <=> Owners(r) # {} \/ Boxes(r) # {} \/ Fetchers(r) # {}
  BY DEF Held, Owners, Boxes, Fetchers, InBox, Unretained
<1> QED
  BY <1>2, <1>3

\* A new member of a finite set counts one.
LEMMA CardAdd ==
  ASSUME NEW S, IsFiniteSet(S), NEW x, x \notin S
  PROVE  Cardinality(S \cup {x}) = Cardinality(S) + 1
  BY FS_AddElement

\* A member that goes counts one less.
LEMMA CardRemove ==
  ASSUME NEW S, IsFiniteSet(S), NEW x \in S
  PROVE  Cardinality(S \ {x}) = Cardinality(S) - 1
  BY FS_RemoveElement

-----------------------------------------------------------------------------
(* What the kernel calls do to the mailboxes *)

\* chMBFetch takes the head, which was there once.
LEMMA FetchBoxes ==
  ASSUME TypeOK, PostedOnce, NEW t \in Threads, NEW c \in Consumers, Fetch(t, c)
  PROVE  /\ Head(mailbox[c]) \in Refs
         /\ Head(mailbox[c]) \in InBox(c)
         /\ InBox(c)' = InBox(c) \ {Head(mailbox[c])}
         /\ \A d \in Consumers : d # c => InBox(d)' = InBox(d)
         /\ \A d \in Consumers : \A j, k \in 1..Len(mailbox'[d]) :
              mailbox'[d][j] = mailbox'[d][k] => j = k
<1> DEFINE q == mailbox[c]
<1>1. /\ q \in Seq(Refs) /\ q # <<>> /\ Len(q) \in Nat \ {0}
      /\ mailbox' = [mailbox EXCEPT ![c] = Tail(q)]
      /\ mailbox \in [Consumers -> Seq(Refs)]
  BY DEF TypeOK, Fetch
<1>2. /\ Tail(q) \in Seq(Refs) /\ Len(Tail(q)) = Len(q) - 1
      /\ \A k \in 1..Len(q) - 1 : Tail(q)[k] = q[k + 1]
      /\ Head(q) = q[1] /\ q[1] \in Refs
  BY <1>1
<1>3. \A j, k \in 1..Len(q) : q[j] = q[k] => j = k
  BY DEF PostedOnce
<1> HIDE DEF q
<1>4. mailbox'[c] = Tail(q) /\ \A d \in Consumers : d # c => mailbox'[d] = mailbox[d]
  BY <1>1
<1>5. InBox(c)' = {Tail(q)[k] : k \in 1..Len(q) - 1}
  BY <1>4, <1>2 DEF InBox
<1>6. InBox(c) = {q[k] : k \in 1..Len(q)}
  BY DEF InBox, q
<1>7. {Tail(q)[k] : k \in 1..Len(q) - 1} = {q[k] : k \in 1..Len(q)} \ {q[1]}
  <2>1. ASSUME NEW k \in 1..Len(q) - 1
        PROVE  Tail(q)[k] \in {q[j] : j \in 1..Len(q)} \ {q[1]}
    BY <1>1, <1>2, <1>3
  <2>2. ASSUME NEW k \in 1..Len(q), q[k] # q[1]
        PROVE  q[k] \in {Tail(q)[j] : j \in 1..Len(q) - 1}
    <3>1. k - 1 \in 1..Len(q) - 1 /\ q[k] = Tail(q)[k - 1]
      BY <1>1, <1>2, <2>2
    <3> QED
      BY <3>1
  <2> QED
    BY <2>1, <2>2
<1>8. \A j, k \in 1..Len(mailbox'[c]) : mailbox'[c][j] = mailbox'[c][k] => j = k
  BY <1>1, <1>2, <1>3, <1>4
<1>9. \A d \in Consumers : d # c => InBox(d)' = InBox(d)
  BY <1>4 DEF InBox
<1>10. \A d \in Consumers : d # c => \A j, k \in 1..Len(mailbox'[d]) :
         mailbox'[d][j] = mailbox'[d][k] => j = k
  BY <1>4 DEF PostedOnce
<1>11. Head(mailbox[c]) = q[1] /\ q[1] \in InBox(c)
  BY <1>1, <1>2, <1>6 DEF q
<1> QED
  BY <1>2, <1>5, <1>6, <1>7, <1>8, <1>9, <1>10, <1>11

\* chMBPost adds a reference that was not there.
LEMMA PostBoxes ==
  ASSUME TypeOK, PostedOnce, NEW c \in Consumers, NEW r \in Refs, r \notin InBox(c),
         mailbox' = [mailbox EXCEPT ![c] = Append(@, r)]
  PROVE  /\ InBox(c)' = InBox(c) \cup {r}
         /\ \A d \in Consumers : d # c => InBox(d)' = InBox(d)
         /\ \A d \in Consumers : \A j, k \in 1..Len(mailbox'[d]) :
              mailbox'[d][j] = mailbox'[d][k] => j = k
<1> DEFINE q == mailbox[c]
<1>1. /\ q \in Seq(Refs) /\ Len(q) \in Nat
      /\ mailbox' = [mailbox EXCEPT ![c] = Append(q, r)]
      /\ mailbox \in [Consumers -> Seq(Refs)]
  BY DEF TypeOK
<1>2. /\ Len(Append(q, r)) = Len(q) + 1
      /\ \A k \in 1..Len(q) : Append(q, r)[k] = q[k]
      /\ Append(q, r)[Len(q) + 1] = r
  BY <1>1
<1>3. \A j, k \in 1..Len(q) : q[j] = q[k] => j = k
  BY DEF PostedOnce
<1>4. \A k \in 1..Len(q) : q[k] # r
  BY DEF InBox
<1> HIDE DEF q
<1>5. mailbox'[c] = Append(q, r) /\ \A d \in Consumers : d # c => mailbox'[d] = mailbox[d]
  BY <1>1
<1>6. InBox(c)' = {Append(q, r)[k] : k \in 1..Len(q) + 1}
  BY <1>5, <1>2 DEF InBox
<1>7. InBox(c) = {q[k] : k \in 1..Len(q)}
  BY DEF InBox, q
<1>8. {Append(q, r)[k] : k \in 1..Len(q) + 1} = {q[k] : k \in 1..Len(q)} \cup {r}
  <2>1. ASSUME NEW k \in 1..Len(q) + 1
        PROVE  Append(q, r)[k] \in {q[j] : j \in 1..Len(q)} \cup {r}
    <3>1. CASE k = Len(q) + 1
      BY <3>1, <1>2
    <3>2. CASE k \in 1..Len(q)
      BY <3>2, <1>2
    <3> QED
      BY <3>1, <3>2, <1>1
  <2>2. ASSUME NEW k \in 1..Len(q)
        PROVE  q[k] \in {Append(q, r)[j] : j \in 1..Len(q) + 1}
    BY <1>1, <1>2
  <2>3. r \in {Append(q, r)[j] : j \in 1..Len(q) + 1}
    BY <1>1, <1>2
  <2> QED
    BY <2>1, <2>2, <2>3
<1>9. \A j, k \in 1..Len(mailbox'[c]) : mailbox'[c][j] = mailbox'[c][k] => j = k
  <2> SUFFICES ASSUME NEW j \in 1..Len(q) + 1, NEW k \in 1..Len(q) + 1,
                      Append(q, r)[j] = Append(q, r)[k]
               PROVE  j = k
    BY <1>2, <1>5
  <2>1. CASE j \in 1..Len(q) /\ k \in 1..Len(q)
    BY <2>1, <1>2, <1>3
  <2>2. CASE j = Len(q) + 1 \/ k = Len(q) + 1
    BY <2>2, <1>1, <1>2, <1>4
  <2> QED
    BY <2>1, <2>2, <1>1
<1>10. \A d \in Consumers : d # c => InBox(d)' = InBox(d)
  BY <1>5 DEF InBox
<1>11. \A d \in Consumers : d # c => \A j, k \in 1..Len(mailbox'[d]) :
         mailbox'[d][j] = mailbox'[d][k] => j = k
  BY <1>5 DEF PostedOnce
<1> QED
  BY <1>6, <1>7, <1>8, <1>9, <1>10, <1>11

\* A sender inside its loop offers the packet to a registered consumer.
LEMMA TargetRegistered ==
  ASSUME TypeInv, NEW s \in Senders, index[s] <= num_consumers[s]
  PROVE  /\ Target(s) \in Consumers
         /\ index[s] \in 1..Len(consumer_pool)
         /\ num_consumers[s] \in Nat /\ Len(consumer_pool) \in Nat
         /\ num_consumers[s] <= Len(consumer_pool)
  BY DEF TypeInv, TypeOK, LocalsOK, Target

-----------------------------------------------------------------------------
(* Registration: the pool, and what is known of a consumer before it *)

\* A consumer enters consumer_pool once, with an empty mailbox, whatever step is
\* taken.
LEMMA PoolStep ==
  ASSUME TypeInv, PoolOK, Next
  PROVE  PoolOK'
<1> USE DEF At, Goto, Threads, TypeInv, TypeOK, shared, locals
<1>1. ASSUME NEW s \in Senders, Sender(s) PROVE PoolOK'
  <2>1. /\ consumer_pool' = consumer_pool
        /\ \A c \in Consumers : pc'[c] = pc[c]
    BY <1>1, ThreadAssumption
    DEF telemetry_allocator_alloc, telemetry_allocator_free, Sender, FinishSend, Alloc,
        AllocFails, CreateRef, CreateRefFails, Skip, Select, Post,
        PostFails, DropOldest, DropNothing, ReleaseDropped, RepostFails, Retain, EndSend,
        NextConsumer
  <2>2. ASSUME NEW c \in Consumers, pc[c] = "init", mailbox[c] = <<>>,
               \A j \in 1..Len(consumer_pool) : consumer_pool[j] # c
        PROVE  mailbox'[c] = <<>>
    <3>1. CASE Post(s)
      <4>1. index[s] <= num_consumers[s] /\ mailbox' = [mailbox EXCEPT ![Target(s)] = Append(@, ref[s])]
        BY <3>1 DEF Post, LocalsOK
      <4>2. Target(s) # c
        BY <4>1, <2>2, TargetRegistered DEF Target
      <4> QED
        BY <4>1, <4>2, <2>2
    <3>2. CASE DropOldest(s)
      BY <3>2, <2>2 DEF DropOldest, Fetch
    <3>3. CASE UNCHANGED mailbox
      BY <3>3, <2>2
    <3> QED
      BY <1>1, <3>1, <3>2, <3>3
      DEF telemetry_allocator_alloc, telemetry_allocator_free, Sender, FinishSend, Alloc,
          AllocFails, CreateRef, CreateRefFails, Skip, Select,
          PostFails, DropNothing, ReleaseDropped, RepostFails, Retain, EndSend
  <2> QED
    BY <2>1, <2>2 DEF PoolOK
<1>2. ASSUME NEW c \in Consumers, At(c, "init"), Register(c) PROVE PoolOK'
  <2>1. /\ consumer_pool' = Append(consumer_pool, c)
        /\ consumer_pool \in Seq(Consumers)
        /\ \A j \in 1..Len(consumer_pool) : consumer_pool[j] # c
        /\ pc' = [pc EXCEPT ![c] = "returned"]
        /\ mailbox' = [mailbox EXCEPT ![c] = <<>>]
    BY <1>2 DEF Register, PoolOK
  <2>2. /\ Len(consumer_pool') = Len(consumer_pool) + 1
        /\ \A j \in 1..Len(consumer_pool) : consumer_pool'[j] = consumer_pool[j]
        /\ consumer_pool'[Len(consumer_pool) + 1] = c
    BY <2>1
  <2>3. \A j, k \in 1..Len(consumer_pool') : consumer_pool'[j] = consumer_pool'[k] => j = k
    BY <2>1, <2>2 DEF PoolOK
  <2>4. ASSUME NEW d \in Consumers, pc'[d] = "init"
        PROVE  /\ mailbox'[d] = <<>>
               /\ \A j \in 1..Len(consumer_pool') : consumer_pool'[j] # d
    <3>1. d # c /\ pc[d] = "init"
      BY <2>1, <2>4
    <3>2. mailbox'[d] = <<>> /\ \A j \in 1..Len(consumer_pool) : consumer_pool[j] # d
      BY <2>1, <3>1 DEF PoolOK
    <3>3. \A j \in 1..Len(consumer_pool') : consumer_pool'[j] # d
      BY <2>1, <2>2, <3>1, <3>2
    <3> QED
      BY <3>2, <3>3
  <2> QED
    BY <2>3, <2>4 DEF PoolOK
<1>3. ASSUME NEW c \in Consumers, Consumer(c), ~(At(c, "init") /\ Register(c)) PROVE PoolOK'
  <2> DEFINE Kept ==
        /\ consumer_pool' = consumer_pool
        /\ \A d \in Consumers : pc'[d] = "init" => pc[d] = "init" /\ mailbox'[d] = mailbox[d]
  <2>1. Receive(c) => Kept
    BY DEF Receive, Fetch
  <2>2. FlushFetch(c) => Kept
    BY DEF FlushFetch, Fetch
  <2>3. RegisterFails(c) \/ ReceiveInvalid(c) \/ FlushEnds(c) \/ Resume(c) => Kept
    BY DEF RegisterFails, ReceiveInvalid, FlushEnds, Resume
  <2>4. CallbackReturns(c) \/ FlushRelease(c) => Kept
    BY DEF CallbackReturns, FlushRelease
  <2>5. (\E flush_buffer \in BOOLEAN : Pause(c, flush_buffer)) => Kept
    BY DEF Pause
  <2>6. Kept
    BY <1>3, <2>1, <2>2, <2>3, <2>4, <2>5 DEF Consumer, messaging_consumer_init, Serve
  <2> QED
    BY <2>6 DEF PoolOK
<1>4. ASSUME NEW t \in Threads, Free(t) PROVE PoolOK'
  BY <1>4 DEF telemetry_allocator_free, Free, FreePacket, FreeRef, PoolOK
<1> QED
  BY <1>1, <1>2, <1>3, <1>4 DEF Next

-----------------------------------------------------------------------------
(* How each kind of step changes the counts *)

RefsInv == PostedOnce /\ CountOK /\ FreeOK

OneOwner == \A s, u \in Senders : ref[s] # None /\ ref[s] = ref[u] => s = u

\* HeldIffCounted after a step.
LEMMA HeldIffCountedNext == (\A r \in Refs : Held(r) <=> HolderCount(r) # 0)'
  BY HeldIffCounted, PTL

\* HoldersFinite after a step.
LEMMA HoldersFiniteNext ==
  (\A r : /\ IsFiniteSet(Owners(r)) /\ Cardinality(Owners(r)) \in Nat
          /\ IsFiniteSet(Boxes(r)) /\ Cardinality(Boxes(r)) \in Nat
          /\ IsFiniteSet(Fetchers(r)) /\ Cardinality(Fetchers(r)) \in Nat)'
  BY HoldersFinite, PTL

\* No count changes and nobody gains or loses a hold.
LEMMA CountsKept ==
  ASSUME TypeOK, CountOK, FreeOK, OneOwner',
         UNCHANGED <<ref_pool, reference_count, freeing>>,
         \A r \in Refs : HolderCount(r)' = HolderCount(r)
  PROVE  CountOK' /\ FreeOK'
<1>1. \A r \in Refs : Held(r)' <=> Held(r)
  BY HeldIffCounted, HeldIffCountedNext
<1>2. CountOK'
  BY DEF CountOK, OneOwner
<1>3. FreeOK'
  BY <1>1 DEF FreeOK, TypeOK
<1> QED
  BY <1>2, <1>3

\* One hold is released; the thread that releases the last one is to free it.
LEMMA CountReleased ==
  ASSUME TypeOK, CountOK, FreeOK, OneOwner',
         NEW t \in Threads, NEW r \in Refs, Held(r), Release(t, r), freeing[t] = None,
         ref_pool' = ref_pool,
         HolderCount(r)' = HolderCount(r) - 1,
         \A q \in Refs : q # r => HolderCount(q)' = HolderCount(q)
  PROVE  CountOK' /\ FreeOK'
<1>1. r \notin ref_pool /\ reference_count[r] = HolderCount(r)
  BY DEF CountOK, FreeOK
<1>2. reference_count' = [reference_count EXCEPT ![r] = @ - 1]
  BY DEF Release
<1>3. CountOK'
  BY <1>1, <1>2 DEF CountOK, OneOwner, TypeOK
<1>4. \A q \in Refs : q # r => (Held(q)' <=> Held(q))
  BY HeldIffCounted, HeldIffCountedNext
<1>5. Held(r)' <=> reference_count[r] # 1
  <2>1. HolderCount(r)' # 0 <=> reference_count[r] # 1
    BY <1>1 DEF TypeOK
  <2> QED
    BY <2>1, HeldIffCountedNext
<1>6. \A u \in Threads : freeing[u] # r
  BY MemoryAssumption DEF FreeOK
<1>7. freeing' = [freeing EXCEPT ![t] = IF reference_count[r] = 1 THEN r ELSE None]
  BY DEF Release
<1>8. CASE reference_count[r] = 1
  <2>1. freeing'[t] = r /\ ~Held(r)' /\ \A u \in Threads : u # t => freeing'[u] = freeing[u]
    BY <1>5, <1>7, <1>8 DEF TypeOK
  <2>2. \A q \in ref_pool' : ~Held(q)'
    BY <1>1, <1>4 DEF FreeOK, TypeOK
  <2>3. \A u \in Threads : freeing'[u] # None =>
          ~Held(freeing[u])' /\ freeing'[u] \notin ref_pool'
    <3> SUFFICES ASSUME NEW u \in Threads, freeing'[u] # None
                 PROVE  ~Held(freeing[u])' /\ freeing'[u] \notin ref_pool'
      OBVIOUS
    <3>1. CASE u = t
      BY <1>1, <2>1, <3>1
    <3>2. CASE u # t
      BY <1>4, <1>6, <2>1, <3>2 DEF FreeOK, TypeOK
    <3> QED
      BY <3>1, <3>2
  <2>4. \A u, v \in Threads : freeing'[u] # None /\ freeing'[u] = freeing'[v] => u = v
    BY <1>6, <2>1 DEF FreeOK
  <2>5. \A q \in Refs \ ref_pool' : Held(q)' \/ \E u \in Threads : freeing'[u] = q
    <3> SUFFICES ASSUME NEW q \in Refs \ ref_pool', q # r
                 PROVE  Held(q)' \/ \E u \in Threads : freeing'[u] = q
      BY <2>1
    <3>1. CASE Held(q)
      BY <3>1, <1>4
    <3>2. CASE ~Held(q)
      <4>1. PICK u \in Threads : freeing[u] = q
        BY <3>2 DEF FreeOK
      <4>2. u # t
        BY <4>1, MemoryAssumption
      <4> QED
        BY <4>1, <4>2, <2>1
    <3> QED
      BY <3>1, <3>2
  <2> QED
    BY <1>3, <2>2, <2>3, <2>4, <2>5 DEF FreeOK
<1>9. CASE reference_count[r] # 1
  <2>1. freeing' = freeing /\ Held(r)'
    BY <1>5, <1>7, <1>9 DEF TypeOK
  <2>2. \A q \in ref_pool' : ~Held(q)'
    BY <1>1, <1>4 DEF FreeOK, TypeOK
  <2>3. \A u \in Threads : freeing'[u] # None =>
          ~Held(freeing[u])' /\ freeing'[u] \notin ref_pool'
    BY <1>4, <1>6, <2>1 DEF FreeOK, TypeOK
  <2>4. \A q \in Refs \ ref_pool' : Held(q)' \/ \E u \in Threads : freeing'[u] = q
    BY <1>4, <2>1 DEF FreeOK
  <2> QED
    BY <1>3, <2>1, <2>2, <2>3, <2>4 DEF FreeOK
<1> QED
  BY <1>8, <1>9

\* Steps that touch neither the references nor the mailboxes.
StillRefs ==
    /\ UNCHANGED <<ref_pool, reference_count, mailbox, consumer_pool, ref, fetched, freeing,
                   num_consumers>>
    /\ \A s \in Senders : (pc'[s] = "retain") <=> (pc[s] = "retain")
    /\ \A s \in Senders : index'[s] >= index[s] /\ (pc[s] = "retain" => index'[s] = index[s])

\* A step that moves no hold keeps the counts exact.
LEMMA StillStep ==
  ASSUME TypeInv, RefsInv, StillRefs, TypeInv'
  PROVE  RefsInv'
<1>1. \A r : Owners(r)' = Owners(r) /\ Fetchers(r)' = Fetchers(r) /\ Boxes(r)' = Boxes(r)
  BY DEF StillRefs, Owners, Fetchers, Boxes, InBox, Unretained, Target
<1>2. \A r \in Refs : HolderCount(r)' = HolderCount(r)
  BY <1>1 DEF HolderCount
<1>3. OneOwner'
  BY DEF OneOwner, RefsInv, CountOK, StillRefs
<1>4. CountOK' /\ FreeOK'
  BY <1>2, <1>3, CountsKept DEF RefsInv, TypeInv, StillRefs
<1>5. PostedOnce'
  <2>1. ASSUME NEW s \in Senders, NEW j \in index'[s]..num_consumers'[s],
               ref'[s] \in InBox(consumer_pool[j])'
        PROVE  pc'[s] = "retain" /\ j = index'[s]
    <3>1. j \in index[s]..num_consumers[s]
      BY <2>1 DEF StillRefs, TypeInv, TypeOK
    <3>2. ref[s] \in InBox(consumer_pool[j])
      BY <2>1 DEF StillRefs, InBox
    <3> QED
      BY <3>1, <3>2 DEF RefsInv, PostedOnce, StillRefs
  <2>2. ASSUME NEW s \in Senders, pc'[s] = "retain" PROVE ref'[s] \in InBox(Target(s))'
    BY <2>2 DEF RefsInv, PostedOnce, StillRefs, InBox, Target
  <2>3. \A c \in Consumers : \A j, k \in 1..Len(mailbox'[c]) :
          mailbox'[c][j] = mailbox'[c][k] => j = k
    BY DEF RefsInv, PostedOnce, StillRefs
  <2> QED
    BY <2>1, <2>2, <2>3 DEF PostedOnce
<1> QED
  BY <1>4, <1>5 DEF RefsInv

-----------------------------------------------------------------------------
(* Each step that moves a hold *)

\* A fetch outside the window moves a counted hold from mailbox to thread.
LEMMA FetchStep ==
  ASSUME TypeInv, RefsInv, ~FetchBeforeRetain,
         NEW t \in Threads, NEW c \in Consumers, Fetch(t, c), fetched[t] = None,
         UNCHANGED <<ref_pool, reference_count, consumer_pool, ref, index, num_consumers,
                     freeing>>,
         \A s \in Senders : (pc'[s] = "retain") <=> (pc[s] = "retain")
  PROVE  RefsInv'
<1>1. PICK r \in Refs :
      /\ r = Head(mailbox[c]) /\ r \in InBox(c)
      /\ InBox(c)' = InBox(c) \ {r}
      /\ \A d \in Consumers : d # c => InBox(d)' = InBox(d)
      /\ \A d \in Consumers : \A j, k \in 1..Len(mailbox'[d]) :
           mailbox'[d][j] = mailbox'[d][k] => j = k
  BY FetchBoxes DEF TypeInv, RefsInv
<1>2. \A s \in Senders : pc[s] = "retain" => ref[s] # r
  BY <1>1 DEF Fetch, Window
<1>3. fetched' = [fetched EXCEPT ![t] = r]
  BY <1>1 DEF Fetch
<1>4. \A q : /\ Owners(q)' = Owners(q)
             /\ \A d \in Consumers : Unretained(q, d)' <=> Unretained(q, d)
  BY DEF Owners, Unretained, Target
<1>5. ASSUME NEW q \in Refs, q # r PROVE HolderCount(q)' = HolderCount(q)
  <2>1. Fetchers(q)' = Fetchers(q)
    BY <1>1, <1>3, <1>5, MemoryAssumption DEF Fetchers, TypeInv, TypeOK
  <2>2. Boxes(q)' = Boxes(q)
    BY <1>1, <1>4, <1>5 DEF Boxes
  <2> QED
    BY <1>4, <2>1, <2>2 DEF HolderCount
<1>6. HolderCount(r)' = HolderCount(r)
  <2>1. Fetchers(r)' = Fetchers(r) \cup {t} /\ t \notin Fetchers(r)
    BY <1>1, <1>3, MemoryAssumption DEF Fetchers, TypeInv, TypeOK
  <2>2. c \in Boxes(r) /\ Boxes(r)' = Boxes(r) \ {c}
    BY <1>1, <1>2, <1>4 DEF Boxes, Unretained
  <2>3. Cardinality(Fetchers(r)') = Cardinality(Fetchers(r)) + 1
    BY <2>1, CardAdd, HoldersFinite
  <2>4. Cardinality(Boxes(r)') = Cardinality(Boxes(r)) - 1
    BY <2>2, CardRemove, HoldersFinite
  <2> QED
    BY <1>4, <2>3, <2>4, HoldersFinite DEF HolderCount
<1>7. OneOwner'
  BY DEF OneOwner, RefsInv, CountOK
<1>8. CountOK' /\ FreeOK'
  BY <1>5, <1>6, <1>7, CountsKept DEF RefsInv, TypeInv
<1>9. PostedOnce'
  <2>1. ASSUME NEW s \in Senders, NEW j \in index'[s]..num_consumers'[s],
               ref'[s] \in InBox(consumer_pool[j])'
        PROVE  pc'[s] = "retain" /\ j = index'[s]
    <3>1. consumer_pool[j] \in Consumers
      BY <2>1 DEF TypeInv, TypeOK, LocalsOK
    <3>2. ref[s] \in InBox(consumer_pool[j])
      BY <1>1, <2>1, <3>1
    <3> QED
      BY <3>2, <2>1 DEF RefsInv, PostedOnce
  <2>2. ASSUME NEW s \in Senders, pc'[s] = "retain" PROVE ref'[s] \in InBox(Target(s))'
    <3>1. pc[s] = "retain" /\ ref[s] \in InBox(Target(s)) /\ ref[s] # r
      BY <1>2, <2>2 DEF RefsInv, PostedOnce
    <3>2. Target(s)' = Target(s) /\ Target(s) \in Consumers
      BY <3>1, TargetRegistered DEF Target, TypeInv, LocalsOK
    <3> QED
      BY <1>1, <3>1, <3>2
  <2> QED
    BY <1>1, <2>1, <2>2 DEF PostedOnce
<1> QED
  BY <1>8, <1>9 DEF RefsInv

\* telemetry_reference_release of a fetched reference.
LEMMA ReleaseFetchedStep ==
  ASSUME TypeInv, RefsInv, NEW t \in Threads, fetched[t] # None, freeing[t] = None,
         Release(t, fetched[t]), fetched' = [fetched EXCEPT ![t] = None],
         UNCHANGED <<ref_pool, mailbox, consumer_pool, ref, index, num_consumers>>,
         \A s \in Senders : (pc'[s] = "retain") <=> (pc[s] = "retain")
  PROVE  RefsInv'
<1>1. PICK r \in Refs : r = fetched[t] /\ Held(r)
  BY DEF TypeInv, TypeOK, Held
<1>2. \A q : Owners(q)' = Owners(q) /\ Boxes(q)' = Boxes(q)
  BY DEF Owners, Boxes, InBox, Unretained, Target
<1>3. Fetchers(r)' = Fetchers(r) \ {t} /\ t \in Fetchers(r)
  BY <1>1, MemoryAssumption DEF Fetchers, TypeInv, TypeOK
<1>4. HolderCount(r)' = HolderCount(r) - 1
  <2>1. Cardinality(Fetchers(r)') = Cardinality(Fetchers(r)) - 1
    BY <1>3, CardRemove, HoldersFinite
  <2> QED
    BY <1>2, <2>1, HoldersFinite DEF HolderCount
<1>5. ASSUME NEW q \in Refs, q # r PROVE HolderCount(q)' = HolderCount(q)
  <2>1. Fetchers(q)' = Fetchers(q)
    BY <1>1, <1>5, MemoryAssumption DEF Fetchers, TypeInv, TypeOK
  <2> QED
    BY <1>2, <2>1 DEF HolderCount
<1>6. OneOwner'
  BY DEF OneOwner, RefsInv, CountOK
<1>7. CountOK' /\ FreeOK'
  BY <1>1, <1>4, <1>5, <1>6, CountReleased DEF RefsInv, TypeInv
<1>8. PostedOnce'
  BY DEF RefsInv, PostedOnce, InBox, Target
<1> QED
  BY <1>7, <1>8 DEF RefsInv

\* chMBPost: the reference is in one more mailbox, not yet counted there.
LEMMA PostStep ==
  ASSUME TypeInv, PoolOK, RefsInv, NEW s \in Senders, Post(s)
  PROVE  RefsInv'
<1>1. /\ pc[s] \in {"post", "repost"} /\ pc' = [pc EXCEPT ![s] = "retain"]
      /\ index[s] <= num_consumers[s]
      /\ UNCHANGED <<ref_pool, reference_count, consumer_pool, ref, index, num_consumers,
                     fetched, freeing>>
  BY DEF Post, At, Goto, TypeInv, LocalsOK, locals
<1>2. PICK c \in Consumers : c = Target(s)
  BY <1>1, TargetRegistered
<1>3. PICK r \in Refs : r = ref[s]
  BY <1>1 DEF TypeInv, TypeOK, LocalsOK
<1>4. /\ index[s] \in 1..Len(consumer_pool) /\ index[s] \in index[s]..num_consumers[s]
      /\ num_consumers[s] \in Nat /\ Len(consumer_pool) \in Nat
      /\ num_consumers[s] <= Len(consumer_pool)
  BY <1>1, TargetRegistered DEF TypeInv, TypeOK
<1>5. r \notin InBox(c)
  BY <1>1, <1>2, <1>3, <1>4 DEF RefsInv, PostedOnce, Target
<1>6. mailbox' = [mailbox EXCEPT ![c] = Append(@, r)]
  BY <1>2, <1>3 DEF Post
<1>7. /\ InBox(c)' = InBox(c) \cup {r}
      /\ \A d \in Consumers : d # c => InBox(d)' = InBox(d)
      /\ \A d \in Consumers : \A j, k \in 1..Len(mailbox'[d]) :
           mailbox'[d][j] = mailbox'[d][k] => j = k
  BY <1>5, <1>6, PostBoxes DEF TypeInv, RefsInv
<1>8. \A q : Owners(q)' = Owners(q) /\ Fetchers(q)' = Fetchers(q)
  BY <1>1 DEF Owners, Fetchers
<1>9. /\ pc'[s] = "retain" /\ pc[s] # "retain"
      /\ \A u \in Senders : u # s => pc'[u] = pc[u]
  BY <1>1 DEF TypeInv, TypeOK, Threads
<1>10. \A q \in Refs : \A d \in Consumers :
         Unretained(q, d)' <=> Unretained(q, d) \/ (q = r /\ d = c)
  BY <1>1, <1>2, <1>3, <1>9 DEF Unretained, Target
<1>11. \A q \in Refs : Boxes(q)' = Boxes(q)
  <2> TAKE q \in Refs
  <2>1. ASSUME NEW d \in Consumers PROVE d \in Boxes(q)' <=> d \in Boxes(q)
    BY <1>5, <1>7, <1>10 DEF Boxes
  <2> QED
    BY <2>1 DEF Boxes
<1>12. \A q \in Refs : HolderCount(q)' = HolderCount(q)
  BY <1>8, <1>11 DEF HolderCount
<1>13. OneOwner'
  BY <1>1 DEF OneOwner, RefsInv, CountOK
<1>14. CountOK' /\ FreeOK'
  BY <1>1, <1>12, <1>13, CountsKept DEF RefsInv, TypeInv
<1>15. PostedOnce'
  <2>1. ASSUME NEW u \in Senders, NEW j \in index'[u]..num_consumers'[u],
               ref'[u] \in InBox(consumer_pool[j])'
        PROVE  pc'[u] = "retain" /\ j = index'[u]
    <3>1. consumer_pool[j] \in Consumers /\ j \in 1..Len(consumer_pool)
      BY <1>1, <2>1 DEF TypeInv, TypeOK, LocalsOK
    <3>2. CASE u = s
      <4>1. CASE consumer_pool[j] = c
        <5>1. j = index[s]
          BY <1>2, <1>4, <3>1, <4>1 DEF PoolOK, Target
        <5> QED
          BY <1>1, <1>9, <3>2, <5>1
      <4>2. CASE consumer_pool[j] # c
        BY <1>1, <1>7, <1>9, <2>1, <3>1, <3>2, <4>2 DEF RefsInv, PostedOnce
      <4> QED
        BY <4>1, <4>2
    <3>3. CASE u # s
      <4>1. ref[u] # r
        BY <1>3, <3>3, MemoryAssumption DEF RefsInv, CountOK
      <4>2. ref[u] \in InBox(consumer_pool[j])
        BY <1>1, <1>7, <2>1, <3>1, <4>1
      <4> QED
        BY <1>1, <1>9, <2>1, <3>3, <4>2 DEF RefsInv, PostedOnce
    <3> QED
      BY <3>2, <3>3
  <2>2. ASSUME NEW u \in Senders, pc'[u] = "retain" PROVE ref'[u] \in InBox(Target(u))'
    <3>1. CASE u = s
      BY <1>1, <1>2, <1>3, <1>7, <3>1 DEF Target
    <3>2. CASE u # s
      <4>1. pc[u] = "retain" /\ ref[u] \in InBox(Target(u))
        BY <1>9, <2>2, <3>2 DEF RefsInv, PostedOnce
      <4>2. Target(u)' = Target(u) /\ Target(u) \in Consumers
        BY <1>1, <4>1, TargetRegistered DEF Target, TypeInv, LocalsOK
      <4> QED
        BY <1>1, <1>7, <4>1, <4>2
    <3> QED
      BY <3>1, <3>2
  <2> QED
    BY <1>1, <1>7, <2>1, <2>2 DEF PostedOnce
<1> QED
  BY <1>14, <1>15 DEF RefsInv

\* telemetry_reference_retain counts that mailbox.
LEMMA RetainStep ==
  ASSUME TypeInv, RefsInv, NEW s \in Senders, Retain(s)
  PROVE  RefsInv'
<1>1. /\ pc[s] = "retain" /\ pc' = [pc EXCEPT ![s] = "filter"]
      /\ index' = [index EXCEPT ![s] = @ + 1] /\ index[s] <= num_consumers[s]
      /\ reference_count' = [reference_count EXCEPT ![ref[s]] = @ + 1]
      /\ UNCHANGED <<ref_pool, mailbox, consumer_pool, ref, num_consumers, fetched, freeing>>
  BY DEF Retain, At, Goto, NextConsumer, TypeInv, LocalsOK
<1>2. PICK c \in Consumers : c = Target(s)
  BY <1>1, TargetRegistered
<1>3. PICK r \in Refs : r = ref[s]
  BY <1>1 DEF TypeInv, TypeOK, LocalsOK
<1>4. \A u \in Senders : u # s => ref[u] # r /\ pc'[u] = pc[u] /\ index'[u] = index[u]
  BY <1>1, <1>3, MemoryAssumption DEF RefsInv, CountOK, TypeInv, TypeOK, Threads
<1>5. pc'[s] = "filter" /\ index'[s] = index[s] + 1 /\ index[s] \in Nat /\ num_consumers[s] \in Nat
  BY <1>1 DEF TypeInv, TypeOK, Threads
<1>6. \A q : /\ Owners(q)' = Owners(q) /\ Fetchers(q)' = Fetchers(q)
             /\ \A d : InBox(d)' = InBox(d)
  BY <1>1 DEF Owners, Fetchers, InBox
<1>7. \A q \in Refs : \A d \in Consumers :
        Unretained(q, d)' <=> Unretained(q, d) /\ q # r
  BY <1>1, <1>3, <1>4, <1>5 DEF Unretained, Target
<1>8. Unretained(r, c) /\ r \in InBox(c) /\ \A d \in Consumers : Unretained(r, d) => d = c
  BY <1>1, <1>2, <1>3, <1>4 DEF Unretained, Target, RefsInv, PostedOnce
<1>9. HolderCount(r)' = HolderCount(r) + 1
  <2>1. Boxes(r)' = Boxes(r) \cup {c} /\ c \notin Boxes(r)
    BY <1>6, <1>7, <1>8 DEF Boxes
  <2>2. Cardinality(Boxes(r)') = Cardinality(Boxes(r)) + 1
    BY <2>1, CardAdd, HoldersFinite
  <2> QED
    BY <1>6, <2>2, HoldersFinite DEF HolderCount
<1>10. ASSUME NEW q \in Refs, q # r PROVE HolderCount(q)' = HolderCount(q)
  <2>1. Boxes(q)' = Boxes(q)
    BY <1>6, <1>7, <1>10 DEF Boxes
  <2> QED
    BY <1>6, <2>1 DEF HolderCount
<1>11. \A q \in Refs : Held(q)' <=> Held(q)
  BY <1>1 DEF Held
<1>12. CountOK'
  <2>1. r \notin ref_pool
    BY <1>1, <1>3 DEF RefsInv, FreeOK, Held
  <2> QED
    BY <1>1, <1>3, <1>9, <1>10, <2>1 DEF RefsInv, CountOK, TypeInv, TypeOK
<1>13. FreeOK'
  BY <1>1, <1>11 DEF RefsInv, FreeOK, TypeInv, TypeOK
<1>14. PostedOnce'
  <2>1. ASSUME NEW u \in Senders, NEW j \in index'[u]..num_consumers'[u],
               ref'[u] \in InBox(consumer_pool[j])'
        PROVE  pc'[u] = "retain" /\ j = index'[u]
    <3>1. j \in index[u]..num_consumers[u] /\ (u = s => j # index[u])
      BY <1>1, <1>4, <1>5, <2>1
    <3>2. ref[u] \in InBox(consumer_pool[j])
      BY <1>1, <1>6, <2>1
    <3> QED
      BY <1>4, <3>1, <3>2 DEF RefsInv, PostedOnce
  <2>2. ASSUME NEW u \in Senders, pc'[u] = "retain" PROVE ref'[u] \in InBox(Target(u))'
    <3>1. u # s /\ pc[u] = "retain" /\ Target(u)' = Target(u)
      BY <1>1, <1>4, <1>5, <2>2 DEF Target
    <3> QED
      BY <1>1, <1>6, <3>1 DEF RefsInv, PostedOnce
  <2> QED
    BY <1>1, <2>1, <2>2 DEF PostedOnce, RefsInv
<1> QED
  BY <1>12, <1>13, <1>14 DEF RefsInv

\* The sender gives its own count back.
LEMMA EndSendStep ==
  ASSUME TypeInv, RefsInv, NEW s \in Senders, EndSend(s)
  PROVE  RefsInv'
<1>1. /\ pc[s] = "filter" /\ pc' = [pc EXCEPT ![s] = "idle"] /\ freeing[s] = None
      /\ ref' = [ref EXCEPT ![s] = None]
      /\ Release(s, ref[s])
      /\ UNCHANGED <<ref_pool, mailbox, consumer_pool, index, num_consumers, fetched>>
  BY DEF EndSend, At, Goto
<1>2. PICK r \in Refs : r = ref[s] /\ Held(r)
  BY <1>1 DEF TypeInv, TypeOK, LocalsOK, Held
<1>3. /\ ref'[s] = None
      /\ \A u \in Senders : u # s => ref'[u] = ref[u] /\ ref[u] # r
      /\ \A u \in Senders : (pc'[u] = "retain") <=> (pc[u] = "retain")
  BY <1>1, <1>2, MemoryAssumption DEF RefsInv, CountOK, TypeInv, TypeOK, Threads
<1>4. \A q \in Refs : /\ Fetchers(q)' = Fetchers(q)
                      /\ \A d : InBox(d)' = InBox(d)
                      /\ \A d : Unretained(q, d)' <=> Unretained(q, d)
  BY <1>1, <1>3, MemoryAssumption DEF Fetchers, InBox, Unretained, Target
<1>5. \A q \in Refs : Boxes(q)' = Boxes(q)
  BY <1>4 DEF Boxes
<1>6. HolderCount(r)' = HolderCount(r) - 1
  <2>1. Owners(r)' = Owners(r) \ {s} /\ s \in Owners(r)
    BY <1>2, <1>3, MemoryAssumption DEF Owners
  <2>2. Cardinality(Owners(r)') = Cardinality(Owners(r)) - 1
    BY <2>1, CardRemove, HoldersFinite
  <2> QED
    BY <1>4, <1>5, <2>2, HoldersFinite DEF HolderCount
<1>7. ASSUME NEW q \in Refs, q # r PROVE HolderCount(q)' = HolderCount(q)
  <2>1. Owners(q)' = Owners(q)
    BY <1>2, <1>3, <1>7, MemoryAssumption DEF Owners
  <2> QED
    BY <1>4, <1>5, <2>1 DEF HolderCount
<1>8. OneOwner'
  BY <1>3 DEF OneOwner, RefsInv, CountOK
<1>9. CountOK' /\ FreeOK'
  <2>1. s \in Threads /\ Release(s, r)
    BY <1>1, <1>2 DEF Threads
  <2> QED
    BY <1>1, <1>2, <1>6, <1>7, <1>8, <2>1, CountReleased DEF RefsInv, TypeInv
<1>10. PostedOnce'
  <2>1. ASSUME NEW u \in Senders, NEW j \in index'[u]..num_consumers'[u],
               ref'[u] \in InBox(consumer_pool[j])'
        PROVE  pc'[u] = "retain" /\ j = index'[u]
    <3>1. consumer_pool[j] \in Consumers
      BY <1>1, <2>1 DEF TypeInv, TypeOK, LocalsOK
    <3>2. u # s
      BY <1>1, <1>3, <2>1, <3>1, MemoryAssumption DEF InBox, TypeInv, TypeOK
    <3>3. ref[u] \in InBox(consumer_pool[j])
      BY <1>1, <1>3, <2>1, <3>2 DEF InBox
    <3> QED
      BY <1>1, <1>3, <2>1, <3>2, <3>3 DEF RefsInv, PostedOnce
  <2>2. ASSUME NEW u \in Senders, pc'[u] = "retain" PROVE ref'[u] \in InBox(Target(u))'
    BY <1>1, <1>3, <2>2 DEF RefsInv, PostedOnce, InBox, Target
  <2> QED
    BY <1>1, <2>1, <2>2 DEF PostedOnce, RefsInv
<1> QED
  BY <1>9, <1>10 DEF RefsInv

\* A new reference starts with one holder, its sender.
LEMMA CreateRefStep ==
  ASSUME TypeInv, RefsInv, NEW s \in Senders, CreateRef(s)
  PROVE  RefsInv'
<1>1. PICK r \in ref_pool :
        /\ ref_pool' = ref_pool \ {r}
        /\ reference_count' = [reference_count EXCEPT ![r] = 1]
        /\ ref' = [ref EXCEPT ![s] = r]
  BY DEF CreateRef
<1>2. /\ pc[s] = "create" /\ pc' = [pc EXCEPT ![s] = "filter"]
      /\ index' = [index EXCEPT ![s] = 1]
      /\ num_consumers' = [num_consumers EXCEPT ![s] = Len(consumer_pool)]
      /\ UNCHANGED <<mailbox, consumer_pool, fetched, freeing>>
  BY DEF CreateRef, At, Goto
<1>3. r \in Refs /\ r # None /\ ~Held(r) /\ ref[s] = None
  BY <1>2, MemoryAssumption DEF TypeInv, TypeOK, LocalsOK, RefsInv, FreeOK
<1>4. /\ ref'[s] = r
      /\ \A u \in Senders : u # s => /\ ref'[u] = ref[u] /\ ref[u] # r
                                     /\ index'[u] = index[u]
                                     /\ num_consumers'[u] = num_consumers[u]
      /\ \A u \in Senders : (pc'[u] = "retain") <=> (pc[u] = "retain")
      /\ pc[s] # "retain"
  BY <1>1, <1>2, <1>3 DEF Held, TypeInv, TypeOK, Threads
<1>5. \A q \in Refs : /\ Fetchers(q)' = Fetchers(q)
                      /\ \A d : InBox(d)' = InBox(d)
                      /\ \A d : Unretained(q, d)' <=> Unretained(q, d)
  BY <1>2, <1>4 DEF Fetchers, InBox, Unretained, Target
<1>6. \A q \in Refs : Boxes(q)' = Boxes(q)
  BY <1>5 DEF Boxes
<1>7. HolderCount(r)' = 1
  <2>1. Owners(r)' = Owners(r) \cup {s} /\ s \notin Owners(r)
    BY <1>3, <1>4 DEF Owners
  <2>2. Cardinality(Owners(r)') = Cardinality(Owners(r)) + 1
    BY <2>1, CardAdd, HoldersFinite
  <2>3. HolderCount(r) = 0
    BY <1>3, HeldIffCounted
  <2> QED
    BY <1>3, <1>5, <1>6, <2>2, <2>3, HoldersFinite DEF HolderCount
<1>8. ASSUME NEW q \in Refs, q # r PROVE HolderCount(q)' = HolderCount(q)
  <2>1. Owners(q)' = Owners(q)
    BY <1>3, <1>4, <1>8, MemoryAssumption DEF Owners
  <2> QED
    BY <1>5, <1>6, <2>1 DEF HolderCount
<1>9. \A q \in Refs : q # r => (Held(q)' <=> Held(q))
  BY <1>8, HeldIffCounted, HeldIffCountedNext
<1>10. Held(r)'
  BY <1>3, <1>7, HeldIffCountedNext
<1>11. CountOK'
  <2>1. OneOwner'
    BY <1>3, <1>4 DEF OneOwner, RefsInv, CountOK
  <2>2. \A q \in Refs \ ref_pool' : reference_count'[q] = HolderCount(q)'
    BY <1>1, <1>3, <1>7, <1>8 DEF RefsInv, CountOK, TypeInv, TypeOK
  <2> QED
    BY <2>1, <2>2 DEF CountOK, OneOwner
<1>12. FreeOK'
  <2>1. \A q \in ref_pool' : ~Held(q)'
    BY <1>1, <1>9 DEF RefsInv, FreeOK, TypeInv, TypeOK
  <2>2. \A t \in Threads : freeing'[t] # None =>
          ~Held(freeing[t])' /\ freeing'[t] \notin ref_pool'
    <3> SUFFICES ASSUME NEW t \in Threads, freeing[t] # None
                 PROVE  ~Held(freeing[t])' /\ freeing[t] \notin ref_pool'
      BY <1>2
    <3>1. PICK q \in Refs : q = freeing[t] /\ ~Held(q) /\ q \notin ref_pool
      BY DEF RefsInv, FreeOK, TypeInv, TypeOK
    <3>2. ~Held(q)' /\ freeing'[t] = q
      BY <1>1, <1>2, <1>9, <3>1
    <3> QED
      BY <1>1, <3>1, <3>2
  <2>3. \A t, u \in Threads : freeing'[t] # None /\ freeing'[t] = freeing'[u] => t = u
    BY <1>2 DEF RefsInv, FreeOK
  <2>4. \A q \in Refs \ ref_pool' : Held(q)' \/ \E t \in Threads : freeing'[t] = q
    BY <1>1, <1>2, <1>9, <1>10 DEF RefsInv, FreeOK
  <2> QED
    BY <2>1, <2>2, <2>3, <2>4 DEF FreeOK
<1>13. PostedOnce'
  <2>1. ASSUME NEW u \in Senders, NEW j \in index'[u]..num_consumers'[u],
               ref'[u] \in InBox(consumer_pool[j])'
        PROVE  pc'[u] = "retain" /\ j = index'[u]
    <3>1. consumer_pool[j] \in Consumers
      BY <1>2, <1>4, <2>1 DEF TypeInv, TypeOK, LocalsOK
    <3>2. ref'[u] \in InBox(consumer_pool[j])
      BY <1>2, <2>1 DEF InBox
    <3>3. u # s
      BY <1>3, <1>4, <3>1, <3>2 DEF Held, InBox
    <3> QED
      BY <1>4, <2>1, <3>2, <3>3 DEF RefsInv, PostedOnce
  <2>2. ASSUME NEW u \in Senders, pc'[u] = "retain" PROVE ref'[u] \in InBox(Target(u))'
    BY <1>2, <1>4, <2>2 DEF RefsInv, PostedOnce, InBox, Target
  <2> QED
    BY <1>2, <2>1, <2>2 DEF PostedOnce, RefsInv
<1> QED
  BY <1>11, <1>12, <1>13 DEF RefsInv

\* telemetry_allocator_free and chPoolFree: nobody holds what goes back.
LEMMA FreeStep ==
  ASSUME TypeInv, RefsInv, NEW t \in Threads, FreeRef(t)
  PROVE  RefsInv'
<1>1. PICK r \in Refs : r = freeing[t] /\ ~Held(r) /\ r \notin ref_pool
  BY DEF FreeRef, ReturningOK, TypeInv, TypeOK, RefsInv, FreeOK
<1>2. /\ ref_pool' = ref_pool \cup {r}
      /\ freeing' = [freeing EXCEPT ![t] = None]
      /\ UNCHANGED <<pc, reference_count, mailbox, consumer_pool, ref, index, num_consumers,
                     fetched>>
  BY <1>1 DEF FreeRef
<1>3. \A q : /\ Owners(q)' = Owners(q) /\ Boxes(q)' = Boxes(q) /\ Fetchers(q)' = Fetchers(q)
             /\ Held(q)' = Held(q)
  BY <1>2 DEF Owners, Boxes, Fetchers, InBox, Unretained, Target, Held
<1>4. CountOK'
  BY <1>2, <1>3 DEF RefsInv, CountOK, HolderCount
<1>5. /\ freeing'[t] = None
      /\ \A u \in Threads : u # t => freeing'[u] = freeing[u] /\ freeing[u] # r
  BY <1>1, <1>2, MemoryAssumption DEF RefsInv, FreeOK, TypeInv, TypeOK
<1>6. FreeOK'
  <2>1. \A q \in ref_pool' : ~Held(q)'
    BY <1>1, <1>2, <1>3 DEF RefsInv, FreeOK
  <2>2. \A u \in Threads : freeing'[u] # None =>
          ~Held(freeing[u])' /\ freeing'[u] \notin ref_pool'
    <3> SUFFICES ASSUME NEW u \in Threads, u # t, freeing'[u] # None
                 PROVE  ~Held(freeing[u])' /\ freeing'[u] \notin ref_pool'
      BY <1>5
    <3>1. ~Held(freeing[u]) /\ freeing[u] \notin ref_pool /\ freeing'[u] = freeing[u]
      BY <1>5 DEF RefsInv, FreeOK
    <3>2. ~Held(freeing[u])'
      BY <1>2, <3>1 DEF Held
    <3> QED
      BY <1>2, <1>5, <3>1, <3>2
  <2>3. \A u, v \in Threads : freeing'[u] # None /\ freeing'[u] = freeing'[v] => u = v
    BY <1>5 DEF RefsInv, FreeOK
  <2>4. \A q \in Refs \ ref_pool' : Held(q)' \/ \E u \in Threads : freeing'[u] = q
    <3> SUFFICES ASSUME NEW q \in Refs \ ref_pool', ~Held(q)
                 PROVE  \E u \in Threads : freeing'[u] = q
      BY <1>3
    <3>1. PICK u \in Threads : freeing[u] = q
      BY <1>2 DEF RefsInv, FreeOK
    <3>2. u # t
      BY <1>1, <1>2, <3>1
    <3> QED
      BY <1>5, <3>1, <3>2
  <2> QED
    BY <2>1, <2>2, <2>3, <2>4 DEF FreeOK
<1>7. PostedOnce'
  BY <1>2 DEF RefsInv, PostedOnce, InBox, Target
<1> QED
  BY <1>4, <1>6, <1>7 DEF RefsInv

\* A consumer registers with an empty mailbox, behind every send's snapshot.
LEMMA RegisterStep ==
  ASSUME TypeInv, PoolOK, RefsInv, NEW c \in Consumers, At(c, "init"), Register(c)
  PROVE  RefsInv'
<1>1. /\ pc[c] = "init" /\ pc' = [pc EXCEPT ![c] = "returned"]
      /\ mailbox[c] = <<>> /\ mailbox' = [mailbox EXCEPT ![c] = <<>>]
      /\ consumer_pool' = Append(consumer_pool, c)
      /\ UNCHANGED <<ref_pool, reference_count, ref, index, num_consumers, fetched, freeing>>
  BY DEF Register, At, Goto, PoolOK, locals
<1>2. mailbox' = mailbox
  BY <1>1 DEF TypeInv, TypeOK
<1>3. \A j \in 1..Len(consumer_pool) : consumer_pool'[j] = consumer_pool[j]
  BY <1>1 DEF TypeInv, TypeOK
<1>4. \A s \in Senders : pc'[s] = pc[s]
  BY <1>1, ThreadAssumption DEF TypeInv, TypeOK, Threads
<1>5. \A s \in Senders : pc[s] = "retain" => Target(s)' = Target(s)
  BY <1>1, <1>3, TargetRegistered DEF Target, TypeInv, LocalsOK
<1>6. \A q : /\ Owners(q)' = Owners(q) /\ Fetchers(q)' = Fetchers(q)
             /\ \A d : Unretained(q, d)' <=> Unretained(q, d)
  BY <1>1, <1>4, <1>5 DEF Owners, Fetchers, Unretained
<1>7. \A q : Boxes(q)' = Boxes(q)
  BY <1>2, <1>6 DEF Boxes, InBox
<1>8. \A q \in Refs : HolderCount(q)' = HolderCount(q)
  BY <1>6, <1>7 DEF HolderCount
<1>9. OneOwner'
  BY <1>1 DEF OneOwner, RefsInv, CountOK
<1>10. CountOK' /\ FreeOK'
  BY <1>1, <1>8, <1>9, CountsKept DEF RefsInv, TypeInv
<1>11. PostedOnce'
  <2>1. ASSUME NEW u \in Senders, NEW j \in index'[u]..num_consumers'[u],
               ref'[u] \in InBox(consumer_pool'[j])
        PROVE  pc'[u] = "retain" /\ j = index'[u]
    <3>1. j \in 1..Len(consumer_pool) /\ j \in index[u]..num_consumers[u]
      BY <1>1, <2>1 DEF TypeInv, TypeOK, LocalsOK
    <3> QED
      BY <1>1, <1>3, <1>4, <2>1, <3>1 DEF RefsInv, PostedOnce
  <2>2. ASSUME NEW u \in Senders, NEW j \in index'[u]..num_consumers'[u],
               ref'[u] \in InBox(consumer_pool[j])'
        PROVE  pc'[u] = "retain" /\ j = index'[u]
    BY <1>2, <2>1, <2>2 DEF InBox
  <2>3. ASSUME NEW u \in Senders, pc'[u] = "retain" PROVE ref'[u] \in InBox(Target(u))'
    <3>1. pc[u] = "retain" /\ ref[u] \in InBox(Target(u)) /\ Target(u)' = Target(u)
      BY <1>4, <1>5, <2>3 DEF RefsInv, PostedOnce
    <3> QED
      BY <1>1, <1>2, <3>1 DEF InBox
  <2> QED
    BY <1>2, <2>2, <2>3 DEF PostedOnce, RefsInv
<1> QED
  BY <1>10, <1>11 DEF RefsInv

-----------------------------------------------------------------------------
(* The whole of a sender's and of a consumer's steps *)

\* Every step of a sender keeps the counts exact ...
LEMMA SendRefs ==
  ASSUME TypeInv, PoolOK, RefsInv, ~FetchBeforeRetain, NEW s \in Senders, Sender(s), TypeInv'
  PROVE  RefsInv'
<1> USE DEF At, Goto, shared, locals
<1>1. CASE Alloc(s) \/ AllocFails(s) \/ CreateRefFails(s) \/ Select(s) \/ PostFails(s)
             \/ DropNothing(s)
  <2>1. StillRefs
    BY <1>1 DEF telemetry_allocator_alloc, telemetry_allocator_free, Alloc, AllocFails,
                CreateRefFails, Select, PostFails, DropNothing,
                StillRefs, TypeInv, TypeOK, Threads
  <2> QED
    BY <2>1, StillStep
<1>2. CASE Skip(s) \/ RepostFails(s)
  <2>1. /\ UNCHANGED <<ref_pool, reference_count, mailbox, consumer_pool, ref, fetched,
                       freeing, num_consumers>>
        /\ pc[s] \in {"filter", "repost"} /\ pc' = [pc EXCEPT ![s] = "filter"]
        /\ index' = [index EXCEPT ![s] = @ + 1]
    BY <1>2 DEF Skip, RepostFails, NextConsumer
  <2>2. StillRefs
    BY <2>1 DEF StillRefs, TypeInv, TypeOK, Threads
  <2> QED
    BY <2>2, StillStep
<1>3. CASE Post(s)
  BY <1>3, PostStep
<1>4. CASE Retain(s)
  BY <1>4, RetainStep
<1>5. CASE EndSend(s)
  BY <1>5, EndSendStep
<1>6. CASE CreateRef(s)
  BY <1>6, CreateRefStep
<1>7. CASE DropOldest(s)
  <2>1. s \in Threads /\ fetched[s] = None /\ Target(s) \in Consumers
    BY <1>7, TargetRegistered DEF DropOldest, TypeInv, LocalsOK, Threads
  <2>2. /\ Fetch(s, Target(s))
        /\ UNCHANGED <<ref_pool, reference_count, consumer_pool, ref, index, num_consumers,
                       freeing>>
        /\ \A u \in Senders : (pc'[u] = "retain") <=> (pc[u] = "retain")
    BY <1>7 DEF DropOldest, TypeInv, TypeOK, Threads
  <2> QED
    BY <2>1, <2>2, FetchStep
<1>8. CASE ReleaseDropped(s)
  <2>1. s \in Threads /\ fetched[s] # None
    BY <1>8 DEF ReleaseDropped, TypeInv, LocalsOK, Threads
  <2>2. /\ Release(s, fetched[s]) /\ fetched' = [fetched EXCEPT ![s] = None] /\ freeing[s] = None
        /\ UNCHANGED <<ref_pool, mailbox, consumer_pool, ref, index, num_consumers>>
        /\ \A u \in Senders : (pc'[u] = "retain") <=> (pc[u] = "retain")
    BY <1>8 DEF ReleaseDropped, TypeInv, TypeOK, Threads
  <2> QED
    BY <2>1, <2>2, ReleaseFetchedStep
<1> QED
  BY <1>1, <1>2, <1>3, <1>4, <1>5, <1>6, <1>7, <1>8 DEF Sender, FinishSend

\* ... and every step of a consumer's thread ...
LEMMA ReceiveRefs ==
  ASSUME TypeInv, PoolOK, RefsInv, ~FetchBeforeRetain, NEW c \in Consumers, Consumer(c), TypeInv'
  PROVE  RefsInv'
<1> USE DEF At, Goto, shared, locals
<1>1. CASE At(c, "init") /\ Register(c)
  BY <1>1, RegisterStep
<1>2. CASE RegisterFails(c) \/ ReceiveInvalid(c) \/ FlushEnds(c) \/ Resume(c)
             \/ \E flush_buffer \in BOOLEAN : Pause(c, flush_buffer)
  <2>1. /\ UNCHANGED <<ref_pool, reference_count, mailbox, consumer_pool, ref, fetched,
                       freeing, num_consumers, index>>
        /\ \A s \in Senders : pc'[s] = pc[s]
    BY <1>2, ThreadAssumption
    DEF RegisterFails, ReceiveInvalid, FlushEnds, Resume, Pause, TypeInv, TypeOK, Threads
  <2>2. StillRefs
    BY <2>1 DEF StillRefs, TypeInv, TypeOK
  <2> QED
    BY <2>2, StillStep
<1>3. CASE Receive(c) \/ FlushFetch(c)
  <2>1. c \in Threads /\ fetched[c] = None
    BY <1>3 DEF Receive, FlushFetch, TypeInv, LocalsOK, Threads
  <2>2. /\ Fetch(c, c)
        /\ UNCHANGED <<ref_pool, reference_count, consumer_pool, ref, index, num_consumers,
                       freeing>>
        /\ \A u \in Senders : (pc'[u] = "retain") <=> (pc[u] = "retain")
    BY <1>3, ThreadAssumption DEF Receive, FlushFetch, TypeInv, TypeOK, Threads
  <2> QED
    BY <2>1, <2>2, FetchStep
<1>4. CASE CallbackReturns(c) \/ FlushRelease(c)
  <2>1. c \in Threads /\ fetched[c] # None
    BY <1>4 DEF CallbackReturns, FlushRelease, TypeInv, LocalsOK, Threads
  <2>2. /\ Release(c, fetched[c]) /\ fetched' = [fetched EXCEPT ![c] = None] /\ freeing[c] = None
        /\ UNCHANGED <<ref_pool, mailbox, consumer_pool, ref, index, num_consumers>>
        /\ \A u \in Senders : (pc'[u] = "retain") <=> (pc[u] = "retain")
    BY <1>4, ThreadAssumption DEF CallbackReturns, FlushRelease, TypeInv, TypeOK, Threads
  <2> QED
    BY <2>1, <2>2, ReleaseFetchedStep
<1> QED
  BY <1>1, <1>2, <1>3, <1>4 DEF Consumer, messaging_consumer_init, Serve

\* ... so every step of the system does.
LEMMA RefsStep ==
  ASSUME TypeInv, PoolOK, RefsInv, ~FetchBeforeRetain, Next, TypeInv'
  PROVE  RefsInv'
<1>1. ASSUME NEW t \in Threads, FreePacket(t) PROVE RefsInv'
  <2>1. StillRefs
    BY <1>1 DEF FreePacket, StillRefs, TypeInv, TypeOK
  <2> QED
    BY <2>1, StillStep
<1> QED
  BY <1>1, SendRefs, ReceiveRefs, FreeStep DEF Next, Free

-----------------------------------------------------------------------------
(* Packets *)

\* The references that have a packet change only where a reference leaves the pool and
\* where a packet is freed.
LEMMA LiveKept ==
  ASSUME returning' = returning, \A t \in returning : freeing'[t] = freeing[t],
         ref_pool' = ref_pool
  PROVE  Live' = Live
  BY DEF Live

LEMMA LiveCreated ==
  ASSUME TypeOK, FreeOK, NEW r \in ref_pool, ref_pool' = ref_pool \ {r},
         returning' = returning, \A t \in returning : freeing'[t] = freeing[t]
  PROVE  Live' = Live \cup {r} /\ r \notin Live
<1>1. \A t \in returning : freeing[t] # r
  BY MemoryAssumption DEF FreeOK, TypeOK
<1>2. r \in Refs
  BY DEF TypeOK
<1> QED
  BY <1>1, <1>2 DEF Live

LEMMA LiveFreed ==
  ASSUME TypeOK, FreeOK, NEW t \in Threads, FreePacket(t)
  PROVE  Live' = Live \ {freeing[t]} /\ freeing[t] \in Live
<1>1. freeing[t] \in Refs \ ref_pool /\ \A u \in returning : freeing[u] # freeing[t]
  BY DEF FreePacket, FreeOK, TypeOK
<1>2. ref_pool' = ref_pool /\ returning' = returning \cup {t} /\ freeing' = freeing
  BY DEF FreePacket
<1> QED
  BY <1>1, <1>2 DEF Live

LEMMA LiveReturned ==
  ASSUME TypeOK, NEW t \in Threads, FreeRef(t)
  PROVE  Live' = Live /\ freeing[t] \notin Live
<1>1. /\ t \in returning /\ ref_pool' = ref_pool \cup {freeing[t]}
      /\ returning' = returning \ {t} /\ \A u \in returning' : freeing'[u] = freeing[u]
  BY DEF FreeRef, TypeOK
<1>2. {freeing'[u] : u \in returning'} = {freeing[u] : u \in returning'}
  BY <1>1
<1> QED
  BY <1>1, <1>2 DEF Live

\* A packet is live as long as its reference is, and belongs to one reference.
LEMMA PacketsStep ==
  ASSUME TypeInv, FreeOK, PacketsOK, Next, TypeInv'
  PROVE  PacketsOK'
<1> USE DEF At, Goto, shared, locals
<1>a. ASSUME NEW s \in Senders, Sender(s)
      PROVE  /\ returning' = returning
             /\ \A t \in returning : freeing'[t] = freeing[t] /\ freeing'[t] # None
  BY <1>a, FreeingKept
<1>b. ASSUME NEW c \in Consumers, Consumer(c)
      PROVE  /\ returning' = returning
             /\ \A t \in returning : freeing'[t] = freeing[t] /\ freeing'[t] # None
  BY <1>b, FreeingKept
<1>1. CASE UNCHANGED <<heap, ref_packet, packet>> /\ Live' = Live
  BY <1>1 DEF PacketsOK
<1>2. ASSUME NEW s \in Senders, Alloc(s) PROVE PacketsOK'
  <2>1. PICK p \in Packets, m \in Messages :
          /\ heap[p] = None
          /\ heap' = [heap EXCEPT ![p] = m]
          /\ packet' = [packet EXCEPT ![s] = p]
    BY <1>2, MemoryAssumption DEF telemetry_allocator_alloc, telemetry_allocator_free, Alloc
  <2>0. ref_pool' = ref_pool /\ ref_packet' = ref_packet /\ packet[s] = None
    BY <1>2 DEF telemetry_allocator_alloc, telemetry_allocator_free, Alloc, TypeInv, LocalsOK
  <2>2. Live' = Live /\ ref_packet' = ref_packet /\ packet[s] = None
    BY <1>2, <1>a, <2>0, LiveKept DEF Sender
  <2>3. heap'[p] # None /\ \A o \in Packets : o # p => heap'[o] = heap[o]
    BY <2>1, MemoryAssumption DEF TypeInv, TypeOK
  <2>4. packet'[s] = p /\ p # None /\ \A u \in Senders : u # s => packet'[u] = packet[u] /\ packet[u] # p
    BY <2>1, MemoryAssumption DEF TypeInv, TypeOK, PacketsOK
  <2>5. \A r \in Live : ref_packet[r] # p
    BY <2>1 DEF PacketsOK
  <2>6. \A u \in Senders : packet'[u] # None => packet'[u] \in Packets
    BY DEF TypeInv, TypeOK
  <2>7. \A u \in Senders : packet'[u] # None =>
          /\ heap'[packet'[u]] # None
          /\ \A v \in Senders : packet'[v] = packet'[u] => v = u
          /\ \A r \in Live : ref_packet[r] # packet'[u]
    BY <2>3, <2>4, <2>5, <2>6 DEF PacketsOK
  <2>8. \A o \in Packets : heap'[o] # None =>
          \/ \E r \in Live : ref_packet[r] = o
          \/ \E u \in Senders : packet'[u] = o
    <3> SUFFICES ASSUME NEW o \in Packets, heap'[o] # None, o # p
                 PROVE  \/ \E r \in Live : ref_packet[r] = o
                        \/ \E u \in Senders : packet'[u] = o
      BY <2>4
    <3>1. heap[o] # None
      BY <2>3
    <3> QED
      BY <2>2, <2>4, <3>1, MemoryAssumption DEF PacketsOK
  <2> QED
    BY <2>2, <2>3, <2>5, <2>7, <2>8 DEF PacketsOK
<1>3. ASSUME NEW s \in Senders, CreateRef(s) PROVE PacketsOK'
  <2>1. PICK r \in ref_pool :
          /\ ref_pool' = ref_pool \ {r}
          /\ ref_packet' = [ref_packet EXCEPT ![r] = packet[s]]
    BY <1>3 DEF CreateRef
  <2>2. /\ packet[s] # None /\ packet[s] \in Packets /\ heap' = heap
        /\ packet' = [packet EXCEPT ![s] = None] /\ r \in Refs
    BY <1>3 DEF CreateRef, TypeInv, TypeOK, LocalsOK
  <2>3. Live' = Live \cup {r} /\ r \notin Live
    <3>1. Sender(s)
      BY <1>3 DEF Sender, FinishSend
    <3> QED
      BY <1>a, <2>1, <3>1, LiveCreated DEF TypeInv
  <2>4. ref_packet'[r] = packet[s] /\ \A q \in Live : ref_packet'[q] = ref_packet[q]
    BY <2>1, <2>2, <2>3 DEF TypeInv, TypeOK
  <2>5. packet'[s] = None /\ \A u \in Senders : u # s => packet'[u] = packet[u]
    BY <2>2 DEF TypeInv, TypeOK
  <2>6. \A q \in Live' : ref_packet'[q] \in Packets /\ heap'[ref_packet'[q]] # None
    BY <2>2, <2>3, <2>4 DEF PacketsOK
  <2>7. \A q, o \in Live' : ref_packet'[q] = ref_packet'[o] => q = o
    BY <2>2, <2>3, <2>4 DEF PacketsOK
  <2>8. \A u \in Senders : packet'[u] # None =>
          /\ heap'[packet'[u]] # None
          /\ \A v \in Senders : packet'[v] = packet'[u] => v = u
          /\ \A q \in Live' : ref_packet'[q] # packet'[u]
    BY <2>2, <2>3, <2>4, <2>5 DEF PacketsOK
  <2>9. \A p \in Packets : heap'[p] # None =>
          \/ \E q \in Live' : ref_packet'[q] = p
          \/ \E u \in Senders : packet'[u] = p
    BY <2>2, <2>3, <2>4, <2>5 DEF PacketsOK
  <2> QED
    BY <2>3, <2>6, <2>7, <2>8, <2>9 DEF PacketsOK
<1>4. ASSUME NEW s \in Senders, CreateRefFails(s) PROVE PacketsOK'
  <2>1. /\ packet[s] # None /\ packet[s] \in Packets
        /\ heap' = [heap EXCEPT ![packet[s]] = None]
        /\ packet' = [packet EXCEPT ![s] = None]
        /\ ref_pool' = ref_pool /\ ref_packet' = ref_packet
    BY <1>4 DEF telemetry_allocator_free, CreateRefFails, TypeInv, TypeOK, LocalsOK
  <2>5. Live' = Live
    <3>1. Sender(s)
      BY <1>4 DEF Sender, FinishSend
    <3> QED
      BY <1>a, <2>1, <3>1, LiveKept
  <2>2. heap'[packet[s]] = None /\ \A o \in Packets : o # packet[s] => heap'[o] = heap[o]
    BY <2>1 DEF TypeInv, TypeOK
  <2>3. packet'[s] = None /\ \A u \in Senders : u # s => packet'[u] = packet[u]
    BY <2>1 DEF TypeInv, TypeOK
  <2>4. \A u \in Senders : packet[u] # None => packet[u] \in Packets
    BY DEF TypeInv, TypeOK
  <2> QED
    BY <2>1, <2>2, <2>3, <2>4, <2>5 DEF PacketsOK
<1>5. ASSUME NEW t \in Threads, FreePacket(t) PROVE PacketsOK'
  <2>1. PICK r \in Live : r = freeing[t] /\ Live' = Live \ {r}
    BY <1>5, LiveFreed DEF TypeInv
  <2>2. /\ heap' = [heap EXCEPT ![ref_packet[r]] = None]
        /\ packet' = packet /\ ref_packet' = ref_packet
    BY <1>5, <2>1 DEF FreePacket, telemetry_allocator_free
  <2>3. /\ heap'[ref_packet[r]] = None
        /\ \A o \in Packets : o # ref_packet[r] => heap'[o] = heap[o]
    BY <2>2 DEF PacketsOK, TypeInv, TypeOK
  <2>4. \A u \in Senders : packet[u] # None => packet[u] \in Packets
    BY DEF TypeInv, TypeOK
  <2> QED
    BY <2>1, <2>2, <2>3, <2>4 DEF PacketsOK
<1>8. ASSUME NEW t \in Threads, FreeRef(t) PROVE PacketsOK'
  <2>1. Live' = Live /\ freeing[t] \notin Live
    BY <1>8, LiveReturned DEF TypeInv
  <2>2. heap' = heap /\ packet' = packet /\ \A q \in Live : ref_packet'[q] = ref_packet[q]
    BY <1>8, <2>1 DEF FreeRef, Live, TypeInv, TypeOK
  <2> QED
    BY <2>1, <2>2 DEF PacketsOK
<1>6. ASSUME NEW s \in Senders, Sender(s), ~Alloc(s), ~CreateRef(s), ~CreateRefFails(s)
      PROVE  PacketsOK'
  <2>1. UNCHANGED <<heap, ref_pool, ref_packet, packet>>
    BY <1>6 DEF Sender, FinishSend, AllocFails, Skip, Select, Post, PostFails, DropOldest,
                DropNothing, ReleaseDropped, RepostFails, Retain, EndSend
  <2> QED
    BY <1>1, <1>6, <1>a, <2>1, LiveKept
<1>7. ASSUME NEW c \in Consumers, Consumer(c)
      PROVE  PacketsOK'
  <2>1. UNCHANGED <<heap, ref_pool, ref_packet, packet>>
    BY <1>7 DEF Consumer, messaging_consumer_init, Serve, Register, RegisterFails, ReceiveInvalid,
                Receive, CallbackReturns, FlushFetch, FlushRelease, FlushEnds, Resume, Pause
  <2> QED
    BY <1>1, <1>7, <1>b, <2>1, LiveKept
<1> QED
  BY <1>2, <1>3, <1>4, <1>5, <1>6, <1>7, <1>8 DEF Next, Free

-----------------------------------------------------------------------------
(* Theorems of the specification *)

\* Reference counting in messaging.c is exact, for every number of threads and
\* every schedule in which no thread fetches a reference between its post and
\* its retain.
THEOREM RefCounting ==
  ASSUME ~FetchBeforeRetain
  PROVE  Spec => []RefCountInv
<1>1. Init => RefCountInv
  <2> SUFFICES ASSUME Init PROVE RefCountInv
    OBVIOUS
  <2>1. TypeInv
    BY TypeInvInit
  <2>2. PoolOK /\ PostedOnce
    BY DEF Init, PoolOK, PostedOnce, Threads
  <2>3. \A r \in Refs : ~Held(r)
    BY MemoryAssumption DEF Init, Held, InBox
  <2>4. CountOK /\ FreeOK /\ PacketsOK
    BY <2>3 DEF Init, CountOK, FreeOK, PacketsOK, Live
  <2> QED
    BY <2>1, <2>2, <2>4 DEF RefCountInv, TypeInv
<1>2. RefCountInv /\ [Next]_vars => RefCountInv'
  <2> SUFFICES ASSUME RefCountInv, [Next]_vars PROVE RefCountInv'
    OBVIOUS
  <2>1. TypeInv /\ PoolOK /\ RefsInv /\ PacketsOK
    BY DEF RefCountInv, TypeInv, RefsInv
  <2>2. CASE Next
    <3>1. TypeInv'
      BY <2>1, <2>2, SendTyping, ReceiveTyping, FreeTyping, ReturningStep DEF Next, TypeInv
    <3>2. PoolOK' /\ RefsInv' /\ PacketsOK'
      BY <2>1, <2>2, <3>1, PoolStep, RefsStep, PacketsStep DEF RefsInv
    <3> QED
      BY <3>1, <3>2 DEF RefCountInv, TypeInv, RefsInv
  <2>3. CASE UNCHANGED vars
    <3>1. TypeInv' /\ PoolOK' /\ PacketsOK'
      BY <2>1, <2>3 DEF TypeInv, TypeOK, LocalsOK, ReturningOK, PoolOK, PacketsOK, Live, vars,
                        shared, locals
    <3>2. StillRefs
      BY <2>1, <2>3 DEF StillRefs, TypeInv, TypeOK, vars, shared, locals
    <3>3. RefsInv'
      BY <2>1, <3>1, <3>2, StillStep
    <3> QED
      BY <3>1, <3>3 DEF RefCountInv, TypeInv, RefsInv
  <2> QED
    BY <2>2, <2>3
<1> QED
  BY <1>1, <1>2, PTL DEF Spec

\* Under the same assumption no packet is read or released after it was freed.
THEOREM MemorySafety ==
  ASSUME ~FetchBeforeRetain
  PROVE  Spec => []NoUseAfterFree
<1>1. RefCountInv => NoUseAfterFree
  <2> SUFFICES ASSUME RefCountInv, NEW r \in Refs, Held(r)
               PROVE  /\ r \notin ref_pool
                      /\ \A t \in Threads : freeing[t] # r
                      /\ ref_packet[r] \in Packets /\ Message(r) # None
    BY DEF NoUseAfterFree
  <2>1. r \notin ref_pool /\ \A t \in Threads : freeing[t] # r
    BY MemoryAssumption DEF RefCountInv, FreeOK
  <2>2. r \in Live
    BY <2>1 DEF RefCountInv, TypeOK, Live
  <2> QED
    BY <2>2, <2>1 DEF RefCountInv, PacketsOK, Message
<1> QED
  BY <1>1, RefCounting, PTL

\* ... nothing is freed twice ...
THEOREM FreedOnce ==
  ASSUME ~FetchBeforeRetain
  PROVE  Spec => []NoDoubleFree
<1>1. RefCountInv => NoDoubleFree
  BY DEF RefCountInv, FreeOK, PacketsOK, NoDoubleFree
<1> QED
  BY <1>1, RefCounting, PTL

\* ... and every allocated reference and packet still has someone to free it.
THEOREM LeakFreedom ==
  ASSUME ~FetchBeforeRetain
  PROVE  Spec => []NoLeak
<1>1. RefCountInv => NoLeak
  BY DEF RefCountInv, FreeOK, PacketsOK, NoLeak
<1> QED
  BY <1>1, RefCounting, PTL

-----------------------------------------------------------------------------
(* The bus: a step of Messaging is a step of MessageBus or invisible to it *)

\* What the bus needs of the code besides the reference counts: a mailbox never
\* exceeds its size, a send offers its message only to consumers that accept
\* it, a consumer that does anything has been registered, and one that flushes
\* is paused.
OfferInv ==
    /\ \A c \in Consumers : Len(mailbox[c]) <= MailboxSize[c]
    /\ \A s \in Senders : pc[s] \in {"post", "drop", "drop_release", "repost"} =>
         Message(ref[s]) \in Accepts[Target(s)]
    /\ \A c \in Consumers : pc[c] \notin {"init", "invalid"} => c \in BusRegistered
    /\ \A c \in Consumers : pc[c] \in {"flush", "flush_release"} => is_paused[c]

\* What a holder of a reference reads does not change under it.
Stable == \A r \in Refs : Held(r) => Message(r)' = Message(r)

\* A held reference is allocated and so is its packet.
LEMMA HeldLive ==
  ASSUME TypeOK, FreeOK, PacketsOK, NEW r \in Refs, Held(r)
  PROVE  /\ r \in Refs \ ref_pool /\ r \in Live
         /\ \A t \in Threads : freeing[t] # r
         /\ ref_packet[r] \in Packets /\ Message(r) \in Messages
<1>1. r \in Refs \ ref_pool /\ r \in Live /\ \A t \in Threads : freeing[t] # r
  BY MemoryAssumption DEF FreeOK, TypeOK, Live
<1>2. ref_packet[r] \in Packets /\ heap[ref_packet[r]] # None
  BY <1>1 DEF PacketsOK
<1> QED
  BY <1>1, <1>2 DEF Message, TypeOK

\* No step changes the packet behind a reference that someone holds: a packet
\* is written before its reference exists and freed after its last holder.
LEMMA MessageKept ==
  ASSUME TypeInv, FreeOK, PacketsOK, [Next]_vars
  PROVE  Stable
<1> SUFFICES ASSUME NEW r \in Refs, Held(r) PROVE Message(r)' = Message(r)
  BY DEF Stable
<1> USE DEF At, Goto, shared, locals
<1>1. /\ r \in Refs \ ref_pool /\ r \in Live /\ \A t \in Threads : freeing[t] # r
      /\ ref_packet[r] \in Packets /\ heap[ref_packet[r]] # None
  BY HeldLive, MemoryAssumption DEF Message, TypeInv
<1>2. CASE UNCHANGED <<heap, ref_packet>>
  BY <1>2 DEF Message
<1>3. ASSUME NEW s \in Senders, Alloc(s) PROVE Message(r)' = Message(r)
  BY <1>1, <1>3 DEF Alloc, telemetry_allocator_alloc, Message, TypeInv, TypeOK
<1>4. ASSUME NEW s \in Senders, CreateRef(s) PROVE Message(r)' = Message(r)
  <2>1. heap' = heap /\ \E q \in ref_pool : ref_packet' = [ref_packet EXCEPT ![q] = packet[s]]
    BY <1>4 DEF CreateRef
  <2>2. ref_packet'[r] = ref_packet[r]
    BY <1>1, <2>1 DEF TypeInv, TypeOK
  <2> QED
    BY <2>1, <2>2 DEF Message
<1>5. ASSUME NEW s \in Senders, CreateRefFails(s) PROVE Message(r)' = Message(r)
  <2>1. packet[s] # None /\ packet[s] \in Packets
    BY <1>5 DEF CreateRefFails, TypeInv, TypeOK, LocalsOK
  <2>2. ref_packet[r] # packet[s]
    BY <1>1, <2>1 DEF PacketsOK
  <2> QED
    BY <1>1, <1>5, <2>1, <2>2 DEF CreateRefFails, telemetry_allocator_free, Message, TypeInv, TypeOK
<1>6. ASSUME NEW t \in Threads, FreePacket(t) PROVE Message(r)' = Message(r)
  <2>1. freeing[t] # r /\ freeing[t] \in Live
    BY <1>1, <1>6, LiveFreed DEF TypeInv
  <2>2. ref_packet[freeing[t]] # ref_packet[r]
    BY <1>1, <2>1 DEF PacketsOK
  <2> QED
    BY <1>1, <1>6, <2>2 DEF FreePacket, telemetry_allocator_free, Message, TypeInv, TypeOK
<1>9. ASSUME NEW t \in Threads, FreeRef(t) PROVE Message(r)' = Message(r)
  BY <1>1, <1>9 DEF FreeRef, Message, TypeInv, TypeOK
<1>7. ASSUME NEW s \in Senders, Sender(s), ~Alloc(s), ~CreateRef(s), ~CreateRefFails(s)
      PROVE  UNCHANGED <<heap, ref_packet>>
  BY <1>7 DEF Sender, FinishSend, AllocFails, Skip, Select, Post, PostFails, DropOldest,
              DropNothing, ReleaseDropped, RepostFails, Retain, EndSend
<1>8. ASSUME NEW c \in Consumers, Consumer(c)
      PROVE  UNCHANGED <<heap, ref_packet>>
  BY <1>8 DEF Consumer, messaging_consumer_init, Serve, Register, RegisterFails, ReceiveInvalid,
              Receive, CallbackReturns, FlushFetch, FlushRelease, FlushEnds, Resume, Pause
<1> QED
  BY <1>2, <1>3, <1>4, <1>5, <1>6, <1>7, <1>8, <1>9 DEF Next, Free, vars

-----------------------------------------------------------------------------
(* What the bus sees of a step *)

\* A mailbox read through its references has the mailbox's length.
LEMMA QueueLength ==
  ASSUME TypeOK, NEW c \in Consumers
  PROVE  /\ Len(mailbox[c]) \in Nat /\ Len(BusQueue(c)) = Len(mailbox[c])
         /\ BusQueue(c) = <<>> <=> mailbox[c] = <<>>
<1>1. mailbox[c] \in Seq(Refs) /\ Len(mailbox[c]) \in Nat
  BY DEF TypeOK
<1>2. Len(BusQueue(c)) = Len(mailbox[c]) /\ DOMAIN BusQueue(c) = 1..Len(mailbox[c])
  BY <1>1 DEF BusQueue
<1>3. mailbox[c] = <<>> => BusQueue(c) = <<>>
  BY <1>2 DEF BusQueue
<1>4. BusQueue(c) = <<>> => mailbox[c] = <<>>
  BY <1>1, <1>2
<1> QED
  BY <1>1, <1>2, <1>3, <1>4

\* A mailbox that is left alone holds the messages it held.
LEMMA QueueKept ==
  ASSUME TypeOK, Stable, NEW c \in Consumers, mailbox'[c] = mailbox[c]
  PROVE  BusQueue(c)' = BusQueue(c)
<1>1. \A k \in 1..Len(mailbox[c]) : Message(mailbox[c][k])' = Message(mailbox[c][k])
  <2> TAKE k \in 1..Len(mailbox[c])
  <2>1. mailbox[c][k] \in Refs /\ Held(mailbox[c][k])
    BY DEF TypeOK, Held
  <2> QED
    BY <2>1 DEF Stable, Message
<1> QED
  BY <1>1 DEF BusQueue, Message

\* A fetch takes the first message, unchanged.
LEMMA QueueFetched ==
  ASSUME TypeOK, Stable, NEW c \in Consumers, mailbox[c] # <<>>, mailbox'[c] = Tail(mailbox[c])
  PROVE  /\ BusQueue(c) # <<>>
         /\ Head(BusQueue(c)) = Message(Head(mailbox[c]))
         /\ BusQueue(c)' = Tail(BusQueue(c))
<1> DEFINE q == mailbox[c]
<1>1. /\ q \in Seq(Refs) /\ Len(q) \in Nat \ {0} /\ Head(q) = q[1]
      /\ Tail(q) \in Seq(Refs) /\ Len(Tail(q)) = Len(q) - 1
      /\ \A k \in 1..Len(q) - 1 : Tail(q)[k] = q[k + 1]
  BY DEF TypeOK
<1>2. \A k \in 1..Len(q) : heap'[ref_packet'[q[k]]] = heap[ref_packet[q[k]]]
  <2> TAKE k \in 1..Len(q)
  <2>1. q[k] \in Refs /\ Held(q[k])
    BY DEF TypeOK, Held
  <2> QED
    BY <2>1 DEF Stable, Message
<1>3. BusQueue(c)' = [k \in 1..Len(q) - 1 |-> heap'[ref_packet'[Tail(q)[k]]]]
  BY <1>1 DEF BusQueue, Message
<1>4. BusQueue(c) = [k \in 1..Len(q) |-> heap[ref_packet[q[k]]]]
  BY DEF BusQueue, Message
<1> HIDE DEF q
<1>5. BusQueue(c)' = [k \in 1..Len(q) - 1 |-> heap[ref_packet[q[k + 1]]]]
  BY <1>1, <1>2, <1>3 DEF Message
<1>6. Tail(BusQueue(c)) = [k \in 1..Len(q) - 1 |-> heap[ref_packet[q[k + 1]]]]
  BY <1>1, <1>4
<1>7. BusQueue(c) # <<>> /\ Head(BusQueue(c)) = heap[ref_packet[q[1]]]
  BY <1>1, <1>4
<1> QED
  BY <1>1, <1>5, <1>6, <1>7 DEF q, Message

\* A post appends the message of the sender's reference.
LEMMA QueuePosted ==
  ASSUME TypeOK, Stable, NEW c \in Consumers, NEW r \in Refs, Held(r),
         mailbox'[c] = Append(mailbox[c], r)
  PROVE  BusQueue(c)' = Append(BusQueue(c), Message(r))
<1> DEFINE q == mailbox[c]
<1>1. /\ q \in Seq(Refs) /\ Len(q) \in Nat /\ Len(Append(q, r)) = Len(q) + 1
      /\ \A k \in 1..Len(q) : Append(q, r)[k] = q[k]
      /\ Append(q, r)[Len(q) + 1] = r
  BY DEF TypeOK
<1>2. \A k \in 1..Len(q) : heap'[ref_packet'[q[k]]] = heap[ref_packet[q[k]]]
  <2> TAKE k \in 1..Len(q)
  <2>1. q[k] \in Refs /\ Held(q[k])
    BY DEF TypeOK, Held
  <2> QED
    BY <2>1 DEF Stable, Message
<1>3. Message(r)' = Message(r)
  BY DEF Stable
<1>4. BusQueue(c)' = [k \in 1..Len(q) + 1 |-> heap'[ref_packet'[Append(q, r)[k]]]]
  BY <1>1 DEF BusQueue, Message
<1>5. BusQueue(c) = [k \in 1..Len(q) |-> heap[ref_packet[q[k]]]]
  BY DEF BusQueue, Message
<1> HIDE DEF q
<1>6. Append(BusQueue(c), Message(r)) =
        [k \in 1..Len(q) + 1 |-> IF k = Len(q) + 1 THEN Message(r) ELSE heap[ref_packet[q[k]]]]
  BY <1>1, <1>5
<1>7. \A k \in 1..Len(q) + 1 : heap'[ref_packet'[Append(q, r)[k]]] =
        IF k = Len(q) + 1 THEN Message(r) ELSE heap[ref_packet[q[k]]]
  BY <1>1, <1>2, <1>3 DEF Message
<1> QED
  BY <1>4, <1>6, <1>7

\* What a sender has still to do does not change with the steps of others.
LEMMA SendKept ==
  ASSUME TypeInv, Stable, NEW s \in Senders,
         ref'[s] = ref[s], index'[s] = index[s], num_consumers'[s] = num_consumers[s],
         enqueue_successful'[s] = enqueue_successful[s], pc'[s] = pc[s],
         \A j \in 1..Len(consumer_pool) : consumer_pool'[j] = consumer_pool[j]
  PROVE  BusSend(s)' = BusSend(s)
<1>1. \A j \in index[s]..num_consumers[s] : consumer_pool'[j] = consumer_pool[j]
  BY DEF TypeInv, TypeOK, LocalsOK
<1>2. Remaining(s)' = Remaining(s)
  <2> DEFINE I == (IF pc[s] = "retain" THEN index[s] + 1 ELSE index[s])..num_consumers[s]
  <2>1. \A j \in I : consumer_pool'[j] = consumer_pool[j]
    BY <1>1 DEF TypeInv, TypeOK
  <2>2. Remaining(s) = {consumer_pool[j] : j \in I}
    BY DEF Remaining
  <2>3. Remaining(s)' = {consumer_pool'[j] : j \in I}
    BY DEF Remaining
  <2> HIDE DEF I
  <2> QED
    BY <2>1, <2>2, <2>3
<1>3. ref[s] # None => Message(ref[s])' = Message(ref[s])
  BY DEF TypeInv, TypeOK, Held, Stable
<1> QED
  BY <1>2, <1>3 DEF BusSend, Message

-----------------------------------------------------------------------------
(* The offers of a send *)

\* An offer outlives the steps of others, and the steps in which its sender
\* stays with the same consumer.
LEMMA OfferKept ==
  ASSUME TypeInv, Stable, NEW s \in Senders, index[s] <= num_consumers[s],
         Message(ref[s]) \in Accepts[Target(s)], ref[s] # None,
         ref'[s] = ref[s], index'[s] = index[s],
         \A j \in 1..Len(consumer_pool) : consumer_pool'[j] = consumer_pool[j]
  PROVE  (Message(ref[s]) \in Accepts[Target(s)])'
<1>1. Target(s)' = Target(s)
  BY TargetRegistered DEF Target
<1>2. ref[s] \in Refs /\ Held(ref[s])
  BY DEF TypeInv, TypeOK, Held
<1>3. heap'[ref_packet'[ref[s]]] = heap[ref_packet[ref[s]]]
  BY <1>2 DEF Stable, Message
<1> QED
  BY <1>1, <1>3 DEF Message

\* A registered consumer stays registered.
LEMMA StaysRegistered ==
  ASSUME TypeInv, Len(consumer_pool') \in Nat, Len(consumer_pool) <= Len(consumer_pool'),
         \A j \in 1..Len(consumer_pool) : consumer_pool'[j] = consumer_pool[j],
         NEW c \in BusRegistered
  PROVE  c \in BusRegistered'
<1>1. PICK j \in 1..Len(consumer_pool) : c = consumer_pool[j]
  BY DEF BusRegistered
<1>2. j \in 1..Len(consumer_pool') /\ c = consumer_pool'[j]
  BY <1>1 DEF TypeInv, TypeOK
<1> QED
  BY <1>2 DEF BusRegistered

\* A step of a sender leaves the locals of the others alone.
LEMMA OnlyOwn ==
  ASSUME TypeInv, NEW s \in Senders, Sender(s)
  PROVE  /\ UNCHANGED <<consumer_pool, is_paused>>
         /\ \A c \in Consumers : pc'[c] = pc[c] /\ fetched'[c] = fetched[c]
         /\ \A u \in Senders : u # s =>
              /\ pc'[u] = pc[u] /\ ref'[u] = ref[u] /\ index'[u] = index[u]
              /\ num_consumers'[u] = num_consumers[u]
              /\ enqueue_successful'[u] = enqueue_successful[u]
<1> USE DEF At, Goto, shared, locals
<1>0. /\ pc \in [Threads -> Labels] /\ ref \in [Senders -> Refs \cup {None}]
      /\ index \in [Senders -> Nat \ {0}] /\ num_consumers \in [Senders -> Nat]
      /\ enqueue_successful \in [Senders -> BOOLEAN]
      /\ fetched \in [Threads -> Refs \cup {None}]
  BY DEF TypeInv, TypeOK
<1>1. UNCHANGED <<consumer_pool, is_paused>>
  BY DEF Sender, FinishSend, Alloc, AllocFails, CreateRef, CreateRefFails, Skip, Select, Post,
         PostFails, DropOldest, DropNothing, ReleaseDropped, RepostFails, Retain, EndSend
<1>2. pc' = [pc EXCEPT ![s] = pc'[s]]
  BY <1>0
  DEF Sender, FinishSend, Alloc, AllocFails, CreateRef, CreateRefFails, Skip, Select, Post,
      PostFails, DropOldest, DropNothing, ReleaseDropped, RepostFails, Retain, EndSend,
      NextConsumer, Fetch, Threads
<1>3. \A u \in Threads : u # s => fetched'[u] = fetched[u]
  BY <1>0
  DEF Sender, FinishSend, Alloc, AllocFails, CreateRef, CreateRefFails, Skip, Select, Post,
      PostFails, DropOldest, DropNothing, ReleaseDropped, RepostFails, Retain, EndSend,
      NextConsumer, Fetch, Threads
<1>4. \A u \in Senders : u # s => ref'[u] = ref[u]
  BY <1>0
  DEF Sender, FinishSend, Alloc, AllocFails, CreateRef, CreateRefFails, Skip, Select, Post,
      PostFails, DropOldest, DropNothing, ReleaseDropped, RepostFails, Retain, EndSend,
      NextConsumer, Fetch
<1>5. \A u \in Senders : u # s => index'[u] = index[u]
  BY <1>0
  DEF Sender, FinishSend, Alloc, AllocFails, CreateRef, CreateRefFails, Skip, Select, Post,
      PostFails, DropOldest, DropNothing, ReleaseDropped, RepostFails, Retain, EndSend,
      NextConsumer, Fetch
<1>6. \A u \in Senders : u # s => num_consumers'[u] = num_consumers[u]
  BY <1>0
  DEF Sender, FinishSend, Alloc, AllocFails, CreateRef, CreateRefFails, Skip, Select, Post,
      PostFails, DropOldest, DropNothing, ReleaseDropped, RepostFails, Retain, EndSend,
      NextConsumer, Fetch
<1>7. \A u \in Senders : u # s => enqueue_successful'[u] = enqueue_successful[u]
  BY <1>0
  DEF Sender, FinishSend, Alloc, AllocFails, CreateRef, CreateRefFails, Skip, Select, Post,
      PostFails, DropOldest, DropNothing, ReleaseDropped, RepostFails, Retain, EndSend,
      NextConsumer, Fetch
<1>8. /\ \A c \in Consumers : c \in Threads /\ c # s
      /\ \A u \in Senders : u \in Threads
  BY ThreadAssumption DEF Threads
<1> QED
  BY <1>0, <1>1, <1>2, <1>3, <1>4, <1>5, <1>6, <1>7, <1>8

\* Steps of a sender that leave the mailboxes alone.
LEMMA OfferSendStep ==
  ASSUME TypeInv, OfferInv, Stable, NEW s \in Senders, Sender(s), TypeInv'
  PROVE  OfferInv'
<1> USE DEF At, Goto, shared, locals
<1>1. /\ UNCHANGED <<consumer_pool, is_paused>>
      /\ \A c \in Consumers : pc'[c] = pc[c]
      /\ \A u \in Senders : u # s =>
           pc'[u] = pc[u] /\ ref'[u] = ref[u] /\ index'[u] = index[u]
  BY OnlyOwn
<1>2. \A c \in Consumers : Len(mailbox'[c]) <= MailboxSize[c]
  <2>1. CASE Post(s)
    <3>1. Target(s) \in Consumers
      BY <2>1, TargetRegistered DEF Post, TypeInv, LocalsOK
    <3>2. /\ mailbox' = [mailbox EXCEPT ![Target(s)] = Append(@, ref[s])]
          /\ Len(mailbox[Target(s)]) < MailboxSize[Target(s)]
      BY <2>1 DEF Post, HasRoom
    <3>3. ref[s] \in Refs
      BY <2>1 DEF Post, TypeInv, TypeOK, LocalsOK
    <3>4. Len(Append(mailbox[Target(s)], ref[s])) = Len(mailbox[Target(s)]) + 1
      BY <3>1, <3>3 DEF TypeInv, TypeOK
    <3>5. Len(Append(mailbox[Target(s)], ref[s])) <= MailboxSize[Target(s)]
      <4>1. Len(mailbox[Target(s)]) \in Nat /\ MailboxSize[Target(s)] \in Nat
        BY <3>1, ConsumerAssumption DEF TypeInv, TypeOK
      <4> QED
        BY <3>2, <3>4, <4>1
    <3> QED
      BY <3>1, <3>2, <3>5 DEF TypeInv, TypeOK, OfferInv
  <2>2. CASE DropOldest(s)
    <3>1. Target(s) \in Consumers
      BY <2>2, TargetRegistered DEF DropOldest, TypeInv, LocalsOK
    <3>2. /\ mailbox' = [mailbox EXCEPT ![Target(s)] = Tail(@)]
          /\ mailbox[Target(s)] # <<>>
      BY <2>2 DEF DropOldest, Fetch
    <3>3. Len(Tail(mailbox[Target(s)])) = Len(mailbox[Target(s)]) - 1
      BY <3>1, <3>2 DEF TypeInv, TypeOK
    <3>4. Len(Tail(mailbox[Target(s)])) <= MailboxSize[Target(s)]
      BY <3>1, <3>3, ConsumerAssumption DEF TypeInv, TypeOK, OfferInv
    <3> QED
      BY <3>1, <3>2, <3>4 DEF TypeInv, TypeOK, OfferInv
  <2>3. CASE UNCHANGED mailbox
    BY <2>3 DEF OfferInv
  <2> QED
    BY <2>1, <2>2, <2>3
    DEF Sender, FinishSend, Alloc, AllocFails, CreateRef, CreateRefFails, Skip, Select,
        PostFails, DropNothing, ReleaseDropped, RepostFails, Retain, EndSend
<1>3. ASSUME NEW u \in Senders, pc'[u] \in {"post", "drop", "drop_release", "repost"}
      PROVE  (Message(ref[u]) \in Accepts[Target(u)])'
  <2>1. CASE u # s
    <3>1. /\ pc[u] \in {"post", "drop", "drop_release", "repost"}
          /\ index[u] <= num_consumers[u] /\ ref[u] # None
      BY <1>1, <1>3, <2>1 DEF TypeInv, LocalsOK
    <3> QED
      BY <1>1, <2>1, <3>1, OfferKept DEF OfferInv
  <2>2. CASE u = s
    <3>1. /\ index[s] <= num_consumers[s] /\ ref[s] # None
          /\ Message(ref[s]) \in Accepts[Target(s)]
          /\ ref'[s] = ref[s] /\ index'[s] = index[s]
      BY <1>3, <2>2
      DEF Sender, FinishSend, Alloc, AllocFails, CreateRef, CreateRefFails, Skip, Select, Post,
          PostFails, DropOldest, DropNothing, ReleaseDropped, RepostFails, Retain, EndSend,
          NextConsumer, TypeInv, TypeOK, LocalsOK, Threads, Wants, OfferInv
    <3> QED
      BY <1>1, <2>2, <3>1, OfferKept
  <2> QED
    BY <2>1, <2>2
<1>4. BusRegistered' = BusRegistered
  BY <1>1 DEF BusRegistered
<1> QED
  BY <1>1, <1>2, <1>3, <1>4 DEF OfferInv

\* Steps of a consumer's thread.
LEMMA OfferReceiveStep ==
  ASSUME TypeInv, OfferInv, Stable, NEW c \in Consumers, Consumer(c), TypeInv'
  PROVE  OfferInv'
<1> USE DEF At, Goto, shared, locals
<1>1. /\ UNCHANGED <<ref, index, num_consumers>>
      /\ \A u \in Threads : u # c => pc'[u] = pc[u]
      /\ \A d \in Consumers : d # c => is_paused'[d] = is_paused[d] /\ mailbox'[d] = mailbox[d]
  BY DEF Consumer, messaging_consumer_init, Serve, Register, RegisterFails, ReceiveInvalid,
         Receive, CallbackReturns, FlushFetch, FlushRelease, FlushEnds, Resume, Pause,
         Fetch, TypeInv, TypeOK, Threads
<1>2. /\ Len(consumer_pool') \in Nat /\ Len(consumer_pool) <= Len(consumer_pool')
      /\ \A j \in 1..Len(consumer_pool) : consumer_pool'[j] = consumer_pool[j]
  <2>1. CASE consumer_pool' = consumer_pool
    BY <2>1 DEF TypeInv, TypeOK
  <2>2. CASE consumer_pool' = Append(consumer_pool, c)
    BY <2>2 DEF TypeInv, TypeOK
  <2> QED
    BY <2>1, <2>2
    DEF Consumer, messaging_consumer_init, Serve, Register, RegisterFails, ReceiveInvalid,
        Receive, CallbackReturns, FlushFetch, FlushRelease, FlushEnds, Resume, Pause
<1>3. Len(mailbox'[c]) <= MailboxSize[c]
  <2>1. CASE mailbox'[c] = <<>>
    BY <2>1, ConsumerAssumption
  <2>2. CASE mailbox[c] # <<>> /\ mailbox'[c] = Tail(mailbox[c])
    <3>1. Len(Tail(mailbox[c])) = Len(mailbox[c]) - 1
      BY <2>2 DEF TypeInv, TypeOK
    <3> QED
      BY <2>2, <3>1, ConsumerAssumption DEF OfferInv, TypeInv, TypeOK
  <2>3. CASE mailbox'[c] = mailbox[c]
    BY <2>3 DEF OfferInv
  <2> QED
    BY <2>1, <2>2, <2>3
    DEF Consumer, messaging_consumer_init, Serve, Register, RegisterFails, ReceiveInvalid,
        Receive, CallbackReturns, FlushFetch, FlushRelease, FlushEnds, Resume, Pause,
        Fetch, TypeInv, TypeOK
<1>4. pc'[c] \notin {"init", "invalid"} => c \in BusRegistered'
  <2>1. CASE Register(c)
    <3>1. consumer_pool' = Append(consumer_pool, c) /\ consumer_pool \in Seq(Consumers)
      BY <2>1 DEF Register, TypeInv, TypeOK
    <3>2. Len(consumer_pool') \in 1..Len(consumer_pool') /\ consumer_pool'[Len(consumer_pool')] = c
      BY <3>1
    <3> QED
      BY <3>2 DEF BusRegistered
  <2>2. CASE pc[c] \notin {"init", "invalid"}
    BY <1>2, <2>2, StaysRegistered DEF OfferInv
  <2>3. CASE pc'[c] \in {"init", "invalid"}
    BY <2>3
  <2> QED
    BY <2>1, <2>2, <2>3
    DEF Consumer, messaging_consumer_init, Serve, RegisterFails, ReceiveInvalid,
        Receive, CallbackReturns, FlushFetch, FlushRelease, FlushEnds, Resume, Pause,
        TypeInv, TypeOK, Threads
<1>5. pc'[c] \in {"flush", "flush_release"} => is_paused'[c]
  BY DEF Consumer, messaging_consumer_init, Serve, Register, RegisterFails, ReceiveInvalid,
         Receive, CallbackReturns, FlushFetch, FlushRelease, FlushEnds, Resume, Pause,
         TypeInv, TypeOK, Threads, OfferInv
<1>6. ASSUME NEW u \in Senders, pc'[u] \in {"post", "drop", "drop_release", "repost"}
      PROVE  (Message(ref[u]) \in Accepts[Target(u)])'
  <2>1. /\ pc[u] \in {"post", "drop", "drop_release", "repost"}
        /\ index[u] <= num_consumers[u] /\ ref[u] # None
    BY <1>1, <1>6, ThreadAssumption DEF TypeInv, LocalsOK, Threads
  <2> QED
    BY <1>1, <1>2, <2>1, OfferKept DEF OfferInv
<1>7. ASSUME NEW d \in Consumers, d # c
      PROVE  /\ Len(mailbox'[d]) <= MailboxSize[d]
             /\ pc'[d] \notin {"init", "invalid"} => d \in BusRegistered'
             /\ pc'[d] \in {"flush", "flush_release"} => is_paused'[d]
  BY <1>1, <1>2, <1>7, StaysRegistered DEF OfferInv, Threads
<1> QED
  BY <1>3, <1>4, <1>5, <1>6, <1>7 DEF OfferInv

-----------------------------------------------------------------------------
(* The steps of a send, as the bus sees them *)

\* The consumer a loop has reached is among those it has to visit, and moving
\* on leaves the others: no consumer is in consumer_pool twice.
LEMMA VisitTarget ==
  ASSUME TypeInv, PoolOK, NEW s \in Senders, index[s] <= num_consumers[s]
  PROVE  LET Rest == {consumer_pool[j] : j \in index[s] + 1 .. num_consumers[s]}
         IN  /\ Target(s) \in {consumer_pool[j] : j \in index[s]..num_consumers[s]}
             /\ Rest = {consumer_pool[j] : j \in index[s]..num_consumers[s]} \ {Target(s)}
<1>1. /\ index[s] \in 1..Len(consumer_pool)
      /\ num_consumers[s] \in Nat /\ Len(consumer_pool) \in Nat
      /\ num_consumers[s] <= Len(consumer_pool)
  BY TargetRegistered
<1>2. \A j \in index[s] + 1 .. num_consumers[s] : consumer_pool[j] # consumer_pool[index[s]]
  BY <1>1 DEF PoolOK
<1>3. index[s]..num_consumers[s] = (index[s] + 1 .. num_consumers[s]) \cup {index[s]}
  BY <1>1
<1> DEFINE I == index[s] + 1 .. num_consumers[s]
           i == index[s]
<1>4. {consumer_pool[j] : j \in I \cup {i}} = {consumer_pool[j] : j \in I} \cup {consumer_pool[i]}
  <2> HIDE DEF I, i
  <2> QED
    OBVIOUS
<1> QED
  BY <1>2, <1>3, <1>4 DEF Target

\* A consumer leaves the list of a send.
LEMMA SendVisited ==
  ASSUME NEW s \in Senders, ref[s] # None, NEW c
  PROVE  [BusSend(s) EXCEPT !.todo = @ \ {c}, !.room = "unknown"] =
           [message |-> Message(ref[s]), todo |-> Remaining(s) \ {c},
            failed |-> ~enqueue_successful[s], room |-> "unknown"]
<1> DEFINE m == Message(ref[s])
           f == ~enqueue_successful[s]
<1>1. PICK r : BusSend(s) = [message |-> m, todo |-> Remaining(s), failed |-> f, room |-> r]
  BY DEF BusSend
<1> HIDE DEF m, f
<1> DEFINE R == BusSend(s)
           R1 == [message |-> m, todo |-> Remaining(s) \ {c}, failed |-> f, room |-> r]
<1>2. [R EXCEPT !.todo = @ \ {c}] = R1
  BY <1>1
<1>3. [R1 EXCEPT !.room = "unknown"] =
        [message |-> m, todo |-> Remaining(s) \ {c}, failed |-> f, room |-> "unknown"]
  OBVIOUS
<1>4. [R EXCEPT !.todo = @ \ {c}, !.room = "unknown"] =
        [[R EXCEPT !.todo = @ \ {c}] EXCEPT !.room = "unknown"]
  OBVIOUS
<1> QED
  BY <1>2, <1>3, <1>4 DEF m, f

\* Who owns a reference is in a send of the bus.
LEMMA SendTyped ==
  ASSUME TypeInv, FreeOK, PacketsOK, NEW s \in Senders, ref[s] # None
  PROVE  BusSend(s) \in Bus!Sends /\ BusSend(s) # None
<1>1. Message(ref[s]) \in Messages
  <2>1. ref[s] \in Refs /\ Held(ref[s])
    BY DEF TypeInv, TypeOK, Held
  <2> QED
    BY <2>1, HeldLive DEF TypeInv
<1>2. Remaining(s) \in SUBSET Consumers
  <2>1. \A j \in index[s]..num_consumers[s] : consumer_pool[j] \in Consumers
    BY DEF TypeInv, TypeOK, LocalsOK
  <2> QED
    BY <2>1 DEF Remaining, TypeInv, TypeOK
<1>3. BusSend(s) \in Bus!Sends
  BY <1>1, <1>2 DEF BusSend, Bus!Sends
<1> QED
  BY <1>3, BusAssumption

\* A step of messaging_producer_send is the step of the bus of the same name,
\* or one the bus does not see: filling the packet, finding that a consumer
\* wants it, releasing what was dropped, retaining what was posted.
LEMMA SendRefines ==
  ASSUME TypeInv, PoolOK, FreeOK, PacketsOK, OfferInv, Stable,
         NEW s \in Senders, Sender(s), TypeInv'
  PROVE  Bus!Next \/ UNCHANGED Bus!busVars
<1> USE DEF At, Goto, shared, locals
<1> DEFINE Sends == [u \in Senders |-> BusSend(u)]
           Queues == [c \in Consumers |-> BusQueue(c)]
           InHands == [c \in Consumers |-> BusInHand(c)]
           Error == component_states.messaging = "error"
<1>1. /\ UNCHANGED <<consumer_pool, is_paused>>
      /\ \A c \in Consumers : pc'[c] = pc[c] /\ fetched'[c] = fetched[c]
      /\ \A u \in Senders : u # s =>
           /\ pc'[u] = pc[u] /\ ref'[u] = ref[u] /\ index'[u] = index[u]
           /\ num_consumers'[u] = num_consumers[u]
           /\ enqueue_successful'[u] = enqueue_successful[u]
  BY OnlyOwn
<1>2. BusRegistered' = BusRegistered /\ is_paused' = is_paused
  BY <1>1 DEF BusRegistered
<1>3. InHands' = InHands
  <2>1. ASSUME NEW c \in Consumers PROVE BusInHand(c)' = BusInHand(c)
    <3>1. CASE pc[c] = "callback"
      <4>1. fetched[c] \in Refs /\ Held(fetched[c])
        BY <3>1 DEF TypeInv, TypeOK, LocalsOK, Threads, Held
      <4> QED
        BY <1>1, <4>1 DEF Stable, BusInHand, Message
    <3>2. CASE pc[c] # "callback"
      BY <1>1, <3>2 DEF BusInHand
    <3> QED
      BY <3>1, <3>2
  <2> QED
    BY <2>1
<1>4. \A u \in Senders : u # s => BusSend(u)' = BusSend(u)
  BY <1>1, SendKept
<1>5. \A v : BusSend(s)' = v => Sends' = [Sends EXCEPT ![s] = v]
  BY <1>4
<1>6. BusSend(s)' = BusSend(s) => Sends' = Sends
  BY <1>4
<1>7. mailbox' = mailbox => Queues' = Queues
  BY QueueKept DEF TypeInv
<1>8. ref[s] # None => /\ ref[s] \in Refs /\ Held(ref[s])
                       /\ heap'[ref_packet'[ref[s]]] = Message(ref[s])
  BY DEF Held, TypeInv, TypeOK, Message, Stable
<1>9. index[s] <= num_consumers[s] => Target(s) \in Consumers
  BY TargetRegistered
<1>10. CASE Alloc(s)
  <2>1. ref[s] = None /\ ref' = ref /\ mailbox' = mailbox /\ Error' = Error
    BY <1>10 DEF Alloc, TypeInv, LocalsOK
  <2>2. BusSend(s)' = BusSend(s)
    BY <2>1 DEF BusSend
  <2> QED
    BY <1>2, <1>3, <1>6, <1>7, <2>1, <2>2 DEF Bus!busVars
<1>11. CASE AllocFails(s) \/ CreateRefFails(s)
  <2>1. ref[s] = None /\ ref' = ref /\ mailbox' = mailbox
    BY <1>11 DEF AllocFails, CreateRefFails, TypeInv, LocalsOK
  <2>4. Error'
    <3>1. CASE AllocFails(s)
      BY <3>1 DEF AllocFails
    <3>2. CASE CreateRefFails(s)
      BY <3>2 DEF CreateRefFails, TypeInv, TypeOK
    <3> QED
      BY <1>11, <3>1, <3>2
  <2>2. BusSend(s)' = BusSend(s)
    BY <2>1 DEF BusSend
  <2>3. Bus!Fail
    BY <1>2, <1>3, <1>6, <1>7, <2>1, <2>2, <2>4 DEF Bus!Fail
  <2> QED
    BY <2>3 DEF Bus!Next
<1>12. CASE CreateRef(s)
  <2>1. PICK r \in ref_pool :
          /\ ref_packet' = [ref_packet EXCEPT ![r] = packet[s]]
          /\ ref' = [ref EXCEPT ![s] = r]
    BY <1>12 DEF CreateRef
  <2>2. /\ heap' = heap /\ mailbox' = mailbox /\ Error' = Error
        /\ index'[s] = 1 /\ num_consumers'[s] = Len(consumer_pool)
        /\ enqueue_successful'[s] = TRUE /\ pc'[s] = "filter"
        /\ ref[s] = None /\ packet[s] # None
    <3>1. /\ heap' = heap /\ mailbox' = mailbox /\ Error' = Error
          /\ ref[s] = None /\ packet[s] # None
      BY <1>12 DEF CreateRef, TypeInv, LocalsOK
    <3>2. /\ index' = [index EXCEPT ![s] = 1]
          /\ num_consumers' = [num_consumers EXCEPT ![s] = Len(consumer_pool)]
          /\ enqueue_successful' = [enqueue_successful EXCEPT ![s] = TRUE]
          /\ pc' = [pc EXCEPT ![s] = "filter"]
      BY <1>12 DEF CreateRef
    <3> QED
      BY <3>1, <3>2 DEF TypeInv, TypeOK, Threads
  <2>3. r \in Refs /\ ref'[s] = r /\ r # None /\ ref_packet'[r] = packet[s]
    BY <2>1, MemoryAssumption DEF TypeInv, TypeOK
  <2>4. heap[packet[s]] \in Messages
    BY <2>2 DEF TypeInv, TypeOK, PacketsOK
  <2>5. Remaining(s)' = BusRegistered
    BY <1>1, <2>2 DEF Remaining, BusRegistered
  <2>6. BusSend(s) = None
    BY <2>2 DEF BusSend
  <2>7. BusSend(s)' = [message |-> heap[packet[s]], todo |-> BusRegistered,
                       failed |-> FALSE, room |-> "unknown"]
    BY <2>2, <2>3, <2>5 DEF BusSend, Message
  <2>8. Bus!Begin(s)
    BY <1>2, <1>3, <1>5, <1>7, <2>2, <2>4, <2>6, <2>7 DEF Bus!Begin
  <2> QED
    BY <2>8 DEF Bus!Next
<1>13. CASE Skip(s)
  <2>1. /\ index[s] <= num_consumers[s] /\ pc[s] = "filter" /\ pc'[s] = "filter"
        /\ index'[s] = index[s] + 1 /\ num_consumers' = num_consumers
        /\ enqueue_successful' = enqueue_successful
        /\ ref' = ref /\ ref[s] # None /\ mailbox' = mailbox /\ Error' = Error
        /\ ~Wants(Target(s), ref[s])
    BY <1>13 DEF Skip, NextConsumer, TypeInv, TypeOK, LocalsOK, Threads
  <2>2. PICK c \in Consumers : c = Target(s)
    BY <1>9, <2>1
  <2>3. c \in Remaining(s) /\ Remaining(s)' = Remaining(s) \ {c}
    BY <1>1, <2>1, <2>2, VisitTarget DEF Remaining
  <2>4. BusSend(s) = [message |-> Message(ref[s]), todo |-> Remaining(s),
                      failed |-> ~enqueue_successful[s], room |-> "unknown"]
    BY <2>1 DEF BusSend
  <2>5. BusSend(s)' = [message |-> Message(ref[s]), todo |-> Remaining(s) \ {c},
                       failed |-> ~enqueue_successful[s], room |-> "unknown"]
    BY <1>8, <2>1, <2>3 DEF BusSend, Message
  <2>6. Bus!Visited(s, c) = BusSend(s)'
    <3>1. [BusSend(s) EXCEPT !.todo = @ \ {c}, !.room = "unknown"] = BusSend(s)'
      BY <2>1, <2>5, SendVisited
    <3> QED
      BY <3>1 DEF Bus!Visited
  <2>7. is_paused[c] \/ BusSend(s).message \notin Accepts[c]
    BY <2>1, <2>2, <2>4 DEF Wants
  <2>8. c \in BusSend(s).todo /\ BusSend(s).room = "unknown" /\ BusSend(s) # None
    BY <2>1, <2>3, <2>4, SendTyped
  <2>9. Bus!PassOver(s, c)
    BY <1>2, <1>3, <1>5, <1>7, <2>1, <2>6, <2>7, <2>8 DEF Bus!PassOver
  <2> QED
    BY <2>9 DEF Bus!Next
<1>14. CASE Select(s) \/ ReleaseDropped(s)
  <2>1. /\ \/ pc[s] = "filter" /\ pc'[s] = "post"
           \/ pc[s] = "drop_release" /\ pc'[s] = "repost"
        /\ UNCHANGED <<ref, index, num_consumers, enqueue_successful, mailbox>>
        /\ ref[s] # None /\ Error' = Error
    <3>1. CASE Select(s)
      <4>1. pc[s] = "filter" /\ pc'[s] = "post"
        BY <3>1 DEF Select, TypeInv, TypeOK, Threads
      <4>2. ref[s] # None
        BY <4>1 DEF TypeInv, LocalsOK
      <4>3. UNCHANGED <<ref, index, num_consumers, enqueue_successful, mailbox>> /\ Error' = Error
        BY <3>1 DEF Select
      <4> QED
        BY <4>1, <4>2, <4>3
    <3>2. CASE ReleaseDropped(s)
      BY <3>2 DEF ReleaseDropped, TypeInv, TypeOK, LocalsOK, Threads
    <3> QED
      BY <1>14, <3>1, <3>2
  <2>2. Remaining(s)' = Remaining(s)
    BY <1>1, <2>1 DEF Remaining
  <2>3. BusSend(s)' = BusSend(s)
    BY <1>8, <2>1, <2>2 DEF BusSend, Message
  <2> QED
    BY <1>2, <1>3, <1>6, <1>7, <2>1, <2>3 DEF Bus!busVars
<1>15. CASE Post(s)
  <2>1. /\ index[s] <= num_consumers[s] /\ pc[s] \in {"post", "repost"} /\ pc'[s] = "retain"
        /\ UNCHANGED <<ref, index, num_consumers, enqueue_successful>>
        /\ ref[s] # None /\ Error' = Error /\ HasRoom(Target(s))
        /\ mailbox' = [mailbox EXCEPT ![Target(s)] = Append(@, ref[s])]
    BY <1>15 DEF Post, TypeInv, TypeOK, LocalsOK, Threads
  <2>2. PICK c \in Consumers : c = Target(s)
    BY <1>9, <2>1
  <2>3. c \in Remaining(s) /\ Remaining(s)' = Remaining(s) \ {c}
    BY <1>1, <2>1, <2>2, VisitTarget DEF Remaining
  <2>4. BusSend(s) = [message |-> Message(ref[s]), todo |-> Remaining(s),
                      failed |-> ~enqueue_successful[s],
                      room |-> IF pc[s] = "repost" THEN "evicted" ELSE "unknown"]
    BY <2>1 DEF BusSend
  <2>5. BusSend(s)' = [message |-> Message(ref[s]), todo |-> Remaining(s) \ {c},
                       failed |-> ~enqueue_successful[s], room |-> "unknown"]
    BY <1>8, <2>1, <2>3 DEF BusSend, Message
  <2>6. Bus!Visited(s, c) = BusSend(s)'
    <3>1. [BusSend(s) EXCEPT !.todo = @ \ {c}, !.room = "unknown"] = BusSend(s)'
      BY <2>1, <2>5, SendVisited
    <3> QED
      BY <3>1 DEF Bus!Visited
  <2>7. Queues' = [Queues EXCEPT ![c] = Append(@, BusSend(s).message)]
    <3>1. BusQueue(c)' = Append(BusQueue(c), Message(ref[s]))
      BY <1>8, <2>1, <2>2, QueuePosted DEF TypeInv, TypeOK
    <3>2. \A d \in Consumers : d # c => BusQueue(d)' = BusQueue(d)
      BY <2>1, <2>2, QueueKept DEF TypeInv, TypeOK
    <3>3. BusSend(s).message = Message(ref[s])
      BY <2>4
    <3> QED
      BY <3>1, <3>2, <3>3
  <2>8. /\ c \in BusSend(s).todo /\ BusSend(s).room # "full" /\ BusSend(s) # None
        /\ BusSend(s).message \in Accepts[c]
    BY <2>1, <2>2, <2>3, <2>4, SendTyped DEF OfferInv
  <2>9. Len(BusQueue(c)) < MailboxSize[c]
    BY <2>1, <2>2, QueueLength DEF HasRoom, TypeInv
  <2>10. Bus!Enqueue(s, c)
    BY <1>2, <1>3, <1>5, <2>1, <2>6, <2>7, <2>8, <2>9 DEF Bus!Enqueue
  <2> QED
    BY <2>10 DEF Bus!Next
<1>16. CASE PostFails(s)
  <2>1. /\ index[s] <= num_consumers[s] /\ pc[s] = "post" /\ pc'[s] = "drop"
        /\ UNCHANGED <<ref, index, num_consumers, enqueue_successful, mailbox>>
        /\ ref[s] # None /\ Error' = Error /\ ~HasRoom(Target(s))
    BY <1>16 DEF PostFails, TypeInv, TypeOK, LocalsOK, Threads
  <2>2. PICK c \in Consumers : c = Target(s)
    BY <1>9, <2>1
  <2>3. c \in Remaining(s) /\ Remaining(s)' = Remaining(s)
    BY <1>1, <2>1, <2>2, VisitTarget DEF Remaining
  <2>4. BusSend(s) = [message |-> Message(ref[s]), todo |-> Remaining(s),
                      failed |-> ~enqueue_successful[s], room |-> "unknown"]
    BY <2>1 DEF BusSend
  <2>5. BusSend(s)' = [message |-> Message(ref[s]), todo |-> Remaining(s),
                       failed |-> ~enqueue_successful[s], room |-> "full"]
    BY <1>8, <2>1, <2>3 DEF BusSend, Message
  <2>6. BusSend(s)' = [BusSend(s) EXCEPT !.room = "full"]
    BY <2>4, <2>5
  <2>7. /\ c \in BusSend(s).todo /\ BusSend(s).room = "unknown" /\ BusSend(s) # None
        /\ BusSend(s).message \in Accepts[c]
    BY <2>1, <2>2, <2>3, <2>4, SendTyped DEF OfferInv
  <2>8. Len(BusQueue(c)) = MailboxSize[c]
    <3>1. /\ Len(mailbox[c]) \in Nat /\ MailboxSize[c] \in Nat
          /\ Len(mailbox[c]) <= MailboxSize[c] /\ ~(Len(mailbox[c]) < MailboxSize[c])
      BY <2>1, <2>2, QueueLength, ConsumerAssumption DEF HasRoom, OfferInv, TypeInv
    <3> QED
      BY <3>1, QueueLength DEF TypeInv
  <2>9. Bus!FindFull(s, c)
    BY <1>2, <1>3, <1>5, <1>7, <2>1, <2>6, <2>7, <2>8 DEF Bus!FindFull
  <2> QED
    BY <2>9 DEF Bus!Next
<1>17. CASE DropOldest(s) \/ DropNothing(s)
  <2>1. /\ index[s] <= num_consumers[s] /\ pc[s] = "drop" /\ pc'[s] \in {"drop_release", "repost"}
        /\ UNCHANGED <<ref, index, num_consumers, enqueue_successful>>
        /\ ref[s] # None /\ Error' = Error
    <3>1. CASE DropOldest(s)
      BY <3>1 DEF DropOldest, TypeInv, TypeOK, LocalsOK, Threads
    <3>2. CASE DropNothing(s)
      BY <3>2 DEF DropNothing, TypeInv, TypeOK, LocalsOK, Threads
    <3> QED
      BY <1>17, <3>1, <3>2
  <2>2. PICK c \in Consumers : c = Target(s)
    BY <1>9, <2>1
  <2>3. c \in Remaining(s) /\ Remaining(s)' = Remaining(s)
    BY <1>1, <2>1, <2>2, VisitTarget DEF Remaining
  <2>4. BusSend(s) = [message |-> Message(ref[s]), todo |-> Remaining(s),
                      failed |-> ~enqueue_successful[s], room |-> "full"]
    BY <2>1 DEF BusSend
  <2>5. BusSend(s)' = [message |-> Message(ref[s]), todo |-> Remaining(s),
                       failed |-> ~enqueue_successful[s], room |-> "evicted"]
    BY <1>8, <2>1, <2>3 DEF BusSend, Message
  <2>6. BusSend(s)' = [BusSend(s) EXCEPT !.room = "evicted"]
    BY <2>4, <2>5
  <2>7. c \in BusSend(s).todo /\ BusSend(s).room = "full" /\ BusSend(s) # None
    BY <2>1, <2>3, <2>4, SendTyped
  <2>8. Queues' = [Queues EXCEPT ![c] = IF @ = <<>> THEN @ ELSE Tail(@)]
    <3>1. CASE DropOldest(s)
      <4>1. mailbox[c] # <<>> /\ mailbox' = [mailbox EXCEPT ![c] = Tail(@)]
        BY <2>2, <3>1 DEF DropOldest, Fetch
      <4>2. BusQueue(c) # <<>> /\ BusQueue(c)' = Tail(BusQueue(c))
        BY <4>1, QueueFetched DEF TypeInv, TypeOK
      <4>3. \A d \in Consumers : d # c => BusQueue(d)' = BusQueue(d)
        BY <4>1, QueueKept DEF TypeInv, TypeOK
      <4> QED
        BY <4>2, <4>3
    <3>2. CASE DropNothing(s)
      <4>1. mailbox[c] = <<>> /\ mailbox' = mailbox
        BY <2>2, <3>2 DEF DropNothing
      <4>2. BusQueue(c) = <<>>
        BY <4>1, QueueLength DEF TypeInv
      <4> QED
        BY <1>7, <4>1, <4>2
    <3> QED
      BY <1>17, <3>1, <3>2
  <2>9. Bus!Evict(s, c)
    BY <1>2, <1>3, <1>5, <2>1, <2>6, <2>7, <2>8 DEF Bus!Evict
  <2> QED
    BY <2>9 DEF Bus!Next
<1>18. CASE RepostFails(s)
  <2>1. /\ index[s] <= num_consumers[s] /\ pc[s] = "repost" /\ pc'[s] = "filter"
        /\ index'[s] = index[s] + 1 /\ num_consumers' = num_consumers
        /\ enqueue_successful'[s] = FALSE
        /\ ref' = ref /\ ref[s] # None /\ mailbox' = mailbox /\ Error' = Error
        /\ ~HasRoom(Target(s))
    BY <1>18 DEF RepostFails, NextConsumer, TypeInv, TypeOK, LocalsOK, Threads
  <2>2. PICK c \in Consumers : c = Target(s)
    BY <1>9, <2>1
  <2>3. c \in Remaining(s) /\ Remaining(s)' = Remaining(s) \ {c}
    BY <1>1, <2>1, <2>2, VisitTarget DEF Remaining
  <2>4. BusSend(s) = [message |-> Message(ref[s]), todo |-> Remaining(s),
                      failed |-> ~enqueue_successful[s], room |-> "evicted"]
    BY <2>1 DEF BusSend
  <2>5. BusSend(s)' = [message |-> Message(ref[s]), todo |-> Remaining(s) \ {c},
                       failed |-> TRUE, room |-> "unknown"]
    BY <1>8, <2>1, <2>3 DEF BusSend, Message
  <2>6. [Bus!Visited(s, c) EXCEPT !.failed = TRUE] = BusSend(s)'
    <3>1. [BusSend(s) EXCEPT !.todo = @ \ {c}, !.room = "unknown"] =
            [message |-> Message(ref[s]), todo |-> Remaining(s) \ {c},
             failed |-> ~enqueue_successful[s], room |-> "unknown"]
      BY <2>1, SendVisited
    <3>2. Bus!Visited(s, c) = [BusSend(s) EXCEPT !.todo = @ \ {c}, !.room = "unknown"]
      BY DEF Bus!Visited
    <3> DEFINE f == ~enqueue_successful[s]
               V == [message |-> Message(ref[s]), todo |-> Remaining(s) \ {c},
                     failed |-> f, room |-> "unknown"]
    <3>4. Bus!Visited(s, c) = V
      BY <3>1, <3>2
    <3> HIDE DEF f
    <3>3. ASSUME NEW x
          PROVE  [V EXCEPT !.failed = x] =
                   [message |-> Message(ref[s]), todo |-> Remaining(s) \ {c},
                    failed |-> x, room |-> "unknown"]
      OBVIOUS
    <3> HIDE DEF V
    <3> QED
      BY <2>5, <3>3, <3>4
  <2>7. c \in BusSend(s).todo /\ BusSend(s).room = "evicted" /\ BusSend(s) # None
    BY <2>1, <2>3, <2>4, SendTyped
  <2>8. Len(BusQueue(c)) = MailboxSize[c]
    <3>1. /\ Len(mailbox[c]) \in Nat /\ MailboxSize[c] \in Nat
          /\ Len(mailbox[c]) <= MailboxSize[c] /\ ~(Len(mailbox[c]) < MailboxSize[c])
      BY <2>1, <2>2, QueueLength, ConsumerAssumption DEF HasRoom, OfferInv, TypeInv
    <3> QED
      BY <3>1, QueueLength DEF TypeInv
  <2>9. Bus!Reject(s, c)
    BY <1>2, <1>3, <1>5, <1>7, <2>1, <2>6, <2>7, <2>8 DEF Bus!Reject
  <2> QED
    BY <2>9 DEF Bus!Next
<1>19. CASE Retain(s)
  <2>1. /\ pc[s] = "retain" /\ pc'[s] = "filter"
        /\ index'[s] = index[s] + 1
        /\ UNCHANGED <<ref, num_consumers, enqueue_successful, mailbox>>
        /\ ref[s] # None /\ Error' = Error
    BY <1>19 DEF Retain, NextConsumer, TypeInv, TypeOK, LocalsOK, Threads
  <2>2. Remaining(s)' = Remaining(s)
    BY <1>1, <2>1 DEF Remaining
  <2>3. BusSend(s)' = BusSend(s)
    BY <1>8, <2>1, <2>2 DEF BusSend, Message
  <2> QED
    BY <1>2, <1>3, <1>6, <1>7, <2>1, <2>3 DEF Bus!busVars
<1>20. CASE EndSend(s)
  <2>1. /\ pc[s] = "filter" /\ index[s] > num_consumers[s] /\ mailbox' = mailbox
        /\ ref[s] # None /\ ref'[s] = None
    BY <1>20 DEF EndSend, TypeInv, TypeOK, LocalsOK
  <2>2. Error' = (Error \/ ~enqueue_successful[s])
    BY <1>20 DEF EndSend, TypeInv, TypeOK
  <2>3. Remaining(s) = {}
    BY <2>1 DEF Remaining, TypeInv, TypeOK
  <2>4. /\ BusSend(s).todo = {} /\ BusSend(s).failed = ~enqueue_successful[s]
        /\ BusSend(s) # None
    BY <2>1, <2>3, SendTyped DEF BusSend
  <2>5. BusSend(s)' = None
    BY <2>1 DEF BusSend
  <2>6. Bus!End(s)
    BY <1>2, <1>3, <1>5, <1>7, <2>1, <2>2, <2>4, <2>5 DEF Bus!End
  <2> QED
    BY <2>6 DEF Bus!Next
<1> QED
  BY <1>10, <1>11, <1>12, <1>13, <1>14, <1>15, <1>16, <1>17, <1>18, <1>19, <1>20
  DEF Sender, FinishSend

-----------------------------------------------------------------------------
(* The steps of a consumer, as the bus sees them *)

\* Registration, pausing, resuming and a delivered message are steps of the bus;
\* so is a message that a flush throws away, and every error.
LEMMA ReceiveRefines ==
  ASSUME TypeInv, PoolOK, FreeOK, PacketsOK, OfferInv, Stable,
         NEW c \in Consumers, Consumer(c), TypeInv'
  PROVE  Bus!Next \/ UNCHANGED Bus!busVars
<1> USE DEF At, Goto, shared, locals
<1> DEFINE Sends == [s \in Senders |-> BusSend(s)]
           Queues == [d \in Consumers |-> BusQueue(d)]
           InHands == [d \in Consumers |-> BusInHand(d)]
           Error == component_states.messaging = "error"
<1>1. /\ UNCHANGED <<ref, index, num_consumers, enqueue_successful>>
      /\ \A u \in Threads : u # c => pc'[u] = pc[u] /\ fetched'[u] = fetched[u]
      /\ consumer_pool' = consumer_pool \/ consumer_pool' = Append(consumer_pool, c)
  BY DEF Consumer, messaging_consumer_init, Serve, Register, RegisterFails, ReceiveInvalid,
         Receive, CallbackReturns, FlushFetch, FlushRelease, FlushEnds, Resume, Pause,
         Fetch, TypeInv, TypeOK, Threads
<1>2. Sends' = Sends
  <2>1. \A j \in 1..Len(consumer_pool) : consumer_pool'[j] = consumer_pool[j]
    <3>1. consumer_pool \in Seq(Consumers)
      BY DEF TypeInv, TypeOK
    <3>2. \A j \in 1..Len(consumer_pool) : Append(consumer_pool, c)[j] = consumer_pool[j]
      BY <3>1
    <3> QED
      BY <1>1, <3>2
  <2>2. ASSUME NEW s \in Senders PROVE BusSend(s)' = BusSend(s)
    <3>1. pc'[s] = pc[s]
      BY <1>1, ThreadAssumption DEF Threads
    <3> QED
      BY <1>1, <2>1, <3>1, SendKept
  <2> QED
    BY <2>2
<1>3. ASSUME NEW d \in Consumers, d # c PROVE BusInHand(d)' = BusInHand(d)
  <2>1. pc'[d] = pc[d] /\ fetched'[d] = fetched[d]
    BY <1>1, <1>3 DEF Threads
  <2>2. CASE pc[d] = "callback"
    <3>1. fetched[d] \in Refs /\ Held(fetched[d])
      BY <2>2 DEF TypeInv, TypeOK, LocalsOK, Threads, Held
    <3> QED
      BY <2>1, <3>1 DEF Stable, BusInHand, Message
  <2>3. CASE pc[d] # "callback"
    BY <2>1, <2>3 DEF BusInHand
  <2> QED
    BY <2>2, <2>3
<1>4. ASSUME pc[c] # "callback", pc'[c] # "callback" PROVE InHands' = InHands
  BY <1>3, <1>4 DEF BusInHand
<1>5. mailbox' = mailbox => Queues' = Queues
  BY QueueKept DEF TypeInv
<1>6. consumer_pool' = consumer_pool => BusRegistered' = BusRegistered
  BY DEF BusRegistered
<1>7. CASE At(c, "init") /\ Register(c)
  <2>1. /\ consumer_pool' = Append(consumer_pool, c) /\ consumer_pool \in Seq(Consumers)
        /\ mailbox[c] = <<>> /\ mailbox' = [mailbox EXCEPT ![c] = <<>>]
        /\ pc[c] = "init" /\ pc'[c] = "returned"
        /\ is_paused' = is_paused /\ Error' = Error
        /\ \A j \in 1..Len(consumer_pool) : consumer_pool[j] # c
    BY <1>7 DEF Register, PoolOK, TypeInv, TypeOK, Threads
  <2>2. mailbox' = mailbox
    BY <2>1 DEF TypeInv, TypeOK
  <2>3. BusRegistered' = BusRegistered \cup {c} /\ c \notin BusRegistered
    <3>1. /\ Len(consumer_pool') = Len(consumer_pool) + 1 /\ Len(consumer_pool) \in Nat
          /\ \A j \in 1..Len(consumer_pool) : consumer_pool'[j] = consumer_pool[j]
          /\ consumer_pool'[Len(consumer_pool) + 1] = c
      BY <2>1
    <3>2. 1..Len(consumer_pool') = 1..Len(consumer_pool) \cup {Len(consumer_pool) + 1}
      BY <3>1
    <3>3. BusRegistered' = {consumer_pool'[j] : j \in 1..Len(consumer_pool)} \cup {c}
      BY <3>1, <3>2 DEF BusRegistered
    <3>4. {consumer_pool'[j] : j \in 1..Len(consumer_pool)} = BusRegistered
      BY <3>1 DEF BusRegistered
    <3> QED
      BY <2>1, <3>3, <3>4 DEF BusRegistered
  <2>4. Bus!Register(c)
    BY <1>2, <1>4, <1>5, <2>1, <2>2, <2>3 DEF Bus!Register
  <2> QED
    BY <2>4 DEF Bus!Next
<1>8. CASE (At(c, "init") /\ RegisterFails(c)) \/ ReceiveInvalid(c)
  <2>1. /\ consumer_pool' = consumer_pool /\ mailbox' = mailbox /\ is_paused' = is_paused
        /\ pc[c] # "callback" /\ pc'[c] # "callback"
    BY <1>8 DEF RegisterFails, ReceiveInvalid, TypeInv, TypeOK, Threads
  <2>2. Error'
    BY <1>8 DEF RegisterFails, ReceiveInvalid, TypeInv, TypeOK
  <2>3. Bus!Fail
    BY <1>2, <1>4, <1>5, <1>6, <2>1, <2>2 DEF Bus!Fail
  <2> QED
    BY <2>3 DEF Bus!Next
<1>9. CASE Receive(c)
  <2>1. /\ mailbox[c] # <<>> /\ mailbox' = [mailbox EXCEPT ![c] = Tail(@)]
        /\ fetched' = [fetched EXCEPT ![c] = Head(mailbox[c])]
        /\ pc[c] \in {"returned", "receive", "paused"} /\ pc' = [pc EXCEPT ![c] = "callback"]
        /\ consumer_pool' = consumer_pool /\ is_paused' = is_paused /\ Error' = Error
    BY <1>9 DEF Receive, Fetch
  <2>2. /\ BusQueue(c) # <<>> /\ BusQueue(c)' = Tail(BusQueue(c))
        /\ Head(BusQueue(c)) = Message(Head(mailbox[c]))
    BY <2>1, QueueFetched DEF TypeInv, TypeOK
  <2>3. \A d \in Consumers : d # c => BusQueue(d)' = BusQueue(d)
    BY <2>1, QueueKept DEF TypeInv, TypeOK
  <2>4. BusInHand(c) = None
    BY <2>1 DEF BusInHand
  <2>5. BusInHand(c)' = Head(BusQueue(c))
    <3>1. Head(mailbox[c]) \in Refs /\ Held(Head(mailbox[c]))
      <4>1. mailbox[c] \in Seq(Refs) /\ Len(mailbox[c]) \in Nat \ {0}
            /\ Head(mailbox[c]) = mailbox[c][1]
        BY <2>1 DEF TypeInv, TypeOK
      <4> QED
        BY <4>1 DEF Held
    <3>2. pc'[c] = "callback" /\ fetched'[c] = Head(mailbox[c])
      BY <2>1 DEF TypeInv, TypeOK, Threads
    <3> QED
      BY <2>2, <3>1, <3>2 DEF BusInHand, Stable, Message
  <2>6. c \in BusRegistered
    BY <2>1 DEF OfferInv
  <2>7. Queues' = [Queues EXCEPT ![c] = Tail(@)]
    BY <2>2, <2>3
  <2>8. InHands' = [InHands EXCEPT ![c] = Head(Queues[c])]
    BY <1>3, <2>5
  <2>9. Bus!Deliver(c, c)
    BY <1>2, <1>6, <2>1, <2>2, <2>4, <2>6, <2>7, <2>8 DEF Bus!Deliver
  <2> QED
    BY <2>9 DEF Bus!Next
<1>10. CASE CallbackReturns(c)
  <2>1. /\ mailbox' = mailbox /\ consumer_pool' = consumer_pool /\ is_paused' = is_paused
        /\ Error' = Error /\ pc[c] = "callback" /\ pc'[c] \in {"paused", "returned"}
    BY <1>10 DEF CallbackReturns, TypeInv, TypeOK, Threads
  <2>2. BusInHand(c) # None
    <3>1. fetched[c] \in Refs /\ Held(fetched[c])
      BY <2>1 DEF TypeInv, TypeOK, LocalsOK, Threads, Held
    <3>2. Message(fetched[c]) \in Messages
      BY <3>1, HeldLive DEF TypeInv
    <3> QED
      BY <2>1, <3>2, MemoryAssumption DEF BusInHand
  <2>3. BusInHand(c)' = None
    BY <2>1 DEF BusInHand
  <2>4. InHands' = [InHands EXCEPT ![c] = None]
    BY <1>3, <2>3
  <2>5. Bus!Done(c)
    BY <1>2, <1>5, <1>6, <2>1, <2>2, <2>4 DEF Bus!Done
  <2> QED
    BY <2>5 DEF Bus!Next
<1>11. CASE FlushFetch(c)
  <2>1. /\ mailbox[c] # <<>> /\ mailbox' = [mailbox EXCEPT ![c] = Tail(@)]
        /\ pc[c] = "flush" /\ pc'[c] = "flush_release"
        /\ consumer_pool' = consumer_pool /\ is_paused' = is_paused /\ Error' = Error
    BY <1>11 DEF FlushFetch, Fetch, TypeInv, TypeOK, Threads
  <2>2. BusQueue(c) # <<>> /\ BusQueue(c)' = Tail(BusQueue(c))
    BY <2>1, QueueFetched DEF TypeInv, TypeOK
  <2>3. \A d \in Consumers : d # c => BusQueue(d)' = BusQueue(d)
    BY <2>1, QueueKept DEF TypeInv, TypeOK
  <2>4. is_paused[c]
    BY <2>1 DEF OfferInv
  <2>5. Queues' = [Queues EXCEPT ![c] = Tail(@)]
    BY <2>2, <2>3
  <2>6. Bus!Flush(c)
    BY <1>2, <1>4, <1>6, <2>1, <2>2, <2>4, <2>5 DEF Bus!Flush
  <2> QED
    BY <2>6 DEF Bus!Next
<1>12. CASE FlushRelease(c) \/ FlushEnds(c)
  <2>1. /\ mailbox' = mailbox /\ consumer_pool' = consumer_pool /\ is_paused' = is_paused
        /\ Error' = Error /\ pc[c] # "callback" /\ pc'[c] # "callback"
    BY <1>12 DEF FlushRelease, FlushEnds, OfferInv, TypeInv, TypeOK, Threads
  <2> QED
    BY <1>2, <1>4, <1>5, <1>6, <2>1 DEF Bus!busVars
<1>13. CASE Resume(c) \/ \E flush_buffer \in BOOLEAN : Pause(c, flush_buffer)
  <2>1. /\ mailbox' = mailbox /\ consumer_pool' = consumer_pool
        /\ \E p \in BOOLEAN : is_paused' = [is_paused EXCEPT ![c] = p]
        /\ Error' = Error /\ pc[c] \in {"returned", "paused", "flushed"} /\ pc'[c] # "callback"
    BY <1>13 DEF Resume, Pause, TypeInv, TypeOK, Threads
  <2>2. c \in BusRegistered
    BY <2>1 DEF OfferInv
  <2>3. Bus!SetPaused(c)
    BY <1>2, <1>4, <1>5, <1>6, <2>1, <2>2 DEF Bus!SetPaused
  <2> QED
    BY <2>3 DEF Bus!Next
<1> QED
  BY <1>7, <1>8, <1>9, <1>10, <1>11, <1>12, <1>13 DEF Consumer, messaging_consumer_init, Serve

\* The frees that follow a release are invisible.
LEMMA FreeRefines ==
  ASSUME TypeInv, Stable, NEW t \in Threads, Free(t)
  PROVE  UNCHANGED Bus!busVars
<1>1. UNCHANGED <<pc, mailbox, is_paused, consumer_pool, component_states, ref, index,
                  num_consumers, enqueue_successful, fetched>>
  BY DEF Free, FreePacket, FreeRef
<1>2. \A s \in Senders : BusSend(s)' = BusSend(s)
  BY <1>1, SendKept
<1>3. \A c \in Consumers : BusQueue(c)' = BusQueue(c)
  BY <1>1, QueueKept DEF TypeInv
<1>4. ASSUME NEW c \in Consumers PROVE BusInHand(c)' = BusInHand(c)
  <2>1. pc[c] = "callback" => fetched[c] \in Refs /\ Held(fetched[c])
    BY DEF TypeInv, TypeOK, LocalsOK, Threads, Held
  <2> QED
    BY <1>1, <2>1 DEF Stable, BusInHand, Message
<1>5. BusRegistered' = BusRegistered
  BY <1>1 DEF BusRegistered
<1> QED
  BY <1>1, <1>2, <1>3, <1>4, <1>5 DEF Bus!busVars

-----------------------------------------------------------------------------
(* The refinement *)

\* The offers are sound in every state, on top of the reference counts.
LEMMA Offers ==
  ASSUME ~FetchBeforeRetain
  PROVE  Spec => []OfferInv
<1>1. Init => OfferInv
  BY ConsumerAssumption, ThreadAssumption DEF Init, OfferInv, Threads
<1>2. RefCountInv /\ RefCountInv' /\ OfferInv /\ [Next]_vars => OfferInv'
  <2> SUFFICES ASSUME RefCountInv, RefCountInv', OfferInv, [Next]_vars PROVE OfferInv'
    OBVIOUS
  <2>1. TypeInv /\ TypeInv' /\ FreeOK /\ PacketsOK
    BY DEF RefCountInv, TypeInv
  <2>2. Stable
    BY <2>1, MessageKept
  <2>3. CASE \E t \in Threads : Free(t)
    <3>1. /\ UNCHANGED <<pc, mailbox, is_paused, consumer_pool, ref, index>>
          /\ BusRegistered' = BusRegistered
      BY <2>3 DEF Free, FreePacket, FreeRef, BusRegistered
    <3>2. ASSUME NEW s \in Senders, pc[s] \in {"post", "drop", "drop_release", "repost"}
          PROVE  (Message(ref[s]) \in Accepts[Target(s)])'
      <4>1. index[s] <= num_consumers[s] /\ ref[s] # None
        BY <2>1, <3>2 DEF TypeInv, LocalsOK
      <4> QED
        BY <2>1, <2>2, <3>1, <3>2, <4>1, OfferKept DEF OfferInv
    <3> QED
      BY <3>1, <3>2 DEF OfferInv
  <2>4. CASE UNCHANGED vars
    BY <2>4 DEF vars, shared, locals, OfferInv, BusRegistered, Message, Target
  <2> QED
    BY <2>1, <2>2, <2>3, <2>4, OfferSendStep, OfferReceiveStep DEF Next
<1> QED
  BY <1>1, <1>2, RefCounting, PTL DEF Spec

\* messaging.c is a publish/subscribe bus: under every schedule in which no
\* thread fetches a reference between its post and its retain, each step of the
\* code is a step of MessageBus, or one that its clients cannot see.
THEOREM BusImplemented ==
  ASSUME ~FetchBeforeRetain
  PROVE  Spec => ImplementsBus
<1>1. Init => Bus!Init
  BY ThreadAssumption
  DEF Init, Bus!Init, BusRegistered, BusSend, BusQueue, BusInHand, Threads
<1>2. RefCountInv /\ RefCountInv' /\ OfferInv /\ [Next]_vars => [Bus!Next]_(Bus!busVars)
  <2> SUFFICES ASSUME RefCountInv, RefCountInv', OfferInv, [Next]_vars
               PROVE  Bus!Next \/ UNCHANGED Bus!busVars
    OBVIOUS
  <2>1. TypeInv /\ TypeInv' /\ PoolOK /\ FreeOK /\ PacketsOK
    BY DEF RefCountInv, TypeInv
  <2>2. Stable
    BY <2>1, MessageKept
  <2>3. CASE UNCHANGED vars
    BY <2>3 DEF vars, shared, locals, Bus!busVars, BusRegistered, BusSend, BusQueue, BusInHand,
                Remaining, Message
  <2> QED
    BY <2>1, <2>2, <2>3, SendRefines, ReceiveRefines, FreeRefines DEF Next
<1> QED
  BY <1>1, <1>2, RefCounting, Offers, PTL DEF Spec, ImplementsBus, Bus!Spec

-----------------------------------------------------------------------------
(* A paused consumer *)

\* The sender has tested is_paused of this consumer and not posted to it yet.
Committed(s, c) == pc[s] \in {"post", "drop", "drop_release", "repost"} /\ Target(s) = c

\* Each packet that came after the flush can be put down to a sender of its own,
\* which will not post to this consumer again while it is paused.
LateFrom(c) ==
    \E from \in [1..Len(mailbox[c]) -> Senders] :
        /\ \A j, k \in 1..Len(mailbox[c]) : from[j] = from[k] => j = k
        /\ \A k \in 1..Len(mailbox[c]) :
             Message(mailbox[c][k]) \in Produces[from[k]] /\ ~Committed(from[k], c)

OwnMessages ==
    \A s \in Senders : /\ packet[s] # None => heap[packet[s]] \in Produces[s]
                       /\ ref[s] # None => Message(ref[s]) \in Produces[s]

PausedOK ==
    \A c \in Consumers : /\ pc[c] \in {"flush", "flush_release", "flushed"} => is_paused[c]
                         /\ pc[c] = "flushed" => LateFrom(c)

LateInv == OwnMessages /\ PausedOK

\* What a mailbox refers to is left as it is.
LEMMA BoxStable ==
  ASSUME TypeInv, Stable, NEW c \in Consumers, NEW k \in 1..Len(mailbox[c])
  PROVE  heap'[ref_packet'[mailbox[c][k]]] = heap[ref_packet[mailbox[c][k]]]
<1>1. mailbox[c][k] \in Refs /\ Held(mailbox[c][k])
  BY DEF TypeInv, TypeOK, Held
<1> QED
  BY <1>1 DEF Stable, Message

\* Steps that do not touch the mailbox.
LEMMA LateKept ==
  ASSUME TypeInv, Stable, NEW c \in Consumers, LateFrom(c), mailbox'[c] = mailbox[c],
         \A s \in Senders : Committed(s, c)' => Committed(s, c)
  PROVE  LateFrom(c)'
<1>1. PICK from \in [1..Len(mailbox[c]) -> Senders] :
        /\ \A j, k \in 1..Len(mailbox[c]) : from[j] = from[k] => j = k
        /\ \A k \in 1..Len(mailbox[c]) :
             Message(mailbox[c][k]) \in Produces[from[k]] /\ ~Committed(from[k], c)
  BY DEF LateFrom
<1>2. \A k \in 1..Len(mailbox[c]) : heap'[ref_packet'[mailbox[c][k]]] = heap[ref_packet[mailbox[c][k]]]
  BY BoxStable
<1>3. \A k \in 1..Len(mailbox[c]) : ~Committed(from[k], c)'
  BY <1>1
<1>4. \A k \in 1..Len(mailbox[c]) : (Message(mailbox[c][k]) \in Produces[from[k]])'
  BY <1>1, <1>2 DEF Message
<1> QED
  BY <1>1, <1>3, <1>4 DEF LateFrom

\* The post of a sender that was committed, and is no more.
LEMMA LatePosted ==
  ASSUME TypeInv, Stable, NEW c \in Consumers, LateFrom(c), NEW s \in Senders, Committed(s, c),
         ref[s] # None, Message(ref[s]) \in Produces[s],
         mailbox'[c] = Append(mailbox[c], ref[s]), ~Committed(s, c)',
         \A u \in Senders : Committed(u, c)' => Committed(u, c)
  PROVE  LateFrom(c)'
<1>1. PICK from \in [1..Len(mailbox[c]) -> Senders] :
        /\ \A j, k \in 1..Len(mailbox[c]) : from[j] = from[k] => j = k
        /\ \A k \in 1..Len(mailbox[c]) :
             Message(mailbox[c][k]) \in Produces[from[k]] /\ ~Committed(from[k], c)
  BY DEF LateFrom
<1> DEFINE q == mailbox[c]
           n == Len(q)
           next == [k \in 1..n + 1 |-> IF k = n + 1 THEN s ELSE from[k]]
<1>2. /\ q \in Seq(Refs) /\ n \in Nat /\ Len(mailbox'[c]) = n + 1
      /\ \A k \in 1..n : mailbox'[c][k] = q[k]
      /\ mailbox'[c][n + 1] = ref[s]
      /\ ref[s] \in Refs /\ Held(ref[s])
  BY DEF TypeInv, TypeOK, Held
<1>3. \A k \in 1..n : heap'[ref_packet'[q[k]]] = heap[ref_packet[q[k]]]
  BY BoxStable
<1>4. heap'[ref_packet'[ref[s]]] = heap[ref_packet[ref[s]]]
  BY <1>2 DEF Stable, Message
<1>5. \A k \in 1..n : from[k] # s
  BY <1>1
<1>6. /\ \A k \in 1..n : Message(q[k]) \in Produces[from[k]] /\ from[k] \in Senders
      /\ \A k \in 1..n : ~Committed(from[k], c)'
      /\ \A j, k \in 1..n : from[j] = from[k] => j = k
  BY <1>1
<1> HIDE DEF q, n
<1>7. PICK to \in [1..n + 1 -> Senders] :
         /\ to[n + 1] = s
         /\ \A k \in 1..n : to[k] = from[k]
  <2>1. next \in [1..n + 1 -> Senders] /\ next[n + 1] = s /\ \A k \in 1..n : next[k] = from[k]
    BY <1>2, <1>6
  <2> HIDE DEF next
  <2> QED
    BY <2>1
<1>8. \A j, k \in 1..n + 1 : to[j] = to[k] => j = k
  BY <1>2, <1>5, <1>6, <1>7
<1>9. ASSUME NEW k \in 1..n + 1
      PROVE  (Message(mailbox[c][k]) \in Produces[to[k]])' /\ ~Committed(to[k], c)'
  <2>1. CASE k = n + 1
    <3>1. to[k] = s
      BY <1>7, <2>1
    <3>2. heap'[ref_packet'[mailbox'[c][k]]] \in Produces[s]
      BY <1>2, <1>4, <2>1 DEF Message
    <3> QED
      BY <3>1, <3>2 DEF Message
  <2>2. CASE k # n + 1
    <3>1. k \in 1..n
      BY <1>2, <2>2
    <3>2. to[k] = from[k]
      BY <1>7, <3>1
    <3>3. heap'[ref_packet'[mailbox'[c][k]]] \in Produces[from[k]]
      BY <1>2, <1>3, <1>6, <3>1 DEF Message
    <3> QED
      BY <1>6, <3>1, <3>2, <3>3 DEF Message
  <2> QED
    BY <2>1, <2>2
<1> QED
  BY <1>2, <1>7, <1>8, <1>9 DEF LateFrom

\* The fetch of a sender that makes room.
LEMMA LateFetched ==
  ASSUME TypeInv, Stable, NEW c \in Consumers, LateFrom(c),
         mailbox[c] # <<>>, mailbox'[c] = Tail(mailbox[c]),
         \A u \in Senders : Committed(u, c)' => Committed(u, c)
  PROVE  LateFrom(c)'
<1>1. PICK from \in [1..Len(mailbox[c]) -> Senders] :
        /\ \A j, k \in 1..Len(mailbox[c]) : from[j] = from[k] => j = k
        /\ \A k \in 1..Len(mailbox[c]) :
             Message(mailbox[c][k]) \in Produces[from[k]] /\ ~Committed(from[k], c)
  BY DEF LateFrom
<1> DEFINE q == mailbox[c]
           n == Len(q)
           next == [k \in 1..n - 1 |-> from[k + 1]]
<1>2. /\ q \in Seq(Refs) /\ n \in Nat \ {0} /\ Len(mailbox'[c]) = n - 1
      /\ \A k \in 1..n - 1 : mailbox'[c][k] = q[k + 1]
  BY DEF TypeInv, TypeOK
<1>3. \A k \in 1..n : heap'[ref_packet'[q[k]]] = heap[ref_packet[q[k]]]
  BY BoxStable
<1>6. /\ \A k \in 1..n : Message(q[k]) \in Produces[from[k]] /\ from[k] \in Senders
      /\ \A k \in 1..n : ~Committed(from[k], c)'
      /\ \A j, k \in 1..n : from[j] = from[k] => j = k
  BY <1>1
<1> HIDE DEF q, n
<1>0. \A k \in 1..n - 1 : k + 1 \in 1..n /\ k \in Int
  BY <1>2
<1>7. PICK to \in [1..n - 1 -> Senders] : \A k \in 1..n - 1 : to[k] = from[k + 1]
  <2>1. next \in [1..n - 1 -> Senders] /\ \A k \in 1..n - 1 : next[k] = from[k + 1]
    BY <1>0, <1>6
  <2> HIDE DEF next
  <2> QED
    BY <2>1
<1>8. \A j, k \in 1..n - 1 : to[j] = to[k] => j = k
  BY <1>0, <1>6, <1>7
<1>9. ASSUME NEW k \in 1..n - 1
      PROVE  (Message(mailbox[c][k]) \in Produces[to[k]])' /\ ~Committed(to[k], c)'
  <2>1. to[k] = from[k + 1] /\ k + 1 \in 1..n
    BY <1>0, <1>7
  <2>2. heap'[ref_packet'[mailbox'[c][k]]] \in Produces[from[k + 1]]
    BY <1>2, <1>3, <1>6, <2>1 DEF Message
  <2> QED
    BY <1>6, <2>1, <2>2 DEF Message
<1> QED
  BY <1>2, <1>7, <1>8, <1>9 DEF LateFrom

\* Nobody commits to a consumer that is paused.
LEMMA NobodyCommits ==
  ASSUME TypeInv, TypeInv', [Next]_vars, NEW c \in Consumers, is_paused[c],
         NEW s \in Senders, Committed(s, c)'
  PROVE  Committed(s, c)
<1> USE DEF At, Goto, shared, locals
<1>1. /\ index'[s] \in 1..Len(consumer_pool') /\ index'[s] <= num_consumers'[s]
      /\ ref'[s] # None
  <2>1. /\ pc'[s] \in {"post", "drop", "drop_release", "repost"}
        /\ index'[s] \in Nat \ {0} /\ num_consumers'[s] \in Nat
    BY DEF Committed, TypeInv, TypeOK
  <2>2. ref'[s] # None /\ index'[s] <= num_consumers'[s] /\ num_consumers'[s] <= Len(consumer_pool')
    BY <2>1 DEF TypeInv, LocalsOK
  <2>3. Len(consumer_pool') \in Nat
    BY DEF TypeInv, TypeOK
  <2> QED
    BY <2>1, <2>2, <2>3
<1>2. CASE Sender(s)
  <2>1. /\ pc[s] \in {"filter", "post", "drop", "drop_release"} /\ index'[s] = index[s]
        /\ consumer_pool' = consumer_pool
        /\ pc[s] = "filter" => ~is_paused[Target(s)]
    BY <1>2
    DEF Sender, FinishSend, Alloc, AllocFails, CreateRef, CreateRefFails, Skip, Select, Post,
        PostFails, DropOldest, DropNothing, ReleaseDropped, RepostFails, Retain, EndSend,
        NextConsumer, TypeInv, TypeOK, Threads, Committed, Wants
  <2>2. Target(s)' = Target(s)
    BY <2>1 DEF Target
  <2> QED
    BY <2>1, <2>2 DEF Committed
<1>3. CASE ~Sender(s)
  <2>1. /\ pc'[s] = pc[s] /\ index'[s] = index[s] /\ num_consumers'[s] = num_consumers[s]
        /\ \A j \in 1..Len(consumer_pool) : consumer_pool'[j] = consumer_pool[j]
    <3>1. ASSUME NEW u \in Senders, Sender(u), u # s
          PROVE  /\ pc'[s] = pc[s] /\ index'[s] = index[s] /\ num_consumers'[s] = num_consumers[s]
                 /\ consumer_pool' = consumer_pool
      BY <3>1
      DEF Sender, FinishSend, Alloc, AllocFails, CreateRef, CreateRefFails, Skip, Select, Post,
          PostFails, DropOldest, DropNothing, ReleaseDropped, RepostFails, Retain, EndSend,
          NextConsumer, TypeInv, TypeOK, Threads
    <3>2. ASSUME NEW d \in Consumers, Consumer(d)
          PROVE  /\ pc'[s] = pc[s] /\ index'[s] = index[s] /\ num_consumers'[s] = num_consumers[s]
                 /\ \A j \in 1..Len(consumer_pool) : consumer_pool'[j] = consumer_pool[j]
      <4>1. d # s
        BY ThreadAssumption
      <4>2. index' = index /\ num_consumers' = num_consumers
        BY <3>2
        DEF Consumer, messaging_consumer_init, Serve, Register, RegisterFails, ReceiveInvalid,
            Receive, CallbackReturns, FlushFetch, FlushRelease, FlushEnds, Resume, Pause
      <4>3. \A j \in 1..Len(consumer_pool) : consumer_pool'[j] = consumer_pool[j]
        <5>1. consumer_pool' = consumer_pool \/ consumer_pool' = Append(consumer_pool, d)
          BY <3>2
          DEF Consumer, messaging_consumer_init, Serve, Register, RegisterFails, ReceiveInvalid,
              Receive, CallbackReturns, FlushFetch, FlushRelease, FlushEnds, Resume, Pause
        <5> QED
          <6>1. consumer_pool \in Seq(Consumers)
            BY DEF TypeInv, TypeOK
          <6>2. \A j \in 1..Len(consumer_pool) : Append(consumer_pool, d)[j] = consumer_pool[j]
            BY <6>1
          <6> QED
            BY <5>1, <6>2, Zenon
      <4> QED
        BY <3>2, <4>1, <4>2, <4>3
        DEF Consumer, messaging_consumer_init, Serve, Register, RegisterFails, ReceiveInvalid,
            Receive, CallbackReturns, FlushFetch, FlushRelease, FlushEnds, Resume, Pause,
            TypeInv, TypeOK, Threads
    <3>3. ASSUME NEW t \in Threads, Free(t)
          PROVE  UNCHANGED <<pc, index, num_consumers, consumer_pool>>
      BY <3>3 DEF Free, FreePacket, FreeRef
    <3> QED
      BY <1>3, <3>1, <3>2, <3>3 DEF Next, vars
  <2>2. index[s] <= num_consumers[s]
    BY <1>1, <2>1
  <2>3. Target(s)' = Target(s)
    BY <2>1, <2>2, TargetRegistered DEF Target
  <2> QED
    BY <2>1, <2>3 DEF Committed
<1> QED
  BY <1>2, <1>3

\* A sender's message is its own from the allocation to the end of the send.
LEMMA OwnStep ==
  ASSUME TypeInv, TypeInv', FreeOK, PacketsOK, Stable, OwnMessages, [Next]_vars
  PROVE  OwnMessages'
<1> USE DEF At, Goto, shared, locals
<1> SUFFICES ASSUME NEW s \in Senders
             PROVE  /\ packet'[s] # None => heap'[packet'[s]] \in Produces[s]
                    /\ ref'[s] # None => heap'[ref_packet'[ref'[s]]] \in Produces[s]
  BY DEF OwnMessages, Message
<1>1. ref[s] # None => heap'[ref_packet'[ref[s]]] \in Produces[s]
  <2>1. ref[s] # None => ref[s] \in Refs /\ Held(ref[s])
    BY DEF TypeInv, TypeOK, Held
  <2> QED
    BY <2>1 DEF OwnMessages, Stable, Message
<1>2. CASE CreateRef(s)
  <2>1. PICK r \in ref_pool : /\ ref_packet' = [ref_packet EXCEPT ![r] = packet[s]]
                              /\ ref' = [ref EXCEPT ![s] = r]
    BY <1>2 DEF CreateRef
  <2>2. r \in Refs /\ heap' = heap /\ packet' = [packet EXCEPT ![s] = None]
    BY <1>2 DEF CreateRef, TypeInv, TypeOK
  <2>3. packet[s] # None
    BY <1>2 DEF CreateRef, TypeInv, LocalsOK
  <2>4. ref'[s] = r /\ ref_packet'[r] = packet[s] /\ packet'[s] = None
    BY <2>1, <2>2 DEF TypeInv, TypeOK
  <2> QED
    BY <2>2, <2>3, <2>4 DEF OwnMessages
<1>3. CASE Alloc(s)
  <2>1. PICK p \in Heap[s], m \in Produces[s] :
           heap' = [heap EXCEPT ![p] = m] /\ packet' = [packet EXCEPT ![s] = p]
    BY <1>3 DEF Alloc, telemetry_allocator_alloc
  <2>2. p \in Packets
    BY MemoryAssumption
  <2>3. packet'[s] = p /\ heap'[p] = m /\ ref' = ref
    BY <1>3, <2>1, <2>2 DEF Alloc, TypeInv, TypeOK
  <2> QED
    BY <1>1, <2>3
<1>4. CASE ~CreateRef(s) /\ ~Alloc(s)
  <2>1. ref'[s] \in {ref[s], None} /\ packet'[s] \in {packet[s], None}
    <3>1. ASSUME NEW u \in Senders, Sender(u)
          PROVE  ref'[s] \in {ref[s], None} /\ packet'[s] \in {packet[s], None}
      BY <1>4, <3>1
      DEF Sender, FinishSend, Alloc, AllocFails, CreateRef, CreateRefFails, Skip, Select, Post,
          PostFails, DropOldest, DropNothing, ReleaseDropped, RepostFails, Retain, EndSend,
          NextConsumer, TypeInv, TypeOK, Threads
    <3>2. ASSUME NEW c \in Consumers, Consumer(c) PROVE UNCHANGED <<ref, packet>>
      BY <3>2
      DEF Consumer, messaging_consumer_init, Serve, Register, RegisterFails, ReceiveInvalid,
          Receive, CallbackReturns, FlushFetch, FlushRelease, FlushEnds, Resume, Pause
    <3>3. ASSUME NEW t \in Threads, Free(t) PROVE UNCHANGED <<ref, packet>>
      BY <3>3 DEF Free, FreePacket, FreeRef
    <3> QED
      BY <3>1, <3>2, <3>3 DEF Next, vars
  <2>2. ASSUME packet'[s] # None PROVE heap'[packet[s]] = heap[packet[s]]
    <3>1. /\ packet[s] \in Packets /\ packet[s] # None /\ heap[packet[s]] # None
          /\ \A u \in Senders : packet[u] = packet[s] => u = s
          /\ \A r \in Live : ref_packet[r] # packet[s]
      BY <2>1, <2>2 DEF TypeInv, TypeOK, PacketsOK
    <3>2. ASSUME NEW u \in Senders, Alloc(u) PROVE heap'[packet[s]] = heap[packet[s]]
      BY <3>1, <3>2 DEF Alloc, telemetry_allocator_alloc, TypeInv, TypeOK
    <3>3. ASSUME NEW u \in Senders, CreateRefFails(u) PROVE heap'[packet[s]] = heap[packet[s]]
      <4>1. u # s
        BY <2>2, <3>3 DEF CreateRefFails, TypeInv, TypeOK
      <4>2. packet[u] # packet[s]
        BY <3>1, <4>1
      <4> QED
        BY <3>1, <3>3, <4>2 DEF CreateRefFails, telemetry_allocator_free, TypeInv, TypeOK
    <3>4. ASSUME NEW t \in Threads, Free(t) PROVE heap'[packet[s]] = heap[packet[s]]
      <4>1. CASE FreePacket(t)
        <5>1. ref_packet[freeing[t]] # packet[s]
          BY <3>1, <4>1, LiveFreed DEF TypeInv
        <5> QED
          BY <3>1, <4>1, <5>1 DEF FreePacket, telemetry_allocator_free, TypeInv, TypeOK
      <4>2. CASE FreeRef(t)
        BY <4>2 DEF FreeRef
      <4> QED
        BY <3>4, <4>1, <4>2 DEF Free, FreePacket, FreeRef
    <3>5. ASSUME NEW u \in Senders, Sender(u), ~Alloc(u), ~CreateRefFails(u)
          PROVE  heap' = heap
      BY <3>5 DEF Sender, FinishSend, AllocFails, CreateRef, Skip, Select, Post, PostFails,
                  DropOldest, DropNothing, ReleaseDropped, RepostFails, Retain, EndSend
    <3>6. ASSUME NEW c \in Consumers, Consumer(c) PROVE heap' = heap
      BY <3>6
      DEF Consumer, messaging_consumer_init, Serve, Register, RegisterFails, ReceiveInvalid,
          Receive, CallbackReturns, FlushFetch, FlushRelease, FlushEnds, Resume, Pause
    <3> QED
      BY <3>2, <3>3, <3>4, <3>5, <3>6 DEF Next, vars
  <2>3. packet'[s] # None => heap'[packet'[s]] \in Produces[s]
    BY <2>1, <2>2 DEF OwnMessages
  <2> QED
    BY <1>1, <2>1, <2>3
<1> QED
  BY <1>2, <1>3, <1>4

\* The mailbox of a paused consumer whose flush is over is left alone, receives the
\* packet of a sender that was committed, or loses its oldest to one.
LEMMA FlushedBox ==
  ASSUME TypeInv, TypeInv', [Next]_vars, NEW c \in Consumers, pc[c] = "flushed"
  PROVE  \/ mailbox'[c] = mailbox[c]
         \/ mailbox[c] # <<>> /\ mailbox'[c] = Tail(mailbox[c])
         \/ \E s \in Senders : /\ Committed(s, c) /\ ~Committed(s, c)' /\ ref[s] # None
                               /\ mailbox'[c] = Append(mailbox[c], ref[s])
<1> USE DEF At, Goto, shared, locals
<1>1. ASSUME NEW s \in Senders, Post(s), Target(s) = c
      PROVE  /\ Committed(s, c) /\ ~Committed(s, c)' /\ ref[s] # None
             /\ mailbox'[c] = Append(mailbox[c], ref[s])
  BY <1>1 DEF Post, Committed, TypeInv, TypeOK, LocalsOK, Threads
<1>2. ASSUME NEW s \in Senders, Post(s), Target(s) # c PROVE mailbox'[c] = mailbox[c]
  BY <1>2 DEF Post, TypeInv, TypeOK
<1>3. ASSUME NEW s \in Senders, DropOldest(s)
      PROVE  \/ mailbox'[c] = mailbox[c]
             \/ mailbox[c] # <<>> /\ mailbox'[c] = Tail(mailbox[c])
  BY <1>3 DEF DropOldest, Fetch, TypeInv, TypeOK
<1>4. ASSUME NEW s \in Senders, Sender(s), ~Post(s), ~DropOldest(s) PROVE mailbox' = mailbox
  BY <1>4 DEF Sender, FinishSend, Alloc, AllocFails, CreateRef, CreateRefFails, Skip, Select,
              PostFails, DropNothing, ReleaseDropped, RepostFails, Retain, EndSend
<1>5. ASSUME NEW d \in Consumers, Consumer(d) PROVE mailbox'[c] = mailbox[c]
  BY <1>5
  DEF Consumer, messaging_consumer_init, Serve, Register, RegisterFails, ReceiveInvalid,
      Receive, CallbackReturns, FlushFetch, FlushRelease, FlushEnds, Resume, Pause, Fetch,
      TypeInv, TypeOK
<1>6. ASSUME NEW t \in Threads, Free(t) PROVE mailbox' = mailbox
  BY <1>6 DEF Free, FreePacket, FreeRef
<1> QED
  BY <1>1, <1>2, <1>3, <1>4, <1>5, <1>6 DEF Next, vars

LEMMA PausedStep ==
  ASSUME TypeInv, TypeInv', Stable, LateInv, [Next]_vars
  PROVE  PausedOK'
<1> USE DEF At, Goto, shared, locals
<1> SUFFICES ASSUME NEW c \in Consumers
             PROVE  /\ pc'[c] \in {"flush", "flush_release", "flushed"} => is_paused'[c]
                    /\ pc'[c] = "flushed" => LateFrom(c)'
  BY DEF PausedOK
<1>1. CASE Consumer(c)
  <2>1. pc'[c] \in {"flush", "flush_release", "flushed"} => is_paused'[c]
    BY <1>1
    DEF Consumer, messaging_consumer_init, Serve, Register, RegisterFails, ReceiveInvalid,
        Receive, CallbackReturns, FlushFetch, FlushRelease, FlushEnds, Resume, Pause,
        TypeInv, TypeOK, Threads, LateInv, PausedOK
  <2>2. ASSUME pc'[c] = "flushed" PROVE mailbox'[c] = <<>>
    BY <1>1, <2>2
    DEF Consumer, messaging_consumer_init, Serve, Register, RegisterFails, ReceiveInvalid,
        Receive, CallbackReturns, FlushFetch, FlushRelease, FlushEnds, Resume, Pause,
        TypeInv, TypeOK, Threads
  <2>3. mailbox'[c] = <<>> => LateFrom(c)'
    <3> SUFFICES ASSUME mailbox'[c] = <<>> PROVE LateFrom(c)'
      OBVIOUS
    <3>1. 1..Len(mailbox'[c]) = {}
      OBVIOUS
    <3>2. PICK from : from \in [{} -> Senders]
      <4>1. [x \in {} |-> x] \in [{} -> Senders]
        OBVIOUS
      <4> QED
        BY <4>1
    <3> QED
      BY <3>1, <3>2 DEF LateFrom
  <2> QED
    BY <2>1, <2>2, <2>3
<1>2. CASE ~Consumer(c)
  <2>1. pc'[c] = pc[c] /\ is_paused'[c] = is_paused[c]
    <3>1. ASSUME NEW s \in Senders, Sender(s) PROVE pc'[c] = pc[c] /\ is_paused'[c] = is_paused[c]
      <4>1. s # c
        BY ThreadAssumption
      <4> QED
        BY <3>1, <4>1
        DEF Sender, FinishSend, Alloc, AllocFails, CreateRef, CreateRefFails, Skip, Select, Post,
            PostFails, DropOldest, DropNothing, ReleaseDropped, RepostFails, Retain, EndSend,
            NextConsumer, TypeInv, TypeOK, Threads
    <3>2. ASSUME NEW d \in Consumers, Consumer(d), d # c
          PROVE  pc'[c] = pc[c] /\ is_paused'[c] = is_paused[c]
      BY <3>2
      DEF Consumer, messaging_consumer_init, Serve, Register, RegisterFails, ReceiveInvalid,
          Receive, CallbackReturns, FlushFetch, FlushRelease, FlushEnds, Resume, Pause,
          TypeInv, TypeOK, Threads
    <3>3. ASSUME NEW t \in Threads, Free(t) PROVE UNCHANGED <<pc, is_paused>>
      BY <3>3 DEF Free, FreePacket, FreeRef
    <3> QED
      BY <1>2, <3>1, <3>2, <3>3 DEF Next, vars
  <2>2. ASSUME pc[c] = "flushed" PROVE LateFrom(c)'
    <3>1. is_paused[c] /\ LateFrom(c)
      BY <2>2 DEF LateInv, PausedOK
    <3>2. \A s \in Senders : Committed(s, c)' => Committed(s, c)
      BY <3>1, NobodyCommits
    <3>3. CASE mailbox'[c] = mailbox[c]
      BY <3>1, <3>2, <3>3, LateKept
    <3>4. CASE mailbox[c] # <<>> /\ mailbox'[c] = Tail(mailbox[c])
      BY <3>1, <3>2, <3>4, LateFetched
    <3>5. ASSUME NEW s \in Senders, Committed(s, c), ~Committed(s, c)', ref[s] # None,
                 mailbox'[c] = Append(mailbox[c], ref[s])
          PROVE  LateFrom(c)'
      <4>1. Message(ref[s]) \in Produces[s]
        BY <3>5 DEF LateInv, OwnMessages
      <4> QED
        BY <3>1, <3>2, <3>5, <4>1, LatePosted
    <3> QED
      BY <2>2, <3>3, <3>4, <3>5, FlushedBox
  <2> QED
    BY <2>1, <2>2 DEF LateInv, PausedOK
<1> QED
  BY <1>1, <1>2

\* The packets of a kind are no more than the senders that produce it.
LEMMA LateCount ==
  ASSUME TypeOK, NEW c \in Consumers, LateFrom(c), NEW M \in SUBSET Messages
  PROVE  Cardinality({k \in 1..Len(mailbox[c]) : Message(mailbox[c][k]) \in M})
           <= Cardinality({s \in Senders : Produces[s] \cap M # {}})
<1>1. PICK from \in [1..Len(mailbox[c]) -> Senders] :
        /\ \A j, k \in 1..Len(mailbox[c]) : from[j] = from[k] => j = k
        /\ \A k \in 1..Len(mailbox[c]) : Message(mailbox[c][k]) \in Produces[from[k]]
  BY DEF LateFrom
<1> DEFINE K == {k \in 1..Len(mailbox[c]) : Message(mailbox[c][k]) \in M}
           S == {s \in Senders : Produces[s] \cap M # {}}
           f == [k \in K |-> from[k]]
<1>2. IsFiniteSet(S)
  <2>1. S \subseteq Threads
    BY DEF Threads
  <2> QED
    BY <2>1, ThreadAssumption, FS_Subset
<1>3. \A k \in K : from[k] \in S
  BY <1>1
<1>4. \A j, k \in K : from[j] = from[k] => j = k
  BY <1>1
<1> HIDE DEF K, S
<1>5. f \in Injection(K, S)
  BY <1>3, <1>4 DEF Injection, IsInjective
<1>6. Cardinality(K) <= Cardinality(S)
  BY <1>2, <1>5, FS_Injection
<1> QED
  BY <1>6 DEF K, S

\* messaging_pause_consumer: once its flush is over, the packets that still arrive are
\* those of sends that had passed the test of is_paused, one of each sender.
THEOREM LateEnqueuesAreFew ==
  ASSUME ~FetchBeforeRetain
  PROVE  Spec => []LateEnqueuesBounded
<1>1. Init => LateInv
  BY ThreadAssumption DEF Init, LateInv, OwnMessages, PausedOK, Threads
<1>2. RefCountInv /\ RefCountInv' /\ LateInv /\ [Next]_vars => LateInv'
  <2> SUFFICES ASSUME RefCountInv, RefCountInv', LateInv, [Next]_vars PROVE LateInv'
    OBVIOUS
  <2>1. TypeInv /\ TypeInv' /\ FreeOK /\ PacketsOK
    BY DEF RefCountInv, TypeInv
  <2>2. Stable
    BY <2>1, MessageKept
  <2>3. OwnMessages'
    BY <2>1, <2>2, OwnStep DEF LateInv
  <2>4. PausedOK'
    BY <2>1, <2>2, PausedStep
  <2> QED
    BY <2>3, <2>4 DEF LateInv
<1>3. RefCountInv /\ LateInv => LateEnqueuesBounded
  BY LateCount DEF RefCountInv, LateInv, PausedOK, LateEnqueuesBounded
<1> QED
  BY <1>1, <1>2, <1>3, RefCounting, PTL DEF Spec
=============================================================================
