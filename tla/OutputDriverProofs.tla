-------------------------- MODULE OutputDriverProofs --------------------------
(***************************************************************************)
(* Theorems about OutputDriver: what the destructor of a driver leaves     *)
(* behind, for every number of senders, messages and files.                *)
(***************************************************************************)
EXTENDS OutputDriver, MessagingStdProofs

-----------------------------------------------------------------------------
(* The states of a driver *)

Stages == {"absent", "starting", "open", "cleared", "terminated", "joining"}

Loops == {"none", "loop", "drain", "exited"}

DriverTypeOK ==
    /\ terminate_first \in BOOLEAN /\ is_running \in BOOLEAN
    /\ driver \in Stages /\ reader_thread \in Loops
    /\ files \in Nat /\ due \in Nat

\* The reader calls messaging_consumer_receive for its file, with no flag to drop
\* what it takes; main is in none of its calls but those about the file.
OwnCalls ==
    /\ pc[reader] \in {"idle", "peek", "dequeue", "waiting", "callback"}
    /\ pc[reader] # "idle" => consumer[reader] = file
    /\ ~silent[reader] /\ ~flushing[reader]
    /\ pc[main] \in {"idle", "unpause", "close"}
    /\ pc[main] # "idle" => consumer[main] = file

\* Where the thread is, and whether it is to go on, at each stage of the driver.
StagesOK ==
    /\ driver \in {"absent", "starting"} => reader_thread = "none"
    /\ driver \in {"starting", "open", "terminated"} => is_running
    /\ driver \in {"open", "terminated"} => reader_thread = "loop"
    /\ driver \in {"cleared", "joining"} => reader_thread # "none"
    /\ driver = "cleared" => ~terminate_first
    /\ driver = "terminated" => terminate_first
    /\ files = 0 => driver = "absent" /\ consumer_pool = <<>>

\* Has the thread found the mailbox empty, in its second loop?
Drained ==
    \/ reader_thread = "exited"
    \/ reader_thread = "drain" /\ pc[reader] = "idle" /\ returned[reader] # "ok"

\* What is due is on its way.
DueIsThere ==
    /\ due <= Len(queue_[file]) + InFlight
    /\ Drained \/ reader_thread = "none" => due = 0

\* The consumer of an M3OutputFileDriver is closed before its thread is told to
\* stop, and stays so until the next one.
ClosedFirst ==
    terminate_first =>
      /\ driver = "terminated" => pc[main] = "close" \/ (pc[main] = "idle" /\ ~running[file])
      /\ driver = "joining" \/ (driver = "absent" /\ files > 0)
           => pc[main] = "idle" /\ ~running[file]
      /\ Drained \/ driver = "absent" => queue_[file] = <<>>

DriverInv ==
    StdTypeOK /\ DriverTypeOK /\ OwnCalls /\ StagesOK /\ DueIsThere /\ ClosedFirst

\* The threads are different ones.
LEMMA DriverThreads ==
  /\ main \in Threads /\ reader \in Threads /\ main # reader
  /\ main \notin Senders /\ reader \notin Senders
  /\ file \in Consumers /\ Senders \subseteq Threads
BY DriverAssumption, StdAssumption DEF Threads

\* What a driver and its senders do, they do in calls of the messaging core.
LEMMA DriverCalls == [DriverNext]_allVars => [Next]_vars
<1> SUFFICES ASSUME [DriverNext]_allVars PROVE [Next]_vars
  OBVIOUS
<1> USE DriverAssumption
<1>1. CASE \E s \in Senders : (BeginSend(s) \/ Sending(s)) /\ UNCHANGED driverVars
  BY <1>1 DEF Next
<1>2. CASE Construct \/ TerminateConsumer
  <2>1. Control(main, file)
    BY <1>2 DEF Construct, TerminateConsumer, Control
  <2> QED
    BY <2>1 DEF Next
<1>3. CASE StartThread \/ ClearRunning \/ Join \/ ExitThread \/ UNCHANGED allVars
  BY <1>3 DEF StartThread, ClearRunning, Join, ExitThread, allVars
<1>4. CASE (Unpause(main) \/ Close(main)) /\ UNCHANGED driverVars
  BY <1>4 DEF Next
<1>5. CASE ReceiveNext \/ LeaveLoop \/ DrainNext
  <2>1. \E block \in BOOLEAN : Receive(reader, file, block, FALSE)
    BY <1>5 DEF ReceiveNext, LeaveLoop, DrainNext
  <2> QED
    BY <2>1 DEF Next
<1>6. CASE InReceive \/ Write \/ (SpuriousWake(reader) /\ UNCHANGED driverVars)
  <2>1. Receiving(reader) \/ SpuriousWake(reader)
    BY <1>6 DEF InReceive, Write, Receiving
  <2> QED
    BY <2>1 DEF Next
<1> QED
  BY <1>1, <1>2, <1>3, <1>4, <1>5, <1>6 DEF DriverNext, Driver, ReaderThread

\* A program with a driver uses the messaging core as MessagingStd has it: what
\* MessagingStdProofs shows of every run of the core holds while a driver opens and
\* closes its consumer.
THEOREM DriverUsesCore == DriverSpec => Spec
<1>1. DriverInit => Init
  BY DEF DriverInit
<1> QED
  BY <1>1, DriverCalls, PTL DEF DriverSpec, Spec

-----------------------------------------------------------------------------
(* The thread of the driver object *)

\* The constructor, up to the start of the thread.
LEMMA ConstructKept ==
  ASSUME DriverInv, Construct
  PROVE  DriverTypeOK' /\ OwnCalls' /\ StagesOK' /\ DueIsThere' /\ ClosedFirst'
<1> USE DriverThreads DEF DriverInv
<1>1. /\ driver = "absent" /\ driver' = "starting" /\ files' = files + 1 /\ is_running' = TRUE
      /\ UNCHANGED <<terminate_first, reader_thread, due>>
  BY DEF Construct
<1>2. /\ UNCHANGED <<silent[reader], flushing[reader], returned, queue_>>
      /\ pc'[reader] = pc[reader] /\ consumer'[reader] = consumer[reader]
      /\ pc'[main] \in {"idle", "unpause"} /\ (pc'[main] # "idle" => consumer'[main] = file)
  <2>1. CASE Register(main, file)
    BY <2>1 DEF Register, args, mailbox, OwnCalls
  <2>2. CASE Reopen(main, file)
    BY <2>2 DEF Reopen, Call, Goto, StdTypeOK
  <2> QED
    BY <2>1, <2>2 DEF Construct
<1>3. DriverTypeOK'
  BY <1>1 DEF DriverTypeOK, Stages
<1>4. OwnCalls'
  BY <1>2 DEF OwnCalls
<1>5. StagesOK'
  BY <1>1 DEF StagesOK, DriverTypeOK
<1>6. DueIsThere'
  BY <1>1, <1>2 DEF DueIsThere, Drained, StagesOK, InFlight
<1>7. ClosedFirst'
  BY <1>1, <1>2 DEF ClosedFirst, Drained, StagesOK
<1> QED
  BY <1>3, <1>4, <1>5, <1>6, <1>7

\* The steps between the constructor and the destructor, and in the destructor,
\* that call nothing.
LEMMA QuietStepsKept ==
  ASSUME DriverInv, StartThread \/ ClearRunning \/ Join
  PROVE  DriverTypeOK' /\ OwnCalls' /\ StagesOK' /\ DueIsThere' /\ ClosedFirst'
<1> USE DriverThreads DEF DriverInv
<1>1. UNCHANGED <<pc, consumer, silent, flushing, returned, queue_, running, consumer_pool>>
      /\ UNCHANGED <<terminate_first, files>>
  BY DEF StartThread, ClearRunning, Join, vars, args, shared, mailbox
<1>2. Len(queue_[file]) + InFlight \in Nat /\ (Len(queue_[file]) + InFlight)' = Len(queue_[file]) + InFlight
  <2>1. Len(queue_[file]) \in Nat /\ InFlight \in Nat /\ InFlight' = InFlight
    BY <1>1 DEF StdTypeOK, InFlight
  <2> QED
    BY <1>1, <2>1
<1>3. OwnCalls'
  BY <1>1 DEF OwnCalls
<1> DEFINE waiting == Len(queue_[file]) + InFlight
<1>4. DueIsThere <=> due <= waiting /\ (Drained \/ reader_thread = "none" => due = 0)
  BY DEF DueIsThere
<1>5. DueIsThere' <=> due' <= waiting /\ (Drained' \/ reader_thread' = "none" => due' = 0)
  BY <1>2 DEF DueIsThere
<1>6. waiting \in Nat
  BY <1>2
<1> HIDE DEF waiting
<1>7. CASE StartThread
  <2>1. driver = "starting" /\ driver' = "open" /\ reader_thread' = "loop" /\ UNCHANGED <<is_running, due>>
    BY <1>7 DEF StartThread
  <2>2. DriverTypeOK'
    BY <1>1, <2>1 DEF DriverTypeOK, Stages, Loops
  <2>3. StagesOK' /\ ClosedFirst'
    BY <1>1, <2>1 DEF StagesOK, ClosedFirst, Drained
  <2>4. DueIsThere'
    BY <1>4, <1>5, <1>6, <2>1 DEF StagesOK, Drained
  <2> QED
    BY <1>3, <2>2, <2>3, <2>4
<1>8. CASE ClearRunning
  <2>1. UNCHANGED reader_thread
    BY <1>8 DEF ClearRunning
  <2>2. CASE terminate_first
    <3>1. driver = "terminated" /\ driver' = "joining" /\ is_running' = FALSE /\ due' = due
          /\ pc[main] = "idle"
      BY <1>8, <2>2 DEF ClearRunning
    <3>2. DriverTypeOK'
      BY <1>1, <2>1, <3>1 DEF DriverTypeOK, Stages
    <3>3. StagesOK' /\ ClosedFirst'
      BY <1>1, <2>1, <3>1 DEF StagesOK, ClosedFirst, Drained
    <3>4. DueIsThere'
      BY <1>1, <1>4, <1>5, <2>1, <3>1 DEF Drained
    <3> QED
      BY <1>3, <3>2, <3>3, <3>4
  <2>3. CASE ~terminate_first
    <3>1. driver = "open" /\ driver' = "cleared" /\ is_running' = FALSE /\ due' = waiting
      BY <1>8, <2>3 DEF ClearRunning, waiting
    <3>2. DriverTypeOK'
      BY <1>1, <1>6, <2>1, <3>1 DEF DriverTypeOK, Stages
    <3>3. StagesOK' /\ ClosedFirst'
      BY <1>1, <2>1, <2>3, <3>1 DEF StagesOK, ClosedFirst, Drained
    <3>4. DueIsThere'
      BY <1>1, <1>5, <1>6, <2>1, <3>1 DEF StagesOK, Drained
    <3> QED
      BY <1>3, <3>2, <3>3, <3>4
  <2> QED
    BY <2>2, <2>3
<1>9. CASE Join
  <2>1. driver = "joining" /\ driver' = "absent" /\ reader_thread = "exited" /\ reader_thread' = "none"
        /\ UNCHANGED <<is_running, due>>
    BY <1>9 DEF Join
  <2>2. DriverTypeOK'
    BY <1>1, <2>1 DEF DriverTypeOK, Stages, Loops
  <2>3. StagesOK' /\ ClosedFirst'
    BY <1>1, <2>1 DEF StagesOK, ClosedFirst, Drained
  <2>4. DueIsThere'
    BY <1>4, <1>5, <1>6, <2>1 DEF Drained
  <2> QED
    BY <1>3, <2>2, <2>3, <2>4
<1> QED
  BY <1>7, <1>8, <1>9

\* The destructor terminates the consumer.
LEMMA TerminateConsumerKept ==
  ASSUME DriverInv, TerminateConsumer
  PROVE  DriverTypeOK' /\ OwnCalls' /\ StagesOK' /\ DueIsThere' /\ ClosedFirst'
<1> USE DriverThreads DEF DriverInv
<1>1. /\ UNCHANGED <<returned, queue_, running, consumer_pool>>
      /\ UNCHANGED <<terminate_first, files, is_running, reader_thread>>
  BY DEF TerminateConsumer, Terminate, mailbox
<1>2. /\ UNCHANGED <<silent[reader], flushing[reader]>>
      /\ pc'[reader] = pc[reader] /\ consumer'[reader] = consumer[reader]
      /\ pc'[main] = "close" /\ consumer'[main] = file
  BY DEF TerminateConsumer, Terminate, Call, Goto, StdTypeOK
<1>3. Len(queue_[file]) + InFlight \in Nat /\ InFlight' = InFlight
  BY <1>2 DEF StdTypeOK, InFlight
<1>4. OwnCalls'
  BY <1>2 DEF OwnCalls
<1>5. DriverTypeOK' /\ StagesOK'
  BY <1>1, <1>3 DEF TerminateConsumer, DriverTypeOK, Stages, StagesOK
<1>6. DueIsThere'
  BY <1>1, <1>2, <1>3 DEF TerminateConsumer, DriverTypeOK, StagesOK, DueIsThere, Drained
<1>7. ClosedFirst'
  BY <1>1, <1>2 DEF TerminateConsumer, StagesOK, ClosedFirst, Drained
<1> QED
  BY <1>4, <1>5, <1>6, <1>7

\* A call of main ends.
LEMMA EndOfCallKept ==
  ASSUME DriverInv, Unpause(main) \/ Close(main), UNCHANGED driverVars
  PROVE  DriverTypeOK' /\ OwnCalls' /\ StagesOK' /\ DueIsThere' /\ ClosedFirst'
<1> USE DriverThreads DEF DriverInv
<1>1. /\ UNCHANGED <<returned, queue_, consumer_pool>>
      /\ UNCHANGED <<terminate_first, driver, files, is_running, reader_thread, due>>
      /\ UNCHANGED <<silent[reader], flushing[reader]>>
      /\ consumer'[reader] = consumer[reader]
  BY DEF Unpause, Close, mailbox, EndCall, Call, driverVars, StdTypeOK
<1>2. /\ pc'[main] = "idle"
      /\ pc'[reader] = pc[reader] \/ (pc[reader] = "waiting" /\ pc'[reader] = "dequeue")
  BY DEF Unpause, Close, Goto, NotifyAll, Waiting, StdTypeOK
<1>3. /\ pc[main] = "close" => ~running'[file]
      /\ pc[main] # "close" => UNCHANGED running
  BY DEF Unpause, Close, mailbox, OwnCalls, StdTypeOK
<1>4. OwnCalls'
  BY <1>1, <1>2 DEF OwnCalls
<1>5. DriverTypeOK' /\ StagesOK'
  BY <1>1 DEF DriverTypeOK, StagesOK
<1>6. InFlight' = InFlight /\ Drained' = Drained
  BY <1>1, <1>2 DEF InFlight, Drained
<1>7. DueIsThere'
  BY <1>1, <1>6 DEF DueIsThere
<1>8. ClosedFirst'
  BY <1>1, <1>2, <1>3, <1>6 DEF ClosedFirst, StagesOK, Unpause, Close
<1> QED
  BY <1>4, <1>5, <1>7, <1>8

-----------------------------------------------------------------------------
(* The receiving thread *)

\* A message comes out of the mailbox, or none does.
LEMMA InReceiveKept ==
  ASSUME DriverInv, StdTypeOK', InReceive
  PROVE  DriverInv'
<1> USE DriverThreads DEF DriverInv
<1>1. UNCHANGED <<terminate_first, driver, files, is_running, reader_thread, due>>
  BY DEF InReceive, driverVars
<1>2. UNCHANGED <<consumer_pool, running>>
  BY DEF InReceive, Peek, Dequeue, Wait, Terminated, shared, mailbox
<1>3. consumer[reader] = file /\ silent[reader] = FALSE /\ flushing[reader] = FALSE
  BY DEF InReceive, Peek, Dequeue, Wait, Terminated, OwnCalls, StdTypeOK
<1>4. \/ queue_'[file] = queue_[file] /\ returned' = returned
           /\ pc[reader] \in {"peek", "dequeue"} /\ pc'[reader] \in {"dequeue", "waiting"}
           /\ UNCHANGED args
      \/ queue_'[file] = queue_[file] /\ queue_[file] = <<>> /\ pc'[reader] = "idle"
           /\ pc[reader] \in {"peek", "dequeue"} /\ EndCall(reader)
      \/ queue_'[file] = Tail(queue_[file]) /\ queue_[file] # <<>> /\ returned' = returned
           /\ pc[reader] = "dequeue" /\ pc'[reader] = "callback" /\ UNCHANGED args
  <2>1. CASE Peek(reader)
    BY <1>3, <2>1 DEF Peek, Return, Goto, StdTypeOK, shared, mailbox
  <2>2. CASE Dequeue(reader)
    BY <1>3, <2>2 DEF Dequeue, Goto, StdTypeOK
  <2>3. CASE Wait(reader)
    BY <1>3, <2>3 DEF Wait, Goto, StdTypeOK, shared, mailbox
  <2>4. CASE Terminated(reader)
    BY <1>3, <2>4 DEF Terminated, Return, Goto, StdTypeOK, shared, mailbox
  <2> QED
    BY <2>1, <2>2, <2>3, <2>4 DEF InReceive
<1>5. \A u \in Threads \ {reader} : pc'[u] = pc[u] /\ consumer'[u] = consumer[u]
  <2>1. CASE Peek(reader)
    BY <2>1 DEF Peek, Return, EndCall, Call, args, Goto, StdTypeOK
  <2>2. CASE Wait(reader)
    BY <2>2 DEF Wait, args, Goto, StdTypeOK
  <2> QED
    BY <2>1, <2>2, LeavesDequeue, DriverAssumption DEF InReceive
<1>6. Len(queue_[file]) \in Nat /\ (queue_[file] # <<>> => Len(Tail(queue_[file])) = Len(queue_[file]) - 1)
  BY DEF StdTypeOK
<1>7. OwnCalls'
  BY <1>3, <1>4, <1>5 DEF OwnCalls, EndCall, Call, StdTypeOK, args
<1>8. DriverTypeOK' /\ StagesOK'
  BY <1>1, <1>2 DEF DriverTypeOK, StagesOK
<1>9. DueIsThere'
  <2>1. due \in Nat /\ due <= Len(queue_[file]) + InFlight
    BY DEF DueIsThere, DriverTypeOK
  <2>2. CASE queue_'[file] = Tail(queue_[file]) /\ queue_[file] # <<>> /\ pc[reader] = "dequeue"
             /\ pc'[reader] = "callback"
    <3>1. Len(queue_'[file]) + InFlight' = Len(queue_[file]) + InFlight
      BY <1>6, <2>2 DEF InFlight
    <3> QED
      BY <1>1, <2>1, <2>2, <3>1 DEF DueIsThere, Drained
  <2>3. CASE queue_'[file] = queue_[file] /\ pc[reader] \in {"peek", "dequeue"}
             /\ pc'[reader] \in {"dequeue", "waiting"}
    <3>1. InFlight' = InFlight
      BY <2>3 DEF InFlight
    <3> QED
      BY <1>1, <2>1, <2>3, <3>1 DEF DueIsThere, Drained
  <2>4. CASE queue_'[file] = queue_[file] /\ queue_[file] = <<>> /\ pc'[reader] = "idle"
             /\ pc[reader] \in {"peek", "dequeue"}
    <3>1. InFlight' = InFlight /\ InFlight = 0 /\ Len(queue_[file]) = 0
      BY <2>4 DEF InFlight
    <3> QED
      BY <1>1, <2>1, <2>4, <3>1 DEF DueIsThere, Drained
  <2> QED
    BY <1>4, <2>2, <2>3, <2>4
<1>10. ClosedFirst'
  BY <1>1, <1>2, <1>4, <1>5 DEF ClosedFirst, Drained
<1> QED
  BY <1>7, <1>8, <1>9, <1>10

\* The driver has written a message, and its thread asks for the next.
LEMMA WriteKept ==
  ASSUME DriverInv, StdTypeOK', Write
  PROVE  DriverInv'
<1> USE DriverThreads DEF DriverInv
<1>1. UNCHANGED <<terminate_first, driver, files, is_running, reader_thread>>
      /\ due' = IF due > 0 THEN due - 1 ELSE 0
  BY DEF Write
<1>2. UNCHANGED <<consumer_pool, running, queue_>> /\ returned'[reader] = "ok"
  BY DEF Write, CallbackReturns, shared, mailbox
<1>3. PICK code \in {"ok", "callback_error"} : Return(reader, code)
  BY DEF Write, CallbackReturns
<1>4. pc[reader] = "callback" /\ pc'[reader] = "idle" /\ EndCall(reader)
      /\ \A u \in Threads \ {reader} : pc'[u] = pc[u] /\ consumer'[u] = consumer[u]
  BY <1>3 DEF Write, CallbackReturns, Return, Goto, OwnCalls, StdTypeOK, EndCall, Call
<1>5. OwnCalls'
  BY <1>4 DEF OwnCalls, EndCall, Call, StdTypeOK
<1>6. DriverTypeOK' /\ StagesOK'
  BY <1>1, <1>2 DEF DriverTypeOK, StagesOK
<1>7. DueIsThere'
  <2>1. due \in Nat /\ due <= Len(queue_[file]) + 1 /\ Len(queue_[file]) \in Nat
    BY <1>4 DEF DueIsThere, DriverTypeOK, StdTypeOK, InFlight
  <2>2. InFlight' = 0 /\ queue_'[file] = queue_[file]
    BY <1>2, <1>4 DEF InFlight
  <2>3. Drained' \/ reader_thread' = "none" => due = 0
    BY <1>1, <1>2 DEF Drained, DueIsThere
  <2> QED
    BY <1>1, <2>1, <2>2, <2>3 DEF DueIsThere
<1>8. ClosedFirst'
  BY <1>1, <1>2, <1>4 DEF ClosedFirst, Drained
<1> QED
  BY <1>5, <1>6, <1>7, <1>8

\* The thread asks for the next message, in its first loop or in its second.
LEMMA AskKept ==
  ASSUME DriverInv, StdTypeOK', ReceiveNext \/ LeaveLoop \/ DrainNext
  PROVE  DriverInv'
<1> USE DriverThreads DEF DriverInv
<1>1. /\ UNCHANGED <<terminate_first, driver, files, is_running, due, consumer_pool, running, queue_>>
      /\ reader_thread' \in {"loop", "drain"} /\ reader_thread \in {"loop", "drain"}
      /\ ~is_running \/ reader_thread' = reader_thread
  BY DEF ReceiveNext, LeaveLoop, DrainNext, driverVars, Receive, shared, mailbox
<1>2. /\ pc[reader] = "idle" /\ pc'[reader] \in {"peek", "dequeue"} /\ consumer'[reader] = file
      /\ ~silent'[reader] /\ ~flushing'[reader]
      /\ \A u \in Threads \ {reader} : pc'[u] = pc[u] /\ consumer'[u] = consumer[u]
  BY DEF ReceiveNext, LeaveLoop, DrainNext, Receive, Call, Goto, StdTypeOK
<1>3. OwnCalls'
  BY <1>2 DEF OwnCalls
<1>4. DriverTypeOK' /\ StagesOK'
  BY <1>1 DEF DriverTypeOK, Loops, StagesOK
<1>5. DueIsThere'
  <2>1. InFlight' = InFlight
    BY <1>2 DEF InFlight
  <2> QED
    BY <1>1, <1>2, <2>1 DEF DueIsThere, Drained
<1>6. ClosedFirst'
  BY <1>1, <1>2 DEF ClosedFirst, Drained
<1> QED
  BY <1>3, <1>4, <1>5, <1>6

\* The thread has found nothing left, and returns.
LEMMA ExitKept ==
  ASSUME DriverInv, StdTypeOK', ExitThread
  PROVE  DriverInv'
<1>1. OwnCalls'
  BY DEF ExitThread, DriverInv, OwnCalls, vars, args
<1>2. Drained /\ reader_thread = "drain" /\ reader_thread' = "exited"
      /\ UNCHANGED <<terminate_first, driver, files, is_running, due, pc, consumer_pool, queue_, running>>
  BY DEF ExitThread, Drained, vars, shared, mailbox
<1>3. InFlight' = InFlight
  BY <1>2 DEF InFlight
<1>4. DriverTypeOK' /\ StagesOK'
  BY <1>2 DEF DriverInv, DriverTypeOK, Loops, StagesOK
<1>5. DueIsThere'
  BY <1>2, <1>3 DEF DriverInv, DueIsThere
<1>6. ClosedFirst'
  BY <1>2 DEF DriverInv, ClosedFirst
<1> QED
  BY <1>1, <1>4, <1>5, <1>6 DEF DriverInv

-----------------------------------------------------------------------------
(* The senders *)

\* What a sender, or the scheduler, does to the threads of the driver: it may wake
\* the reader.
OthersMove ==
    /\ UNCHANGED <<args, returned, running, consumer_pool>>
    /\ pc'[main] = pc[main]
    /\ pc'[reader] = pc[reader] \/ (pc[reader] = "waiting" /\ pc'[reader] = "dequeue")
    /\ \/ queue_'[file] = queue_[file]
       \/ /\ Len(queue_'[file]) >= Len(queue_[file])
          /\ running[file] /\ consumer_pool # <<>>

\* A send adds a message to a mailbox that is open.
LEMMA SendingMoves ==
  ASSUME DriverInv, NEW s \in Senders, BeginSend(s) \/ Sending(s)
  PROVE  OthersMove
<1> USE DriverThreads DEF DriverInv
<1>0. s # main /\ s # reader /\ s \in Threads
  OBVIOUS
<1>1. CASE BeginSend(s) \/ Skip(s) \/ Select(s) \/ EndSend(s)
  BY <1>0, <1>1 DEF BeginSend, Skip, Select, EndSend, Goto, OthersMove, StdTypeOK, shared, mailbox
<1>2. CASE Enqueue(s)
  <2>1. UNCHANGED <<args, returned, running, consumer_pool>>
    BY <1>2 DEF Enqueue
  <2>2. pc'[main] = pc[main]
        /\ (pc'[reader] = pc[reader] \/ (pc[reader] = "waiting" /\ pc'[reader] = "dequeue"))
    BY <1>0, <1>2 DEF Enqueue, NotifyOne, Waiting, Goto, StdTypeOK, OwnCalls
  <2>3. consumer_pool # <<>>
    BY <1>2 DEF Enqueue, StdTypeOK, CallsOK
  <2>4. CASE running[Target(s)] /\ Target(s) = file
    <3>1. queue_'[file] = Append(queue_[file], message[s])
      BY <1>2, <2>4 DEF Enqueue, StdTypeOK
    <3>2. Len(queue_'[file]) >= Len(queue_[file])
      BY <1>2, <3>1 DEF Enqueue, StdTypeOK, CallsOK
    <3> QED
      BY <2>1, <2>2, <2>3, <2>4, <3>2 DEF OthersMove
  <2>5. CASE ~(running[Target(s)] /\ Target(s) = file)
    BY <1>2, <2>1, <2>2, <2>5 DEF Enqueue, OthersMove, StdTypeOK
  <2> QED
    BY <2>4, <2>5
<1> QED
  BY <1>1, <1>2 DEF Sending

\* Such a step keeps the invariant: a mailbox that is to stay empty is closed, or
\* no send has heard of it.
LEMMA OthersKept ==
  ASSUME DriverInv, StdTypeOK', OthersMove, UNCHANGED driverVars
  PROVE  DriverInv'
<1> USE DriverThreads DEF DriverInv
<1>1. UNCHANGED <<terminate_first, driver, files, is_running, reader_thread, due>>
  BY DEF driverVars
<1>2. OwnCalls'
  BY DEF OthersMove, OwnCalls, args
<1>3. DriverTypeOK' /\ StagesOK'
  BY <1>1 DEF OthersMove, DriverTypeOK, StagesOK
<1>4. InFlight' = InFlight /\ Drained' = Drained /\ InFlight \in Nat
  BY <1>1 DEF OthersMove, InFlight, Drained
<1>5. Len(queue_'[file]) >= Len(queue_[file]) /\ Len(queue_'[file]) \in Nat /\ Len(queue_[file]) \in Nat
  BY DEF OthersMove, StdTypeOK
<1>6. DueIsThere'
  BY <1>1, <1>4, <1>5 DEF DueIsThere, DriverTypeOK
<1>7. ClosedFirst'
  <2>1. CASE queue_'[file] = queue_[file]
    BY <1>1, <1>4, <2>1 DEF OthersMove, ClosedFirst
  <2>2. CASE running[file] /\ consumer_pool # <<>>
    <3>1. Drained => driver \in {"cleared", "joining"}
      BY DEF Drained, StagesOK, DriverTypeOK, Stages
    <3>2. terminate_first => ~Drained /\ driver # "absent"
      BY <2>2, <3>1 DEF ClosedFirst, StagesOK, DriverTypeOK
    <3> QED
      BY <1>1, <1>4, <3>2 DEF OthersMove, ClosedFirst
  <2> QED
    BY <2>1, <2>2 DEF OthersMove
<1> QED
  BY <1>2, <1>3, <1>6, <1>7

-----------------------------------------------------------------------------
(* The driver *)

LEMMA DriverInvariant == DriverSpec => []DriverInv
<1>1. DriverInit => DriverInv
  <2> SUFFICES ASSUME DriverInit PROVE DriverInv
    OBVIOUS
  <2>1. StdTypeOK
    BY StdAssumption DEF DriverInit, Init, StdTypeOK, CallsOK, Labels, Codes, Threads
  <2>2. DriverTypeOK /\ StagesOK
    BY DEF DriverInit, Init, DriverTypeOK, StagesOK, Stages, Loops
  <2>3. OwnCalls
    BY DriverThreads DEF DriverInit, Init, OwnCalls
  <2>4. DueIsThere /\ ClosedFirst
    BY DriverThreads DEF DriverInit, Init, DueIsThere, ClosedFirst, Drained, InFlight
  <2> QED
    BY <2>1, <2>2, <2>3, <2>4 DEF DriverInv
<1>2. DriverInv /\ [DriverNext]_allVars => DriverInv'
  <2> SUFFICES ASSUME DriverInv, [DriverNext]_allVars PROVE DriverInv'
    OBVIOUS
  <2>0. StdTypeOK'
    BY DriverCalls, StdTypeKept DEF DriverInv
  <2>1. CASE \E s \in Senders : (BeginSend(s) \/ Sending(s)) /\ UNCHANGED driverVars
    <3>1. PICK s \in Senders : (BeginSend(s) \/ Sending(s)) /\ UNCHANGED driverVars
      BY <2>1
    <3> QED
      BY <2>0, <3>1, SendingMoves, OthersKept
  <2>2. CASE Driver
    BY <2>2, <2>0, ConstructKept, QuietStepsKept, TerminateConsumerKept, EndOfCallKept
       DEF Driver, DriverInv
  <2>3. CASE ReaderThread
    BY <2>0, <2>3, InReceiveKept, WriteKept, AskKept, ExitKept DEF ReaderThread
  <2>4. CASE SpuriousWake(reader) /\ UNCHANGED driverVars
    <3>1. OthersMove
      BY <2>4, DriverThreads DEF SpuriousWake, OthersMove, Goto, shared, mailbox, DriverInv, StdTypeOK
    <3> QED
      BY <2>0, <2>4, <3>1, OthersKept
  <2>5. CASE UNCHANGED allVars
    <3>1. UNCHANGED vars /\ UNCHANGED driverVars
      BY <2>5 DEF allVars
    <3>2. OthersMove
      BY <3>1 DEF OthersMove, vars, shared, mailbox
    <3> QED
      BY <2>0, <3>1, <3>2, OthersKept
  <2> QED
    BY <2>1, <2>2, <2>3, <2>4, <2>5 DEF DriverNext
<1> QED
  BY <1>1, <1>2, PTL DEF DriverSpec

\* What waited for a file when its destructor began has been written when the
\* destructor returns: each message is written or still on its way, and the thread
\* stops only when it has found the mailbox empty.
THEOREM DueIsWritten == DriverSpec => []NothingLost
<1>1. DriverInv => NothingLost
  BY DEF DriverInv, StagesOK, DueIsThere, NothingLost
<1> QED
  BY <1>1, DriverInvariant, PTL

\* A driver that terminates its consumer first leaves its mailbox empty, until it is
\* opened for the next file.
THEOREM MailboxLeftEmpty == DriverSpec => []NothingLeftBehind
<1>1. DriverInv => NothingLeftBehind
  BY DEF DriverInv, ClosedFirst, NothingLeftBehind
<1> QED
  BY <1>1, DriverInvariant, PTL

=============================================================================
