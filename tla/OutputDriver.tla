---------------------------- MODULE OutputDriver ----------------------------
(***************************************************************************)
(* The desktop drivers that write packets to a file, OutputFileDriver.cpp, *)
(* M3OutputFileDriver.cpp and CSVOutputFileDriver.cpp under os/std/impl:   *)
(* one thread receives packets and writes them, the constructor starts it, *)
(* the destructor stops it.  They differ in the order of the destructor's  *)
(* first two steps.                                                        *)
(***************************************************************************)
EXTENDS MessagingStd

CONSTANTS
    main, reader,       \* the thread of the driver object, and reader_thread
    file,               \* its consumer
    MaxFiles            \* bound: drivers constructed one after the other

ASSUME DriverAssumption ==
    /\ reader \in Receivers /\ main \in Controllers /\ file \in Consumers
    /\ file \in Reads[reader] /\ file \in Controls[main]
    /\ MaxFiles \in Nat

VARIABLES
    terminate_first,    \* is it the M3OutputFileDriver?  Each has a consumer of its
                        \* own, so they do not meet
    driver,             \* where constructor and destructor are
    files,              \* drivers constructed so far
    is_running,
    reader_thread,      \* where the receiving thread is
    due                 \* for the properties: messages that waited for the file
                        \* when its destructor began, and are not written yet

driverVars == <<terminate_first, driver, files, is_running, reader_thread, due>>
allVars == <<vars, driverVars>>

DriverInit ==
    /\ Init
    /\ terminate_first \in BOOLEAN
    /\ driver = "absent" /\ files = 0
    /\ is_running = FALSE
    /\ reader_thread = "none"
    /\ due = 0

-----------------------------------------------------------------------------
\* The constructor opens the file and initialises its consumer ...  (It does not look at
\* the result: with a full pool impl stays null.  A pool with room for the driver's
\* consumer is assumed.)
Construct ==
    /\ driver = "absent" /\ files < MaxFiles
    /\ files' = files + 1
    /\ is_running' = TRUE
    /\ driver' = "starting"
    /\ Register(main, file) \/ Reopen(main, file)
    /\ UNCHANGED <<terminate_first, reader_thread, due>>

\* ... and starts the thread
StartThread ==
    /\ driver = "starting" /\ pc[main] = "idle"
    /\ driver' = "open"
    /\ reader_thread' = "loop"
    /\ UNCHANGED <<vars, terminate_first, files, is_running, due>>

\* A message on its way out of the mailbox
InFlight == IF pc[reader] = "callback" THEN 1 ELSE 0

\* The destructor clears is_running ...
ClearRunning ==
    /\ driver = IF terminate_first THEN "terminated" ELSE "open"
    /\ pc[main] = "idle"
    /\ is_running' = FALSE
    /\ driver' = IF terminate_first THEN "joining" ELSE "cleared"
    /\ due' = IF terminate_first THEN due ELSE Len(queue_[file]) + InFlight
    /\ UNCHANGED <<vars, terminate_first, files, reader_thread>>

\* ... and terminates the consumer, in one order or the other ...
TerminateConsumer ==
    /\ driver = IF terminate_first THEN "open" ELSE "cleared"
    /\ Terminate(main, file)
    /\ driver' = IF terminate_first THEN "terminated" ELSE "joining"
    /\ due' = IF terminate_first THEN Len(queue_[file]) + InFlight ELSE due
    /\ UNCHANGED <<terminate_first, files, is_running, reader_thread>>

\* ... and joins the thread
Join ==
    /\ driver = "joining" /\ pc[main] = "idle"
    /\ reader_thread = "exited"
    /\ driver' = "absent"
    /\ reader_thread' = "none"
    /\ UNCHANGED <<vars, terminate_first, files, is_running, due>>

-----------------------------------------------------------------------------
\* reader_thread, its first loop: blocking receives while is_running
ReceiveNext ==
    /\ reader_thread = "loop" /\ is_running
    /\ Receive(reader, file, TRUE, FALSE)
    /\ UNCHANGED driverVars

\* Mutant: the thread does not empty the mailbox when it stops
LeaveLoopAtOnce ==
    /\ reader_thread = "loop" /\ ~is_running /\ pc[reader] = "idle"
    /\ reader_thread' = "exited"
    /\ UNCHANGED <<vars, terminate_first, driver, files, is_running, due>>

LeaveLoop ==
    /\ reader_thread = "loop" /\ ~is_running
    /\ Receive(reader, file, FALSE, FALSE)
    /\ reader_thread' = "drain"
    /\ UNCHANGED <<terminate_first, driver, files, is_running, due>>

\* Its second loop: what is left, until a receive is not messaging_receive_ok
DrainNext ==
    /\ reader_thread = "drain" /\ returned[reader] = "ok"
    /\ Receive(reader, file, FALSE, FALSE)
    /\ UNCHANGED driverVars

ExitThread ==
    /\ reader_thread = "drain" /\ pc[reader] = "idle" /\ returned[reader] # "ok"
    /\ reader_thread' = "exited"
    /\ UNCHANGED <<vars, terminate_first, driver, files, is_running, due>>

\* receive_packet writes the packet, and always returns true
Write ==
    /\ CallbackReturns(reader)
    /\ returned'[reader] = "ok"
    /\ due' = IF due > 0 THEN due - 1 ELSE 0
    /\ UNCHANGED <<terminate_first, driver, files, is_running, reader_thread>>

InReceive ==
    /\ Peek(reader) \/ Dequeue(reader) \/ Wait(reader) \/ Terminated(reader)
    /\ UNCHANGED driverVars

-----------------------------------------------------------------------------
Driver ==
    \/ Construct \/ StartThread \/ ClearRunning \/ TerminateConsumer \/ Join
    \/ (Unpause(main) \/ Close(main)) /\ UNCHANGED driverVars

ReaderThread == ReceiveNext \/ LeaveLoop \/ DrainNext \/ ExitThread \/ InReceive \/ Write

DriverNext ==
    \/ \E s \in Senders : (BeginSend(s) \/ Sending(s)) /\ UNCHANGED driverVars
    \/ Driver
    \/ ReaderThread
    \/ SpuriousWake(reader) /\ UNCHANGED driverVars

DriverSpec == DriverInit /\ [][DriverNext]_allVars

\* The host runs a thread that can go on.  A constructor or destructor goes on
\* too, but nothing obliges the program to call one; senders may stop at any time.
DriverFairness ==
    /\ WF_allVars(ReaderThread)
    /\ WF_allVars(driver \notin {"absent", "open"} /\ Driver)

FairDriverSpec == DriverSpec /\ DriverFairness

-----------------------------------------------------------------------------
\* What waited for the file when its destructor began has been written when
\* the destructor returns.
NothingLost == driver = "absent" => due = 0

\* When the destructor has returned the mailbox is empty and stays so until the
\* next file is opened: nothing that was enqueued for one file is left for another.  (A
\* send that has already tested is_paused may still enqueue after the next file was opened.)
\* This is about M3OutputFileDriver, which terminates its consumer before it clears
\* is_running.
NothingLeftBehind == terminate_first /\ driver = "absent" => queue_[file] = <<>>

\* A destructor returns, whether the reader is asleep, in a callback or draining,
\* and however many senders go on sending.
DestructorReturns == driver \in {"cleared", "terminated"} ~> driver = "absent"
=============================================================================
