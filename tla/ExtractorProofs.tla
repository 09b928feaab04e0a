--------------------------- MODULE ExtractorProofs ---------------------------
(***************************************************************************)
(* Theorems about Extractor, and with it StreamDriver: which calls of the  *)
(* messaging core its threads make, when the driver of its input can       *)
(* crash, and that its output is by then complete.                         *)
(***************************************************************************)
EXTENDS Extractor, MessagingStdProofs

-----------------------------------------------------------------------------
(* The calls of the core *)

\* What the driver of a stream and other senders do, they do in calls of the core.
LEMMA StreamCalls == DriverNext => [Next]_vars
<1> SUFFICES ASSUME DriverNext PROVE [Next]_vars
  OBVIOUS
<1> USE StreamDriverAssumption
<1>1. CASE \E s \in Senders \ {writer} : (BeginSend(s) \/ Sending(s)) /\ UNCHANGED driverVars
  BY <1>1 DEF Next
<1>2. CASE Driver
  <2>1. CASE Construct \/ TerminateConsumer
    <3>1. Control(main, port) \/ UNCHANGED vars
      BY <2>1 DEF Construct, TerminateConsumer, Control
    <3> QED
      BY <3>1 DEF Next
  <2>2. CASE Unpause(main) \/ Close(main)
    BY <2>2 DEF Next
  <2>3. CASE StartThreads \/ ClearStream \/ Join
    BY <2>3 DEF StartThreads, ClearStream, Join
  <2> QED
    BY <1>2, <2>1, <2>2, <2>3 DEF Driver
<1>3. CASE ReaderThread
  <2>1. CASE ReceiveNext
    <3>1. Receive(reader, port, TRUE, FALSE)
      BY <2>1 DEF ReceiveNext
    <3> QED
      BY <3>1 DEF Next
  <2>2. CASE ExitReader
    BY <2>2 DEF ExitReader
  <2>3. CASE InReceive \/ Flush
    <3>1. Receiving(reader)
      BY <2>3 DEF InReceive, Flush, Receiving
    <3> QED
      BY <3>1 DEF Next
  <2> QED
    BY <1>3, <2>1, <2>2, <2>3 DEF ReaderThread
<1>4. CASE WriterThread
  <2>1. BeginSend(writer) \/ Sending(writer) \/ UNCHANGED vars
    BY <1>4 DEF WriterThread, NextPacket, FileGood, Serve, Get, GetGood, Fill, ReadRecord
  <2> QED
    BY <2>1 DEF Next
<1>5. CASE SpuriousWake(reader)
  BY <1>5 DEF Next
<1> QED
  BY <1>1, <1>2, <1>3, <1>4, <1>5 DEF DriverNext

-----------------------------------------------------------------------------
(* When the driver of a stream crashes *)

\* The threads run from the constructor to the destructor, and the stream is there
\* until it begins; a reader that is not in its loop is in no call.
StreamOK ==
    /\ kind \in {"port", "file", "records"}
    /\ driver \in {"absent", "starting", "open", "cleared", "joining"}
    /\ driver \in {"starting", "open"} => stream
    /\ driver \in {"absent", "starting"} => writer_thread = "none" /\ reader_thread = "none"
    /\ reader_thread # "loop" => pc[reader] = "idle"
    /\ CrashesOnlyWhileClosing

\* The senders and main move the reader only when it waits.
LEMMA ReaderLeftAlone ==
  ASSUME StdTypeOK,
         \/ \E s \in Senders : BeginSend(s) \/ Sending(s)
         \/ Construct \/ TerminateConsumer \/ Unpause(main) \/ Close(main)
  PROVE  pc'[reader] = pc[reader] \/ pc[reader] = "waiting"
<1>0. /\ reader \in Threads /\ reader \notin Senders /\ main # reader /\ main \in Threads
      /\ Senders \subseteq Threads
  BY StreamDriverAssumption, StdAssumption DEF Threads
<1>1. ASSUME NEW s \in Senders, BeginSend(s) \/ Sending(s) PROVE pc'[reader] = pc[reader] \/ pc[reader] = "waiting"
  BY <1>0, <1>1 DEF Sending, BeginSend, Skip, Select, Enqueue, EndSend, NotifyOne, Waiting, Goto, StdTypeOK
<1>2. CASE Construct \/ TerminateConsumer
  BY <1>0, <1>2 DEF Construct, TerminateConsumer, Register, Reopen, Terminate, Goto, vars, StdTypeOK
<1>3. CASE Unpause(main) \/ Close(main)
  BY <1>0, <1>3 DEF Unpause, Close, NotifyAll, Waiting, Goto, StdTypeOK
<1> QED
  BY <1>1, <1>2, <1>3

\* A step of the driver's object ...
LEMMA ObjectKept ==
  ASSUME StdTypeOK, StreamOK, ~crashed, Driver
  PROVE  StreamOK'
<1> USE DEF StreamOK, CrashesOnlyWhileClosing
<1>1. CASE Construct
  BY <1>1, ReaderLeftAlone DEF Construct
<1>2. CASE StartThreads \/ ClearStream \/ Join
  BY <1>2 DEF StartThreads, ClearStream, Join, vars
<1>3. CASE TerminateConsumer
  BY <1>3, ReaderLeftAlone DEF TerminateConsumer
<1>4. CASE (Unpause(main) \/ Close(main)) /\ UNCHANGED driverVars
  BY <1>4, ReaderLeftAlone DEF driverVars
<1> QED
  BY <1>1, <1>2, <1>3, <1>4 DEF Driver

\* ... of reader_thread ...
LEMMA ReaderKept ==
  ASSUME StdTypeOK, StreamOK, ~crashed,
         ReaderThread \/ (SpuriousWake(reader) /\ UNCHANGED driverVars)
  PROVE  StreamOK'
<1> USE DEF StreamOK, CrashesOnlyWhileClosing
<1>1. CASE ExitReader
  BY <1>1 DEF ExitReader, vars
<1>2. CASE Flush
  BY <1>2 DEF Flush, CallbackReturns
<1>3. CASE ReceiveNext \/ InReceive \/ (SpuriousWake(reader) /\ UNCHANGED driverVars)
  <2>1. UNCHANGED driverVars
    BY <1>3 DEF ReceiveNext, InReceive
  <2>2. reader_thread = "loop"
    BY <1>3 DEF ReceiveNext, InReceive, Dequeue, Wait, Terminated, SpuriousWake
  <2> QED
    BY <2>1, <2>2 DEF driverVars
<1> QED
  BY <1>1, <1>2, <1>3 DEF ReaderThread

\* ... and of writer_thread.
LEMMA WriterKept ==
  ASSUME StdTypeOK, StreamOK, ~crashed, WriterThread
  PROVE  StreamOK'
<1> USE DEF StreamOK, CrashesOnlyWhileClosing
<1>1. writer_thread # "none" \/ (Sending(writer) /\ UNCHANGED driverVars)
  BY DEF WriterThread, NextPacket, FileGood, Serve, Get, GetGood, Fill, ReadRecord
<1>2. reader_thread # "loop" => pc'[reader] = "idle"
  <2>1. BeginSend(writer) \/ Sending(writer) \/ UNCHANGED vars
    BY DEF WriterThread, NextPacket, FileGood, Serve, Get, GetGood, Fill, ReadRecord
  <2> QED
    BY <2>1, ReaderLeftAlone, StreamDriverAssumption DEF vars
<1>3. CASE Sending(writer) /\ UNCHANGED driverVars
  BY <1>2, <1>3 DEF driverVars
<1>4. CASE writer_thread # "none" /\ ~(Sending(writer) /\ UNCHANGED driverVars)
  <2>1. UNCHANGED <<kind, driver, stream, reader_thread>>
    BY <1>4 DEF WriterThread, NextPacket, FileGood, Serve, Get, GetGood, Fill, ReadRecord
  <2>2. driver \in {"open", "cleared", "joining"}
    BY <1>4
  <2>3. crashed' => ~stream
    BY <1>4 DEF WriterThread, NextPacket, FileGood, Serve, Get, GetGood, Fill, ReadRecord, UseStream
  <2> QED
    BY <1>2, <2>1, <2>2, <2>3
<1> QED
  BY <1>1, <1>3, <1>4

LEMMA StreamKept ==
  ASSUME StdTypeOK, StreamOK, DriverNext
  PROVE  StreamOK'
<1>1. CASE \E s \in Senders \ {writer} : (BeginSend(s) \/ Sending(s)) /\ UNCHANGED driverVars
  BY <1>1, ReaderLeftAlone DEF StreamOK, CrashesOnlyWhileClosing, driverVars
<1> QED
  BY <1>1, ObjectKept, ReaderKept, WriterKept DEF DriverNext

-----------------------------------------------------------------------------
(* The programs *)

\* The driver of the output is one that OutputDriverProofs is about.
Proved == INSTANCE OutputDriverProofs WITH
    reader <- out_reader, file <- out_file, MaxFiles <- 1,
    driver <- out_driver, files <- outputs, reader_thread <- out_thread

LEMMA OutputAssumptions ==
  Proved!StdAssumption /\ Proved!DriverAssumption /\ Proved!BusAssumption
<1>1. Proved!StdAssumption
  BY StdAssumption DEF Threads, Proved!Threads, Proved!IsFiniteSet, IsFiniteSet
<1>2. Proved!DriverAssumption
  BY ExtractorAssumption, StreamDriverAssumption
<1>3. Proved!BusAssumption
  BY BusAssumption DEF Bus!Sends, Proved!Bus!Sends
<1> QED
  BY <1>1, <1>2, <1>3

\* The two instances of OutputDriver are the same, ...
LEMMA SameOutput ==
  /\ Out!DriverInit <=> Proved!DriverInit
  /\ [Out!DriverNext]_Out!allVars <=> [Proved!DriverNext]_Proved!allVars
BY Zenon DEF Out!Threads, Proved!Threads, Out!Registered, Proved!Registered, Out!Waiting,
   Proved!Waiting, Out!Goto, Proved!Goto, Out!Call, Proved!Call, Out!EndCall,
   Proved!EndCall, Out!Return, Proved!Return, Out!args, Proved!args, Out!sends,
   Proved!sends, Out!mailbox, Proved!mailbox, Out!shared, Proved!shared, Out!vars,
   Proved!vars, Out!NotifyOne, Proved!NotifyOne, Out!NotifyAll, Proved!NotifyAll,
   Out!Target, Proved!Target, Out!BeginSend, Proved!BeginSend, Out!Wants, Proved!Wants,
   Out!Skip, Proved!Skip, Out!Select, Proved!Select, Out!Enqueue, Proved!Enqueue,
   Out!EndSend, Proved!EndSend, Out!Receive, Proved!Receive, Out!Peek, Proved!Peek,
   Out!Dequeue, Proved!Dequeue, Out!Wait, Proved!Wait, Out!Terminated,
   Proved!Terminated, Out!SpuriousWake, Proved!SpuriousWake, Out!CallbackReturns,
   Proved!CallbackReturns, Out!Register, Proved!Register, Out!Reopen, Proved!Reopen,
   Out!Unpause, Proved!Unpause, Out!Terminate, Proved!Terminate, Out!Close,
   Proved!Close, Out!Sending, Proved!Sending, Out!InFlight, Proved!InFlight,
   Out!driverVars, Proved!driverVars, Out!allVars, Proved!allVars, Out!Construct,
   Proved!Construct, Out!StartThread, Proved!StartThread, Out!ClearRunning,
   Proved!ClearRunning, Out!TerminateConsumer, Proved!TerminateConsumer, Out!Join,
   Proved!Join, Out!ReceiveNext, Proved!ReceiveNext, Out!LeaveLoop, Proved!LeaveLoop,
   Out!DrainNext, Proved!DrainNext, Out!ExitThread, Proved!ExitThread, Out!Write,
   Proved!Write, Out!InReceive, Proved!InReceive, Out!Driver, Proved!Driver,
   Out!ReaderThread, Proved!ReaderThread, Out!DriverNext, Proved!DriverNext,
   Out!DriverInit, Proved!DriverInit, Out!Init, Proved!Init

\* ... and their core is that of the input.
LEMMA SameCore ==
  /\ Out!Init <=> Init
  /\ [Proved!Next]_Proved!vars <=> [Next]_vars
  /\ \A s : (Out!BeginSend(s) <=> BeginSend(s)) /\ (Out!Sending(s) <=> Sending(s))
  /\ \A t : (Out!Close(t) <=> Close(t)) /\ (Out!SpuriousWake(t) <=> SpuriousWake(t))
<1>1. [Proved!Next]_Proved!vars <=> [Next]_vars
  BY Zenon DEF Threads, Proved!Threads, Registered, Proved!Registered, Waiting, Proved!Waiting,
     Goto, Proved!Goto, Call, Proved!Call, EndCall, Proved!EndCall, Return,
     Proved!Return, args, Proved!args, sends, Proved!sends, mailbox, Proved!mailbox,
     shared, Proved!shared, vars, Proved!vars, NotifyOne, Proved!NotifyOne, NotifyAll,
     Proved!NotifyAll, Target, Proved!Target, BeginSend, Proved!BeginSend, Wants,
     Proved!Wants, Skip, Proved!Skip, Select, Proved!Select, Enqueue, Proved!Enqueue,
     EndSend, Proved!EndSend, Receive, Proved!Receive, Peek, Proved!Peek, Dequeue,
     Proved!Dequeue, Wait, Proved!Wait, Terminated, Proved!Terminated, SpuriousWake,
     Proved!SpuriousWake, CallbackReturns, Proved!CallbackReturns, Register,
     Proved!Register, Reopen, Proved!Reopen, Unpause, Proved!Unpause, Terminate,
     Proved!Terminate, Close, Proved!Close, Sending, Proved!Sending, Next, Proved!Next,
     Control, Proved!Control, Receiving, Proved!Receiving, AllocFails, Proved!AllocFails,
     ReceiveInvalid, Proved!ReceiveInvalid, RegisterFails, Proved!RegisterFails, Pause,
     Proved!Pause, Resume, Proved!Resume
<1>2. /\ Out!Init <=> Init
      /\ \A s : (Out!BeginSend(s) <=> BeginSend(s)) /\ (Out!Sending(s) <=> Sending(s))
      /\ \A t : (Out!Close(t) <=> Close(t)) /\ (Out!SpuriousWake(t) <=> SpuriousWake(t))
  BY Zenon DEF Init, Out!Init, Threads, Out!Threads, Waiting, Out!Waiting, Goto, Out!Goto, Call,
     Out!Call, EndCall, Out!EndCall, args, Out!args, sends, Out!sends, mailbox,
     Out!mailbox, shared, Out!shared, vars, Out!vars, NotifyOne, Out!NotifyOne,
     NotifyAll, Out!NotifyAll, Target, Out!Target, BeginSend, Out!BeginSend, Wants,
     Out!Wants, Skip, Out!Skip, Select, Out!Select, Enqueue, Out!Enqueue, EndSend,
     Out!EndSend, SpuriousWake, Out!SpuriousWake, Close, Out!Close, Sending, Out!Sending
<1> QED
  BY <1>1, <1>2

LEMMA OutputIdle == UNCHANGED <<vars, outVars>> => UNCHANGED Out!allVars
<1>1. UNCHANGED vars => UNCHANGED Out!vars
  BY DEF vars, args, sends, shared, mailbox, Out!vars, Out!args, Out!sends, Out!shared, Out!mailbox
<1>2. UNCHANGED outVars => UNCHANGED Out!driverVars
  BY DEF Out!driverVars, outVars
<1> QED
  BY <1>1, <1>2 DEF Out!allVars

\* A step of the extractor is one of its output, or none of the output's business.
LEMMA ExtractorStep ==
  ASSUME kind # "port", ExtractorNext
  PROVE  [Out!DriverNext]_Out!allVars
<1> USE StreamDriverAssumption
<1>1. UNCHANGED <<vars, outVars>> => UNCHANGED Out!allVars
  BY OutputIdle
<1>2. UNCHANGED outVars <=> UNCHANGED Out!driverVars
  BY DEF Out!driverVars, outVars
<1>3. CASE Main \/ UserTypes
  <2>1. CASE Start \/ NoOutput \/ NoInput \/ Loop \/ Wakes \/ UserTypes \/ Discard \/ Exit
    <3>1. UNCHANGED <<allVars, outVars>>
      BY <2>1 DEF Start, NoOutput, NoInput, Loop, Wakes, UserTypes, Discard, Exit
    <3> QED
      BY <1>1, <3>1 DEF allVars
  <2>2. CASE OpenInput \/ InputOpened
    BY <1>1, <2>2 DEF OpenInput, InputOpened, Construct, StartThreads
  <2>3. CASE OpenOutput \/ OutputOpened
    BY <2>3 DEF OpenOutput, OutputOpened, Out!Driver, Out!DriverNext
  <2>4. CASE DestroyDrivers
    <3>1. CASE Out!ClearRunning \/ Out!TerminateConsumer \/ Out!Join
      BY <3>1 DEF Out!Driver, Out!DriverNext
    <3>2. CASE Close(main) /\ UNCHANGED outVars
      BY <1>2, <3>2, SameCore DEF Out!Driver, Out!DriverNext
    <3>3. CASE (ClearStream \/ Join) /\ UNCHANGED outVars
      BY <1>1, <3>3 DEF ClearStream, Join
    <3> QED
      BY <2>4, <3>1, <3>2, <3>3 DEF DestroyDrivers
  <2> QED
    BY <1>3, <2>1, <2>2, <2>3, <2>4 DEF Main
<1>4. CASE WriterThread /\ UNCHANGED <<mainVars, outVars>>
  <2>1. BeginSend(writer) \/ Sending(writer) \/ UNCHANGED vars
    BY <1>4 DEF WriterThread, NextPacket, FileGood, Serve, Get, GetGood, Fill, ReadRecord
  <2>2. CASE BeginSend(writer) \/ Sending(writer)
    BY <1>2, <1>4, <2>2, SameCore DEF Out!DriverNext
  <2>3. CASE UNCHANGED vars
    BY <1>1, <1>4, <2>3
  <2> QED
    BY <2>1, <2>2, <2>3
<1>5. CASE Out!ReaderThread
  BY <1>5 DEF Out!DriverNext
<1>6. CASE SpuriousWake(out_reader) /\ UNCHANGED <<driverVars, mainVars, outVars>>
  BY <1>2, <1>6, SameCore DEF Out!DriverNext
<1> QED
  BY <1>3, <1>4, <1>5, <1>6 DEF ExtractorNext

\* No step changes the program or the kind of its input.
LEMMA ExtractorKeepsKind ==
  ASSUME ExtractorNext
  PROVE  UNCHANGED <<program, kind>>
<1>1. CASE Main \/ UserTypes
  <2>1. UNCHANGED program
    BY <1>1 DEF Main, UserTypes, Start, NoOutput, OpenOutput, OutputOpened, NoInput, OpenInput,
         InputOpened, Loop, Wakes, Discard, DestroyDrivers, Exit, Goes, mainVars
  <2>2. UNCHANGED driverVars \/ Construct \/ StartThreads \/ ClearStream \/ Join
    BY <1>1 DEF Main, UserTypes, Start, NoOutput, OpenOutput, OutputOpened, NoInput, OpenInput,
         InputOpened, Loop, Wakes, Discard, DestroyDrivers, Exit, allVars
  <2> QED
    BY <2>1, <2>2 DEF driverVars, Construct, StartThreads, ClearStream, Join
<1>2. CASE WriterThread /\ UNCHANGED <<mainVars, outVars>>
  BY <1>2 DEF WriterThread, NextPacket, FileGood, Serve, Get, GetGood, Fill, ReadRecord, mainVars, driverVars
<1>3. CASE UNCHANGED <<driverVars, mainVars>>
  BY <1>3 DEF mainVars, driverVars
<1> QED
  BY <1>1, <1>2, <1>3 DEF ExtractorNext

\* A program uses the messaging core as MessagingStd has it, another host with a
\* stream driver of any kind and the extractor with an input and an output: what
\* MessagingStdProofs shows of every run of the core is true of them.
THEOREM ProgramUsesCore == ProgramSpec => Spec
<1> DEFINE Kinds == program \in {"host", "extractor"} /\ (program = "extractor" => kind # "port")
<1>1. ProgramInit => Init /\ Kinds
  BY DEF ProgramInit, DriverInit
<1>2. Kinds /\ [ProgramNext]_programVars => Kinds' /\ [Next]_vars
  <2> SUFFICES ASSUME Kinds, [ProgramNext]_programVars PROVE Kinds' /\ [Next]_vars
    OBVIOUS
  <2>1. CASE program = "host" /\ DriverNext /\ UNCHANGED <<mainVars, outVars>>
    BY <2>1, StreamCalls DEF mainVars
  <2>2. CASE ExtractorNext
    <3>1. [Next]_vars
      BY <2>2, ExtractorStep, SameOutput, SameCore, OutputAssumptions, Proved!DriverCalls DEF ExtractorNext
    <3>2. UNCHANGED <<program, kind>>
      BY <2>2, ExtractorKeepsKind
    <3> QED
      BY <3>1, <3>2
  <2>3. CASE UNCHANGED programVars
    BY <2>3 DEF programVars, allVars, driverVars, mainVars
  <2> QED
    BY <2>1, <2>2, <2>3 DEF ProgramNext
<1> QED
  BY <1>1, <1>2, PTL DEF ProgramSpec, Spec

\* The output of the extractor is an output as OutputDriver has it, whatever the input
\* does and whenever main opens it.
THEOREM ExtractorHasOutput == ProgramSpec /\ program = "extractor" => Out!DriverSpec
<1> DEFINE Extracts == program = "extractor" /\ kind # "port"
<1>1. ProgramInit /\ program = "extractor" => Out!DriverInit /\ Extracts
  BY DEF ProgramInit
<1>2. Extracts /\ [ProgramNext]_programVars => Extracts' /\ [Out!DriverNext]_Out!allVars
  <2> SUFFICES ASSUME Extracts, [ProgramNext]_programVars
               PROVE  Extracts' /\ [Out!DriverNext]_Out!allVars
    OBVIOUS
  <2>1. CASE ExtractorNext
    BY <2>1, ExtractorStep, ExtractorKeepsKind
  <2>2. CASE UNCHANGED programVars
    <3>1. UNCHANGED <<vars, outVars>> /\ Extracts'
      BY <2>2 DEF programVars, allVars, driverVars, mainVars
    <3> QED
      BY <3>1, OutputIdle
  <2> QED
    BY <2>1, <2>2 DEF ProgramNext
<1> QED
  BY <1>1, <1>2, PTL DEF ProgramSpec, Out!DriverSpec

-----------------------------------------------------------------------------
(* Crashes *)

\* The output leaves the reader of the input where it is, unless it waits.
LEMMA OutputLeavesReader ==
  ASSUME StdTypeOK, Out!DriverNext
  PROVE  pc'[reader] = pc[reader] \/ pc[reader] = "waiting"
<1>0. reader \in Threads /\ reader # main /\ reader # out_reader /\ Out!Threads = Threads
  BY StreamDriverAssumption, ExtractorAssumption, StdAssumption DEF Threads, Out!Threads
<1> USE <1>0 DEF StdTypeOK, Out!Goto, Out!Return
<1>1. CASE \E s \in Senders : (Out!BeginSend(s) \/ Out!Sending(s)) /\ UNCHANGED Out!driverVars
  BY <1>1, SameCore, ReaderLeftAlone
<1>2. CASE Out!Driver
  <2>1. CASE Out!Construct \/ Out!TerminateConsumer
    BY <2>1 DEF Out!Construct, Out!TerminateConsumer, Out!Register, Out!Reopen, Out!Terminate
  <2>2. CASE Out!StartThread \/ Out!ClearRunning \/ Out!Join
    BY <2>2 DEF Out!StartThread, Out!ClearRunning, Out!Join, Out!vars
  <2>3. CASE Out!Unpause(main) \/ Out!Close(main)
    BY <2>3 DEF Out!Unpause, Out!Close, Out!NotifyAll, Out!Waiting
  <2> QED
    BY <1>2, <2>1, <2>2, <2>3 DEF Out!Driver
<1>3. CASE Out!ReaderThread
  <2>1. CASE Out!ReceiveNext \/ Out!LeaveLoop \/ Out!DrainNext
    BY <2>1 DEF Out!ReceiveNext, Out!LeaveLoop, Out!DrainNext, Out!Receive
  <2>2. CASE Out!ExitThread
    BY <2>2 DEF Out!ExitThread, Out!vars
  <2>3. CASE Out!InReceive
    BY <2>3 DEF Out!InReceive, Out!Peek, Out!Dequeue, Out!Wait, Out!Terminated
  <2>4. CASE Out!Write
    BY <2>4 DEF Out!Write, Out!CallbackReturns
  <2> QED
    BY <1>3, <2>1, <2>2, <2>3, <2>4 DEF Out!ReaderThread
<1>4. CASE Out!SpuriousWake(out_reader)
  BY <1>4 DEF Out!SpuriousWake
<1> QED
  BY <1>1, <1>2, <1>3, <1>4 DEF Out!DriverNext

\* A step of the extractor is one of its input, or leaves that driver alone.
LEMMA ExtractorKeepsStream ==
  ASSUME StdTypeOK, StreamOK, ExtractorNext
  PROVE  StreamOK'
<1>1. ASSUME UNCHANGED driverVars, Out!DriverNext \/ UNCHANGED vars PROVE StreamOK'
  <2>1. pc'[reader] = pc[reader] \/ pc[reader] = "waiting"
    BY <1>1, OutputLeavesReader DEF vars
  <2> QED
    BY <1>1, <2>1 DEF StreamOK, CrashesOnlyWhileClosing, driverVars
<1>2. ~crashed
  BY DEF ExtractorNext
<1>3. CASE Main \/ UserTypes
  <2>1. CASE Start \/ NoOutput \/ NoInput \/ Loop \/ Wakes \/ UserTypes \/ Discard \/ Exit
    <3>1. UNCHANGED <<allVars, outVars>>
      BY <2>1 DEF Start, NoOutput, NoInput, Loop, Wakes, UserTypes, Discard, Exit
    <3> QED
      BY <1>1, <3>1 DEF allVars
  <2>2. CASE OpenInput \/ InputOpened
    BY <1>2, <2>2, ObjectKept DEF OpenInput, InputOpened, Driver
  <2>3. CASE OpenOutput \/ OutputOpened
    BY <1>1, <2>3 DEF OpenOutput, OutputOpened, Out!Driver, Out!DriverNext
  <2>4. CASE DestroyDrivers
    BY <1>1, <1>2, <2>4, ObjectKept DEF DestroyDrivers, Driver, Out!Driver, Out!DriverNext
  <2> QED
    BY <1>3, <2>1, <2>2, <2>3, <2>4 DEF Main
<1>4. CASE WriterThread
  BY <1>2, <1>4, WriterKept
<1>5. CASE Out!ReaderThread /\ UNCHANGED <<driverVars, mainVars>>
  BY <1>1, <1>5 DEF Out!DriverNext
<1>6. CASE SpuriousWake(out_reader) /\ UNCHANGED <<driverVars, mainVars, outVars>>
  <2>1. Out!DriverNext
    BY <1>6, SameCore DEF Out!DriverNext, Out!driverVars, outVars
  <2> QED
    BY <1>1, <1>6, <2>1
<1> QED
  BY <1>3, <1>4, <1>5, <1>6 DEF ExtractorNext

\* A stream that is open never crashes anybody: the threads use it from the end of
\* the constructor to their own end, and the pointer is there until the destructor
\* begins.
THEOREM OpenStreamsAreSafe == ProgramSpec => []CrashesOnlyWhileClosing
<1>1. ProgramInit => StreamOK
  BY StreamDriverAssumption DEF ProgramInit, DriverInit, Init, StreamOK, CrashesOnlyWhileClosing, Threads
<1>2. StdTypeOK /\ StreamOK /\ [ProgramNext]_programVars => StreamOK'
  <2> SUFFICES ASSUME StdTypeOK, StreamOK, [ProgramNext]_programVars PROVE StreamOK'
    OBVIOUS
  <2>1. CASE DriverNext
    BY <2>1, StreamKept
  <2>2. CASE ExtractorNext
    BY <2>2, ExtractorKeepsStream
  <2>3. CASE UNCHANGED programVars
    BY <2>3 DEF programVars, allVars, vars, driverVars, StreamOK, CrashesOnlyWhileClosing
  <2> QED
    BY <2>1, <2>2, <2>3 DEF ProgramNext
<1>3. StreamOK => CrashesOnlyWhileClosing
  BY DEF StreamOK
<1> QED
  BY <1>1, <1>2, <1>3, ProgramUsesCore, StdTypeCorrect, PTL DEF ProgramSpec

\* The input of the extractor is closed at its end, after the output.
ClosedInOrder ==
    driver \in {"cleared", "joining"} => at = "exit" /\ out_driver = "absent"

\* A crash at the end of the extractor costs nothing: it comes while the driver of
\* the input is destroyed, and main destroys that of the output before, which returns
\* when all that waited for it is written.
THEOREM CrashesCostNothing == ProgramSpec => []CrashCostsNoOutput
<1> DEFINE Extracts == program = "extractor"
<1>1. ProgramInit => Extracts \/ program = "host"
  BY DEF ProgramInit
<1>2. program = "host" /\ [ProgramNext]_programVars => (program = "host")'
  BY DEF ProgramNext, ExtractorNext, programVars, mainVars
<1>3. program = "host" => CrashCostsNoOutput
  BY DEF CrashCostsNoOutput
<1>4. ProgramInit => ClosedInOrder
  BY DEF ProgramInit, DriverInit, ClosedInOrder
<1>5. Extracts /\ ClosedInOrder /\ [ProgramNext]_programVars => (Extracts /\ ClosedInOrder)'
  <2> SUFFICES ASSUME Extracts, ClosedInOrder, [ProgramNext]_programVars
               PROVE  (Extracts /\ ClosedInOrder)'
    OBVIOUS
  <2>1. CASE ExtractorNext
    <3>1. Extracts'
      BY <2>1, ExtractorKeepsKind
    <3>2. CASE Main \/ UserTypes
      <4>1. CASE UNCHANGED <<allVars, outVars>> /\ at # "exit"
        BY <3>1, <4>1 DEF ClosedInOrder, allVars, driverVars, outVars
      <4>2. CASE Exit
        BY <3>1, <4>2 DEF Exit, ClosedInOrder, allVars, driverVars
      <4>3. CASE OpenInput \/ InputOpened \/ OpenOutput \/ OutputOpened
        BY <3>1, <4>3 DEF OpenInput, InputOpened, OpenOutput, OutputOpened, Goes, ClosedInOrder,
             Construct, StartThreads, driverVars
      <4>4. CASE DestroyDrivers
        <5>1. CASE (Out!ClearRunning \/ Out!TerminateConsumer \/ Out!Join) /\ UNCHANGED driverVars
          BY <3>1, <4>4, <5>1 DEF mainVars, DestroyDrivers, Out!ClearRunning, Out!TerminateConsumer, Out!Join, ClosedInOrder, driverVars
        <5>2. CASE UNCHANGED <<driverVars, outVars>>
          BY <3>1, <4>4, <5>2 DEF DestroyDrivers, ClosedInOrder, driverVars, outVars, mainVars
        <5>3. CASE out_driver = "absent" /\ UNCHANGED outVars
          BY <3>1, <4>4, <5>3 DEF DestroyDrivers, ClosedInOrder, outVars, mainVars
        <5> QED
          BY <4>4, <5>1, <5>2, <5>3 DEF DestroyDrivers
      <4> QED
        BY <3>1, <3>2, <4>1, <4>2, <4>3, <4>4 DEF Main, UserTypes, Start, NoOutput, NoInput, Loop, Wakes, Discard, Goes
    <3>3. CASE WriterThread /\ UNCHANGED <<mainVars, outVars>>
      <4>1. UNCHANGED driver
        BY <3>3 DEF WriterThread, NextPacket, FileGood, Serve, Get, GetGood, Fill, ReadRecord, driverVars
      <4> QED
        BY <3>1, <3>3, <4>1 DEF ClosedInOrder, mainVars, outVars
    <3>4. CASE Out!ReaderThread /\ UNCHANGED <<driverVars, mainVars>>
      <4>1. UNCHANGED out_driver
        BY <3>4 DEF Out!ReaderThread, Out!ReceiveNext, Out!LeaveLoop, Out!DrainNext, Out!ExitThread,
             Out!InReceive, Out!Write, Out!driverVars
      <4> QED
        BY <3>1, <3>4, <4>1 DEF ClosedInOrder, mainVars, driverVars
    <3>5. CASE UNCHANGED <<driverVars, mainVars, outVars>>
      BY <3>1, <3>5 DEF ClosedInOrder, driverVars, mainVars, outVars
    <3> QED
      BY <2>1, <3>2, <3>3, <3>4, <3>5 DEF ExtractorNext
  <2>2. CASE UNCHANGED programVars
    BY <2>2 DEF programVars, allVars, driverVars, mainVars, outVars, ClosedInOrder
  <2> QED
    BY <2>1, <2>2 DEF ProgramNext
<1>6. Out!NothingLost /\ CrashesOnlyWhileClosing /\ ClosedInOrder => CrashCostsNoOutput
  BY DEF Out!NothingLost, CrashesOnlyWhileClosing, ClosedInOrder, CrashCostsNoOutput
<1>7. Out!DriverSpec => []Out!NothingLost
  <2>1. Proved!DriverSpec => []Proved!NothingLost
    BY OutputAssumptions, Proved!DueIsWritten
  <2>2. Proved!NothingLost => Out!NothingLost
    BY DEF Proved!NothingLost, Out!NothingLost
  <2>3. Out!DriverInit => Proved!DriverInit
    BY SameOutput
  <2>4. [Out!DriverNext]_Out!allVars => [Proved!DriverNext]_Proved!allVars
    BY SameOutput
  <2> QED
    BY <2>1, <2>2, <2>3, <2>4, PTL DEF Out!DriverSpec, Proved!DriverSpec
<1> QED
  BY <1>1, <1>2, <1>3, <1>4, <1>5, <1>6, <1>7, ExtractorHasOutput, OpenStreamsAreSafe, PTL
     DEF ProgramSpec

=============================================================================
