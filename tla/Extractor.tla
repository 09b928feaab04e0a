------------------------------ MODULE Extractor ------------------------------
(***************************************************************************)
(* A program on the desktop core.  The extractor (extractor/extractor.cpp) *)
(* copies an input file to an output file through the messaging system: it *)
(* opens both drivers by way of os/std/file_telemetry.cpp, waits until the *)
(* input is at its end or the user quits, and returns from main; then the  *)
(* drivers, which are globals, are destroyed, the last one declared first. *)
(* Any other host opens and closes a stream driver as it likes.            *)
(***************************************************************************)
EXTENDS StreamDriver

CONSTANTS
    out_reader,             \* the reader_thread of the output driver
    out_file,               \* its consumer
    MaxDiscard              \* bound: the argument of --discard

ASSUME ExtractorAssumption ==
    /\ out_reader \in Receivers \ {reader} /\ out_file \in Consumers
    /\ out_file \in Reads[out_reader] /\ out_file \in Controls[main]
    /\ MaxDiscard \in Nat

VARIABLES
    program,                \* "extractor", or "host" for another program
    at,                     \* where main is
    discard,                \* passes of the loop before the output is opened, or -1:
                            \* it is open, or never will be
    terminate_first, out_driver, outputs, is_running, out_thread, due

Out == INSTANCE OutputDriver WITH
    reader <- out_reader, file <- out_file, MaxFiles <- 1,
    driver <- out_driver, files <- outputs, reader_thread <- out_thread

mainVars == <<program, at, discard>>
outVars == <<terminate_first, out_driver, outputs, is_running, out_thread, due>>
programVars == <<allVars, mainVars, outVars>>

ProgramInit ==
    /\ DriverInit
    /\ Out!DriverInit
    /\ program \in {"host", "extractor"}
    /\ discard \in -1..MaxDiscard
    /\ at = "start"
    /\ program = "extractor" => kind \in {"file", "records"}
    /\ program = "host" => discard = 0 /\ ~terminate_first

Goes(from, to) == at = from /\ at' = to /\ UNCHANGED <<program, discard>>

-----------------------------------------------------------------------------
(* file_telemetry.cpp *)

\* No name, or a name of an unknown format or of a file that exists: not connected
NoOutput ==
    /\ Goes("output", "exit")
    /\ UNCHANGED <<allVars, outVars>>

OpenOutput ==
    /\ Goes("output", "opening")
    /\ Out!Construct
    /\ UNCHANGED driverVars

OpenInput ==
    /\ Goes("input", "starting")
    /\ Construct
    /\ UNCHANGED outVars

NoInput ==
    /\ Goes("input", "connected")
    /\ UNCHANGED <<allVars, outVars>>

\* Mutant: the state of the stream is left out
ConnectedWhileOpen == driver = "open"

\* file_telemetry_input_connected, with getConnected of the driver
InputConnected == driver = "open" /\ ~ended

-----------------------------------------------------------------------------
(* main *)

\* Without --discard the output comes before the input, else in the loop
Start ==
    /\ Goes("start", IF discard = 0 THEN "output" ELSE "input")
    /\ UNCHANGED <<allVars, outVars>>

\* discard--
OutputOpened ==
    /\ at = "opening"
    /\ Out!StartThread
    /\ discard' = -1
    /\ at' = IF driver = "absent" THEN "input" ELSE "connected"
    /\ UNCHANGED <<program, driverVars>>

InputOpened ==
    /\ Goes("starting", "connected")
    /\ StartThreads
    /\ UNCHANGED outVars

\* The count of the inputs, and then the condition of the loop: a short file may
\* have come to its end before it is looked at
Loop ==
    /\ Goes("connected", IF InputConnected THEN "wait" ELSE "exit")
    /\ UNCHANGED <<allVars, outVars>>

\* wait_for_input: a second has passed, or the user types and main waits for a word
Wakes ==
    /\ Goes("wait", "tick") \/ Goes("wait", "word")
    /\ UNCHANGED <<allVars, outVars>>

UserTypes ==
    /\ Goes("word", "exit") \/ Goes("word", "tick")
    /\ UNCHANGED <<allVars, outVars>>

Discard ==
    /\ at = "tick"
    /\ discard' = IF discard > 0 THEN discard - 1 ELSE discard
    /\ at' = IF discard = 0 THEN "output" ELSE "connected"
    /\ UNCHANGED <<program, allVars, outVars>>

\* Mutant: the input driver is destroyed first
DestroyInputFirst ==
    /\ at = "exit"
    /\ \/ (ClearStream \/ Join) /\ UNCHANGED outVars
       \/ /\ driver = "absent"
          /\ (Out!ClearRunning \/ Out!TerminateConsumer \/ Out!Join) /\ UNCHANGED driverVars
       \/ Close(main) /\ UNCHANGED <<driverVars, outVars>>
    /\ UNCHANGED mainVars

\* The end of the program: out_driver, then in_driver, which was declared first
DestroyDrivers ==
    /\ at = "exit"
    /\ \/ (Out!ClearRunning \/ Out!TerminateConsumer \/ Out!Join) /\ UNCHANGED driverVars
       \/ Close(main) /\ UNCHANGED <<driverVars, outVars>>
       \/ out_driver = "absent" /\ (ClearStream \/ Join) /\ UNCHANGED outVars
    /\ UNCHANGED mainVars

Exit ==
    /\ out_driver = "absent" /\ driver = "absent"
    /\ Goes("exit", "exited")
    /\ UNCHANGED <<allVars, outVars>>

Main ==
    \/ Start \/ NoOutput \/ OpenOutput \/ OutputOpened \/ NoInput \/ OpenInput \/ InputOpened
    \/ Loop \/ Wakes \/ Discard \/ DestroyDrivers \/ Exit

-----------------------------------------------------------------------------
InputThreads == ReaderThread \/ WriterThread

ExtractorNext ==
    /\ program = "extractor" /\ ~crashed
    /\ \/ Main
       \/ UserTypes
       \/ WriterThread /\ UNCHANGED <<mainVars, outVars>>
       \/ Out!ReaderThread /\ UNCHANGED <<driverVars, mainVars>>
       \/ SpuriousWake(out_reader) /\ UNCHANGED <<driverVars, mainVars, outVars>>

ProgramNext ==
    \/ program = "host" /\ DriverNext /\ UNCHANGED <<mainVars, outVars>>
    \/ ExtractorNext

ProgramSpec == ProgramInit /\ [][ProgramNext]_programVars

\* The host runs a thread that can go on: those of the drivers, main of the
\* extractor but for the words it waits for, and a constructor or destructor.
\* Nothing obliges another program to call one, nor another sender to go on.
ProgramFairness ==
    /\ WF_programVars(~crashed /\ ReaderThread /\ UNCHANGED <<mainVars, outVars>>)
    /\ WF_programVars(~crashed /\ WriterThread /\ UNCHANGED <<mainVars, outVars>>)
    /\ WF_programVars(~crashed /\ Out!ReaderThread /\ UNCHANGED <<driverVars, mainVars>>)
    /\ WF_programVars(/\ program = "host" /\ driver \notin {"absent", "open"}
                      /\ ~crashed /\ Driver /\ UNCHANGED <<mainVars, outVars>>)
    /\ WF_programVars(program = "extractor" /\ ~crashed /\ Main)

FairProgramSpec == ProgramSpec /\ ProgramFairness

-----------------------------------------------------------------------------
\* The driver of the input may crash while it is destroyed (NullPortEndsTheRead).
\* By then the output is closed, with all that waited for it: a crash at the end
\* of the extractor costs nothing.
CrashCostsNoOutput ==
    crashed /\ program = "extractor" => out_driver = "absent" /\ due = 0

\* The extractor ends after its input has, whether the output was opened, is
\* still to be opened or cannot be, unless it waits for the user's next word.
ExtractorEnds ==
    program = "extractor" /\ ended ~> at \in {"exited", "word"} \/ crashed
=============================================================================
