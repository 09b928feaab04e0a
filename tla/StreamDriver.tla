----------------------------- MODULE StreamDriver -----------------------------
(***************************************************************************)
(* The desktop drivers that read a stream, under os/std/impl: a serial     *)
(* port (SerialDriver.cpp, CanSerialDriver.cpp) or a file                  *)
(* (InputFileDriver.cpp, M3InputFileDriver.cpp).  writer_thread reads      *)
(* packets from the stream and sends them; on a port reader_thread also    *)
(* takes packets from the messaging system and writes them.  The           *)
(* destructor makes the pointer to the stream null while the threads run,  *)
(* terminates the consumer and joins them.                                 *)
(*                                                                         *)
(* Nothing orders the destructor's write of the pointer and the threads'   *)
(* reads of it: where the code tests the pointer and then uses it, the     *)
(* build may read it once or twice.                                        *)
(***************************************************************************)
EXTENDS MessagingStd

CONSTANTS
    main, reader, writer,   \* the driver object's thread, reader_thread, writer_thread
    port,                   \* the driver's consumer
    READ_BUFFER_SIZE,       \* bytes of read_buffer, few for TLC
    MaxOpens                \* bound: drivers constructed one after the other

ASSUME StreamDriverAssumption ==
    /\ reader \in Receivers /\ main \in Controllers
    /\ writer \in Senders /\ port \in Consumers
    /\ port \in Reads[reader] /\ port \in Controls[main]
    /\ READ_BUFFER_SIZE \in Nat \ {0} /\ MaxOpens \in Nat

VARIABLES
    kind,                   \* "port", "file", or "records" for an M3InputFileDriver
    driver, opens,          \* where constructor and destructor are, how often
    stream,                 \* is s_port, or s_stream, not null?
    ended,                  \* the file has been read to its end
    read_buffer_index, read_buffer_limit,
    reader_thread, writer_thread,
    crashed                 \* a null pointer was dereferenced

buffer == <<read_buffer_index, read_buffer_limit>>
driverVars == <<kind, driver, opens, stream, ended, buffer, reader_thread, writer_thread,
                crashed>>
allVars == <<vars, driverVars>>

DriverInit ==
    /\ Init
    /\ kind \in {"port", "file", "records"}
    /\ driver = "absent" /\ opens = 0
    /\ stream = FALSE /\ ended = FALSE
    /\ read_buffer_index = 0 /\ read_buffer_limit = 0
    /\ reader_thread = "none" /\ writer_thread = "none"
    /\ crashed = FALSE

-----------------------------------------------------------------------------
\* The constructor, once the port or the file is open.  It resets the index of
\* read_buffer but not its limit: bytes of the last stream come first.  (It does not look at
\* the result of messaging_consumer_init: with a full pool impl stays null.  A pool with
\* room for the driver's consumer is assumed.)
Construct ==
    /\ driver = "absent" /\ opens < MaxOpens
    /\ opens' = opens + 1
    /\ stream' = TRUE /\ ended' = FALSE
    /\ read_buffer_index' = 0
    /\ driver' = "starting"
    /\ IF kind = "port" THEN Register(main, port) \/ Reopen(main, port) ELSE UNCHANGED vars
    /\ UNCHANGED <<kind, read_buffer_limit, reader_thread, writer_thread, crashed>>

StartThreads ==
    /\ driver = "starting" /\ pc[main] = "idle"
    /\ driver' = "open"
    /\ writer_thread' = "loop"
    /\ reader_thread' = IF kind = "port" THEN "loop" ELSE "none"
    /\ UNCHANGED <<vars, kind, buffer, opens, stream, ended, crashed>>

\* The destructor
ClearStream ==
    /\ driver = "open"
    /\ stream' = FALSE
    /\ driver' = IF kind = "port" THEN "cleared" ELSE "joining"
    /\ UNCHANGED <<vars, kind, buffer, opens, ended, reader_thread, writer_thread, crashed>>

TerminateConsumer ==
    /\ driver = "cleared"
    /\ Terminate(main, port)
    /\ driver' = "joining"
    /\ UNCHANGED <<kind, buffer, opens, stream, ended, reader_thread, writer_thread, crashed>>

\* Mutant: writer_thread is not joined
JoinReaderOnly ==
    /\ driver = "joining" /\ pc[main] = "idle"
    /\ reader_thread # "loop"
    /\ driver' = "absent"
    /\ reader_thread' = "none"
    /\ UNCHANGED <<vars, kind, buffer, opens, stream, ended, writer_thread, crashed>>

Join ==
    /\ driver = "joining" /\ pc[main] = "idle"
    /\ reader_thread # "loop" /\ writer_thread = "exited"
    /\ driver' = "absent"
    /\ reader_thread' = "none" /\ writer_thread' = "none"
    /\ UNCHANGED <<vars, kind, buffer, opens, stream, ended, crashed>>

-----------------------------------------------------------------------------
(* reader_thread *)

ReceiveNext ==
    /\ reader_thread = "loop" /\ stream
    /\ Receive(reader, port, TRUE, FALSE)
    /\ UNCHANGED driverVars

ExitReader ==
    /\ reader_thread = "loop" /\ ~stream /\ pc[reader] = "idle"
    /\ reader_thread' = "exited"
    /\ UNCHANGED <<vars, kind, buffer, driver, opens, stream, ended, writer_thread, crashed>>

InReceive ==
    /\ Dequeue(reader) \/ Wait(reader) \/ Terminated(reader)
    /\ UNCHANGED driverVars

\* receive_packet ends in stream_flush, which writes to the port untested
Flush ==
    /\ CallbackReturns(reader)
    /\ crashed' = ~stream
    /\ UNCHANGED <<kind, buffer, driver, opens, stream, ended, reader_thread, writer_thread>>

-----------------------------------------------------------------------------
(* writer_thread: serial_interface_next_packet, as stream_get sees it, or     *)
(* the records of an M3InputFileDriver                                        *)

\* The pointer was tested before: it is read again, or not
UseStream == crashed' \in {FALSE, ~stream}

\* The condition of the loop: the pointer ...
NextPacket ==
    /\ writer_thread = "loop" /\ pc[writer] = "idle"
    /\ writer_thread' = CASE ~stream -> "exited"
                          [] stream /\ kind = "port" -> "get"
                          [] OTHER -> "good"
    /\ UNCHANGED <<vars, kind, buffer, driver, opens, stream, ended, reader_thread, crashed>>

\* ... and the state of the file
FileGood ==
    /\ writer_thread = "good"
    /\ UseStream
    /\ writer_thread' = CASE ended -> "exited"
                          [] ~ended /\ kind = "file" -> "get"
                          [] OTHER -> "read"
    /\ UNCHANGED <<vars, kind, buffer, driver, opens, stream, ended, reader_thread>>

\* stream_get hands out a byte of read_buffer, which leaves a packet incomplete,
\* completes a damaged one, or a packet that writer_thread sends
Serve ==
    /\ writer_thread = "get"
    /\ read_buffer_index < read_buffer_limit
    /\ read_buffer_index' = read_buffer_index + 1
    /\ \/ writer_thread' \in {"get", "loop"} /\ UNCHANGED vars
       \/ writer_thread' = "loop" /\ BeginSend(writer)
    /\ UNCHANGED <<kind, driver, opens, stream, ended, read_buffer_limit, reader_thread,
                   crashed>>

BufferEmpty == read_buffer_index >= read_buffer_limit

\* Mutant: a null pointer does not end the read
GetIgnoresNull ==
    /\ writer_thread = "get" /\ BufferEmpty
    /\ writer_thread' = CASE ~stream -> "get"
                          [] stream /\ kind = "port" -> "read"
                          [] OTHER -> "get_good"
    /\ UNCHANGED <<vars, kind, buffer, driver, opens, stream, ended, reader_thread, crashed>>

\* When the buffer is empty it tests the pointer; without a stream it returns
\* the delimiter, at which next_packet gives up, wherever it is
Get ==
    /\ writer_thread = "get" /\ BufferEmpty
    /\ writer_thread' = CASE ~stream -> "loop"
                          [] stream /\ kind = "port" -> "read"
                          [] OTHER -> "get_good"
    /\ UNCHANGED <<vars, kind, buffer, driver, opens, stream, ended, reader_thread, crashed>>

\* Mutant: the end of the file does not end the read
GetGoodIgnoresEnd ==
    /\ writer_thread = "get_good"
    /\ UseStream
    /\ writer_thread' = "read"
    /\ UNCHANGED <<vars, kind, buffer, driver, opens, stream, ended, reader_thread>>

\* ... so it does at the end of a file
GetGood ==
    /\ writer_thread = "get_good"
    /\ UseStream
    /\ writer_thread' = IF ended THEN "loop" ELSE "read"
    /\ UNCHANGED <<vars, kind, buffer, driver, opens, stream, ended, reader_thread>>

\* ... and then fills the buffer: from a port with what came within the timeout,
\* from a file with all there is room for, less only at its end
Fill ==
    /\ writer_thread = "read" /\ kind # "records"
    /\ UseStream
    /\ \E n \in 0..READ_BUFFER_SIZE :
         /\ read_buffer_limit' = n
         /\ ended' = (kind = "file" /\ n < READ_BUFFER_SIZE)
    /\ read_buffer_index' = 0
    /\ writer_thread' = "get"
    /\ UNCHANGED <<vars, kind, driver, opens, stream, reader_thread>>

\* A record is handed on as it is, one the end of the file cut short too; it
\* completes a packet or not
ReadRecord ==
    /\ writer_thread = "read" /\ kind = "records"
    /\ UseStream
    /\ ended' \in BOOLEAN
    /\ writer_thread' = "loop"
    /\ UNCHANGED vars \/ BeginSend(writer)
    /\ UNCHANGED <<kind, buffer, driver, opens, stream, reader_thread>>

-----------------------------------------------------------------------------
Driver ==
    \/ Construct \/ StartThreads \/ ClearStream \/ TerminateConsumer \/ Join
    \/ (Unpause(main) \/ Close(main)) /\ UNCHANGED driverVars

ReaderThread == ReceiveNext \/ ExitReader \/ InReceive \/ Flush

WriterThread ==
    \/ NextPacket \/ FileGood \/ Serve \/ Get \/ GetGood \/ Fill \/ ReadRecord
    \/ Sending(writer) /\ UNCHANGED driverVars

\* Once a null pointer was dereferenced the program is gone
DriverNext ==
    /\ ~crashed
    /\ \/ \E s \in Senders \ {writer} : (BeginSend(s) \/ Sending(s)) /\ UNCHANGED driverVars
       \/ Driver
       \/ ReaderThread
       \/ WriterThread
       \/ SpuriousWake(reader) /\ UNCHANGED driverVars

DriverSpec == DriverInit /\ [][DriverNext]_allVars

-----------------------------------------------------------------------------
\* A destructor returns unless the program crashes: neither the thread that
\* sleeps on the mailbox nor the one in the middle of a packet goes on for ever.
DestructorReturns == driver \in {"cleared", "joining"} ~> driver = "absent" \/ crashed

\* At the end of a file its thread stops by itself, in the middle of a packet too.
ThreadStopsAtEnd == ended ~> writer_thread \in {"exited", "none"} \/ crashed

\* The stream that a thread found in place is gone when it is used only while
\* the destructor runs; a stream that is open never crashes anybody, and no
\* thread outlives its driver.
CrashesOnlyWhileClosing == crashed => driver \in {"cleared", "joining"}

\* A comment of stream_get says that a null s_port is there to "trigger
\* termination of the read".
NullPortEndsTheRead == kind = "port" => ~crashed
=============================================================================
