------------------------------- MODULE CanLog -------------------------------
(***************************************************************************)
(* CAN frames on a card instead of a bus.  On the board                    *)
(* os/chibios/impl/m3teloutput.c gives can_interface_send a can_send that  *)
(* collects frames in packet_buffer and writes them to a numbered file;    *)
(* when a write fails it closes the file, brings the card up again and     *)
(* writes the same buffer to the next file (impl/microsd.c).  On a desktop *)
(* os/std/impl/M3InputFileDriver.cpp reads one of the files and hands its  *)
(* records to can_interface_receive.                                       *)
(*                                                                         *)
(* The medium is chosen in the initial state; on the "bus" this module is  *)
(* CanInterface.  Card and file system are external: a connection, an      *)
(* f_open, an f_write or an f_sync may fail, the card may be full, and the *)
(* power may go.  Sectors hold whole records (16 bytes), so no record is   *)
(* cut in two.                                                             *)
(***************************************************************************)
EXTENDS CanInterface

CONSTANTS
    BUFFER_SIZE,            \* frames in packet_buffer
    message_metadata_mask,  \* of the log's consumer
    MaxLogged,              \* bound: packets the log is given
    MaxFaults,              \* bound: calls of the file system that fail
    MaxRestarts             \* bound: restarts after a loss of power

message_flags_send_over_can == 1

ASSUME LogAssumption ==
    /\ BUFFER_SIZE \in Nat \ {0} /\ message_metadata_mask \in {0, 1}
    /\ MaxLogged \in Nat /\ MaxFaults \in Nat /\ MaxRestarts \in Nat

VARIABLES
    medium,             \* "bus" or "log"
    at,                 \* where m3tel_output_thread is; "off" without power
    retrying,           \* is it in the loop of flush_buffer?
    packet_buffer,      \* the frames waiting to be written
    file_idx,           \* the number it is trying, or has open
    files,              \* the card: file k is files[k], a sequence of frames
    unsynced,           \* frames at the end of the open file that f_sync has not
                        \* made safe
    full,               \* the card has no room left
    sd_card, file_output,   \* the states of the two components
    faults, restarts,
    playing, record,    \* the file a desktop reads, and how far it is
    owed, cut           \* for the properties: frames the log must still have;
                        \* some were cut off a full card since the power came

card == <<file_idx, files, unsynced, full>>
states == <<sd_card, file_output>>
replay == <<playing, record>>
ghosts == <<owed, cut>>
logVars == <<medium, at, retrying, packet_buffer, card, states, faults, restarts, replay, ghosts>>
allVars == <<vars, logVars>>

LogInit ==
    /\ Init
    /\ medium \in {"bus", "log"}
    /\ at = IF medium = "log" THEN "try_init" ELSE "off"
    /\ retrying = FALSE
    /\ packet_buffer = <<>>
    /\ file_idx = 0 /\ files = <<>> /\ unsynced = 0 /\ full = FALSE
    /\ sd_card = "none" /\ file_output = "initializing"
    /\ faults = 0 /\ restarts = 0
    /\ playing = None /\ record = 0
    /\ owed = {} /\ cut = FALSE

Fault == faults < MaxFaults /\ faults' = faults + 1

-----------------------------------------------------------------------------
(* Opening a file: microsd_open_file_inc *)

TryInit ==
    /\ at = "try_init"
    /\ sd_card' = "initializing"
    /\ at' = "connect"
    /\ UNCHANGED <<vars, medium, retrying, packet_buffer, card, file_output, faults, restarts,
                   replay, ghosts>>

\* microsd_card_init fails; microsd_card_try_init sleeps and tries again
ConnectFails ==
    /\ at = "connect"
    /\ Fault
    /\ sd_card' = "error"
    /\ UNCHANGED <<vars, medium, at, retrying, packet_buffer, card, file_output, restarts,
                   replay, ghosts>>

Connect ==
    /\ at = "connect"
    /\ sd_card' = "ok"
    /\ file_idx' = 1
    /\ at' = "create"
    /\ UNCHANGED <<vars, medium, retrying, packet_buffer, files, unsynced, full, file_output,
                   faults, restarts, replay, ghosts>>

\* Mutant: the same number again
ExistsAgain ==
    /\ at = "create" /\ file_idx \in DOMAIN files
    /\ UNCHANGED allVars

\* FR_EXIST: the next number
Exists ==
    /\ at = "create" /\ file_idx \in DOMAIN files
    /\ file_idx' = file_idx + 1
    /\ UNCHANGED <<vars, medium, at, retrying, packet_buffer, files, unsynced, full, states,
                   faults, restarts, replay, ghosts>>

\* The file is new (FA_CREATE_NEW): the thread starts its consumer, or writes
\* the buffer that could not be written before
Create ==
    /\ at = "create" /\ file_idx \notin DOMAIN files
    /\ files' = Append(files, <<>>)
    /\ file_output' = "ok"
    /\ at' = IF retrying THEN "write" ELSE "ready"
    /\ UNCHANGED <<vars, medium, retrying, packet_buffer, file_idx, unsynced, full, sd_card,
                   faults, restarts, replay, ghosts>>

\* Any other result: both components are in error, the thread tries again
CreateFails ==
    /\ at = "create"
    /\ Fault
    /\ sd_card' = "error" /\ file_output' = "error"
    /\ at' = IF retrying THEN "close" ELSE "try_init"
    /\ UNCHANGED <<vars, medium, retrying, packet_buffer, card, restarts, replay, ghosts>>

-----------------------------------------------------------------------------
(* Collecting frames: receive_packet and can_send *)

\* (mask & flags) == metadata of messaging.c, for packets with the flag
\* send_over_can.  The log's declaration has a mask of 0: as it stands nothing
\* is heard and the file stays empty
Heard == message_metadata_mask = message_flags_send_over_can

LogPacket(p) ==
    /\ medium = "log" /\ at = "ready"
    /\ Heard
    /\ Cardinality(Sent) < MaxLogged
    /\ StartSend(p)
    /\ UNCHANGED logVars

\* can_send appends the frame, and has flush_buffer write a full buffer
AppendFrame ==
    /\ medium = "log" /\ at = "ready"
    /\ out # None
    /\ packet_buffer' = Append(packet_buffer, NextFrame)
    /\ owed' = owed \cup {NextFrame}
    /\ at' = IF Len(packet_buffer') >= BUFFER_SIZE THEN "write" ELSE "ready"
    /\ Advance
    /\ UNCHANGED <<sent, tx, receiver, lossy, overlapped, medium, retrying, card, states, faults,
                   restarts, replay, cut>>

-----------------------------------------------------------------------------
(* Writing them: flush_buffer and microsd_write *)

InSeq(s) == {s[k] : k \in DOMAIN s}

\* The file system took the first n frames of the buffer
Written(n) == files' = [files EXCEPT ![file_idx] = @ \o SubSeq(packet_buffer, 1, n)]

\* The loop of flush_buffer ends.  A write that succeeded in the loop leaves the
\* component in error all the same
Flushed ==
    /\ packet_buffer' = <<>>
    /\ at' = "ready"
    /\ retrying' = FALSE
    /\ file_output' = IF retrying THEN "error" ELSE file_output

\* f_write succeeds; nobody looks at the result of f_sync
Write ==
    /\ at = "write" /\ ~full
    /\ Written(Len(packet_buffer))
    /\ \/ unsynced' = 0 /\ UNCHANGED faults
       \/ unsynced' = unsynced + Len(packet_buffer) /\ Fault
    /\ Flushed
    /\ UNCHANGED <<vars, medium, file_idx, full, sd_card, restarts, replay, ghosts>>

\* Mutant: a short write is a success like any other
WriteShortUnseen ==
    /\ at = "write"
    /\ \E n \in 0..Len(packet_buffer) - 1 :
         /\ full => n = 0
         /\ Written(n)
         /\ owed' = owed \ InSeq(SubSeq(packet_buffer, n + 1, Len(packet_buffer)))
    /\ IF full THEN UNCHANGED faults ELSE Fault
    /\ full' = TRUE /\ cut' = TRUE
    /\ unsynced' = 0
    /\ Flushed
    /\ UNCHANGED <<vars, medium, file_idx, sd_card, restarts, replay>>

\* The card is full: FR_OK with fewer bytes than asked for.  The rest of the
\* buffer is gone, the card's component in error
WriteShort ==
    /\ at = "write"
    /\ \E n \in 0..Len(packet_buffer) - 1 :
         /\ full => n = 0
         /\ Written(n)
         /\ owed' = owed \ InSeq(SubSeq(packet_buffer, n + 1, Len(packet_buffer)))
    /\ IF full THEN UNCHANGED faults ELSE Fault
    /\ full' = TRUE /\ cut' = TRUE
    /\ unsynced' = 0
    /\ sd_card' = "error"
    /\ Flushed
    /\ UNCHANGED <<vars, medium, file_idx, restarts, replay>>

\* Mutant: the buffer is written again to the same file
WriteFailsStays ==
    /\ at = "write" /\ Fault
    /\ \E n \in 0..(IF full THEN 0 ELSE Len(packet_buffer)) :
         Written(n) /\ unsynced' = unsynced + n
    /\ sd_card' = "error"
    /\ file_output' = IF retrying THEN "error" ELSE file_output
    /\ retrying' = TRUE
    /\ UNCHANGED <<vars, medium, at, packet_buffer, file_idx, full, restarts, replay, ghosts>>

\* f_write fails, with any part of the buffer on the card
WriteFails ==
    /\ at = "write" /\ Fault
    /\ \E n \in 0..(IF full THEN 0 ELSE Len(packet_buffer)) :
         Written(n) /\ unsynced' = unsynced + n
    /\ sd_card' = "error"
    /\ file_output' = IF retrying THEN "error" ELSE file_output
    /\ retrying' = TRUE
    /\ at' = "close"
    /\ UNCHANGED <<vars, medium, packet_buffer, file_idx, full, restarts, replay, ghosts>>

\* The last n frames of the open file were never made safe and are gone
Forget(n) ==
    LET kept == Len(files[file_idx]) - n
    IN IF n = 0 THEN UNCHANGED <<files, owed>>
       ELSE /\ files' = [files EXCEPT ![file_idx] = SubSeq(@, 1, kept)]
            /\ owed' = owed \ (InSeq(SubSeq(files[file_idx], kept + 1, kept + n))
                                 \ InSeq(packet_buffer))

\* Mutant: the buffer is given up when its write has failed
CloseDrops ==
    /\ at = "close"
    /\ \E n \in {0, unsynced} : Forget(n)
    /\ unsynced' = 0
    /\ packet_buffer' = <<>>
    /\ at' = "try_init"
    /\ UNCHANGED <<vars, medium, retrying, file_idx, full, states, faults, restarts,
                   replay, cut>>

\* microsd_close_file: f_close may make the rest of the file safe, or fail
Close ==
    /\ at = "close"
    /\ \E n \in {0, unsynced} : Forget(n)
    /\ unsynced' = 0
    /\ at' = "try_init"
    /\ UNCHANGED <<vars, medium, retrying, packet_buffer, file_idx, full, states, faults,
                   restarts, replay, cut>>

\* Power goes with what is in memory and not safe on the card; it comes back or not
PowerLoss ==
    /\ medium = "log" /\ at # "off"
    /\ \/ at' = "off" /\ UNCHANGED restarts
       \/ at' = "try_init" /\ restarts < MaxRestarts /\ restarts' = restarts + 1
    /\ packet_buffer' = <<>> /\ retrying' = FALSE /\ cut' = FALSE
    /\ files' = IF unsynced = 0 THEN files
                ELSE [files EXCEPT ![file_idx] = SubSeq(@, 1, Len(@) - unsynced)]
    /\ owed' = owed \ (InSeq(packet_buffer) \cup
                        (IF unsynced = 0 THEN {} ELSE InSeq(SubSeq(files[file_idx],
                            Len(files[file_idx]) - unsynced + 1, Len(files[file_idx])))))
    /\ unsynced' = 0 /\ file_idx' = 0
    /\ sd_card' = "none" /\ file_output' = "initializing"
    /\ out' = None /\ component_state' = InitialState
    /\ UNCHANGED <<sent, tx, receiver, lossy, overlapped, medium, full, faults, replay>>

-----------------------------------------------------------------------------
(* Reading a file: writer_thread of M3InputFileDriver.cpp *)

StartReplay ==
    /\ medium = "log" /\ at = "off" /\ playing = None
    /\ playing' \in DOMAIN files
    /\ record' = 1
    /\ UNCHANGED <<vars, medium, at, retrying, packet_buffer, card, states, faults, restarts,
                   ghosts>>

Reading == playing # None

ReadRecord ==
    /\ Reading /\ record <= Len(files[playing])
    /\ can_interface_receive(files[playing][record])
    /\ record' = record + 1
    /\ UNCHANGED <<sender, tx, lossy, overlapped, medium, at, retrying, packet_buffer, card,
                   states, faults, restarts, playing, ghosts>>

\* What an uninitialised DLPacket may hold: an identifier and a length, of no packet
Uninitialised ==
    {[sid |-> s.sid, id |-> None, n |-> 0, part |-> Seqno(s.sid), len |-> s.len] : s \in Strays}

\* The read that meets the end of the file leaves the record as the stack has
\* it, as a rule the last one, and it is handed on like the others
ReadEnd ==
    /\ Reading /\ record = Len(files[playing]) + 1
    /\ \E f \in (IF record = 1 THEN Uninitialised ELSE {files[playing][record - 1]}) :
         can_interface_receive(f)
    /\ record' = record + 1
    /\ UNCHANGED <<sender, tx, lossy, overlapped, medium, at, retrying, packet_buffer, card,
                   states, faults, restarts, playing, ghosts>>

-----------------------------------------------------------------------------
LogThread ==
    \/ TryInit \/ ConnectFails \/ Connect \/ Exists \/ Create \/ CreateFails
    \/ Write \/ WriteShort \/ WriteFails \/ Close

LogNext ==
    \/ medium = "bus" /\ Next /\ UNCHANGED logVars
    \/ \E p \in Packets : LogPacket(p)
    \/ AppendFrame
    \/ LogThread
    \/ PowerLoss
    \/ StartReplay \/ ReadRecord \/ ReadEnd

LogSpec == LogInit /\ [][LogNext]_allVars

\* The thread runs, and the card answers its calls one way or the other
FairLogSpec == LogSpec /\ WF_allVars(LogThread)

-----------------------------------------------------------------------------
(* Properties *)

\* What comes out was sent, whichever way it came; only an empty file yields what the
\* desktop's stack happens to hold.
WholeMessages == (Reading /\ files[playing] = <<>>) \/ Assembled

\* ResyncAfterOne and DeliveredInOrder speak of the bus; a file repeats its
\* last record.
BusResyncsAfterOne == medium = "bus" => ResyncAfterOne
BusDeliversInOrder == medium = "bus" => DeliveredInOrder

\* What can_send was given waits in the buffer or is in a file, through failed
\* writes, new files and restarts.  Frames that are excused: the buffer and the
\* unsafe end of a file when the power goes, that end when the file is closed,
\* and what a full card cuts off.
FramesKept ==
    \A f \in owed : f \in InSeq(packet_buffer) \/ \E k \in DOMAIN files : f \in InSeq(files[k])

\* A full card is not silent: since the first frame was cut off, the card's
\* component is in error whenever the thread takes packets again, although
\* every recovery in between stores that the card is well.
CutIsReported == cut /\ at = "ready" => sd_card = "error"

\* The numbers of the packets of an id of which a file holds every frame, and of those
\* that came out of it
Parts(id) == IF id \in Mapped THEN size_in_packets(id) ELSE 1
Recorded(id, file) ==
    {n \in {f.n : f \in InSeq(file)} :
        \A i \in 0..Parts(id) - 1 : \E f \in InSeq(file) : f.id = id /\ f.n = n /\ f.part = i}
Replayed(id) == [j \in DOMAIN received[id] |-> received[id][j][1].n]

\* The packets that are in a file as a whole came out of it in order, each once; only a
\* packet of one frame twice when it is the last
CameOutOf(file, id) ==
    LET last == file[Len(file)]
        n == Replayed(id)
        repeated == last.id = id /\ Parts(id) = 1
        first == 1..Len(n) - (IF repeated THEN 1 ELSE 0)
    IN /\ {n[j] : j \in first} = Recorded(id, file)
       /\ \A j, k \in first : j < k => n[j] < n[k]
       /\ repeated => n # <<>> /\ n[Len(n)] = last.n

\* A desktop that reads a file to its end gets the packets that are in it as a
\* whole, in order, each once, wherever the file begins and ends; only a packet
\* of one frame comes twice when it is the last, for the record that the end of
\* the file leaves on the stack.  (Of a file that is not empty.)
ReplayFaithful ==
    Reading /\ unallocated = {} /\ files[playing] # <<>> /\ record = Len(files[playing]) + 2 =>
        \A id \in {i \in DOMAIN received : Carried(i)} : CameOutOf(files[playing], id)

\* A failing card holds the thread up, no longer: once the calls of the file
\* system stop failing it takes packets again.
FlushEnds == at \notin {"ready", "off"} ~> at \in {"ready", "off"}
=============================================================================
