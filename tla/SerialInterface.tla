--------------------------- MODULE SerialInterface ---------------------------
(***************************************************************************)
(* Packets over a byte stream, src/serial_interface.c.  The sender marks   *)
(* the start of each frame with 0x7E and stuffs the rest; the reader hunts *)
(* for a 0x7E, reads the header, its checksum, the payload and its         *)
(* checksum, and returns the packet or NULL.                               *)
(*                                                                         *)
(* The bytes take one of three ways.  On the board the queue to the USB    *)
(* host is bounded: a byte that finds it full cuts the frame short.  On    *)
(* the desktop a file and a serial port (os/std/impl/OutputFileDriver.cpp, *)
(* SerialDriver.cpp) are written through a buffer, at the end of a packet  *)
(* or when it is full.  A byte on its way may be lost, but in a file.      *)
(*                                                                         *)
(* A symbol on the stream is a byte, <<b>>, or a checksum, which holds what *)
(* it was computed over and so detects every damage.  A header is its id   *)
(* and its length.                                                         *)
(***************************************************************************)
EXTENDS Integers, Sequences

CONSTANTS
    Packets,        \* packets to send: [id, payload], a byte and a sequence of bytes
    Capacity,       \* bytes in the queue between stream_put and stream_get
    WRITE_BUFFER_SIZE,  \* bytes of the write buffer of a file or a port
    HeapSize,       \* packets the interface's telemetry_allocator holds
    MaxFrames,      \* bound: frames sent
    MaxLost,        \* bound: bytes lost
    None

Byte == {<<b>> : b \in 0..255}
Delimiter == <<126>>        \* 0x7E
Escape == <<125>>           \* 0x7D
Stuffed == [b \in {<<126>>, <<125>>} |-> <<b[1] - 32>>]     \* the byte xored with 0x20
Unstuffed == [b \in {<<94>>, <<93>>} |-> <<b[1] + 32>>]

ASSUME SerialAssumption ==
    /\ Packets \subseteq [id : Byte, payload : Seq(Byte)]
    /\ \A p \in Packets : p.payload # None
    /\ Capacity \in Nat \ {0} /\ WRITE_BUFFER_SIZE \in Nat \ {0} /\ HeapSize \in Nat
    /\ MaxFrames \in Nat /\ MaxLost \in Nat

VARIABLES
    link,           \* "usb", "file" or "port"
    sent,           \* the packet of each frame begun
    out,            \* the bytes of the last frame that are still to be put
    write_buffer,   \* those put but not written, up to write_buffer_index
    wire,           \* the bytes between stream_put and stream_get: [byte, frame,
                    \* place], the last two for the properties
    reading,        \* what serial_interface_next_packet is reading
    buffer,         \* the bytes of it read so far
    escaped,        \* the last byte was 0x7D
    failed,         \* serial_interface_read_bytes_to_buffer returned false
    header,         \* the header read
    payload,        \* the payload read, None when part of it was never written
    header_frame,   \* for the properties: the frame the header came from
    received,       \* the packets it returned: [frame, packet]
    allocated,      \* blocks taken from the allocator
    owned,          \* packets that next_packet's caller has yet to free
    damaged,        \* for the properties: frames that were cut or lost a byte
    unallocated,    \* for the properties: frames that found no memory
    lost            \* bytes lost so far

writer == <<link, sent, out, write_buffer>>
reader == <<reading, buffer, escaped, failed, header, payload, header_frame, received,
            allocated, owned, unallocated>>
vars == <<writer, wire, reader, damaged, lost>>

Init ==
    /\ link \in {"usb", "file", "port"}
    /\ sent = <<>> /\ out = <<>> /\ write_buffer = <<>> /\ wire = <<>>
    /\ reading = "hunt" /\ buffer = <<>> /\ escaped = FALSE /\ failed = FALSE
    /\ header = None /\ payload = None /\ header_frame = 0 /\ received = <<>>
    /\ allocated = 0 /\ owned = 0
    /\ damaged = {} /\ unallocated = {} /\ lost = 0

-----------------------------------------------------------------------------
\* checksum_crc16 and checksum_crc32, each one symbol that tells all data apart
Crc16(bytes) == <<16, bytes>>
Crc32(bytes) == <<32, bytes>>

\* Mutant: the escape byte itself goes out as it is
StuffDelimiterOnly(bytes) ==
    LET stuffed[k \in 0..Len(bytes)] ==
          IF k = 0 THEN <<>>
          ELSE stuffed[k - 1] \o (IF bytes[k] = Delimiter THEN <<Escape, Stuffed[bytes[k]]>>
                                                         ELSE <<bytes[k]>>)
    IN stuffed[Len(bytes)]

\* serial_interface_write_bytes_to_buffer
Stuff(bytes) ==
    LET stuffed[k \in 0..Len(bytes)] ==
          IF k = 0 THEN <<>>
          ELSE stuffed[k - 1] \o (IF bytes[k] \in DOMAIN Stuffed THEN <<Escape, Stuffed[bytes[k]]>>
                                                                 ELSE <<bytes[k]>>)
    IN stuffed[Len(bytes)]

Header(p) == <<p.id, <<Len(p.payload)>>>>

Frame(p) ==
    <<Delimiter>> \o Stuff(Header(p)) \o <<Crc16(Header(p))>>
                  \o Stuff(p.payload) \o <<Crc32(p.payload)>>

\* serial_interface_send_packet
Send(p) ==
    /\ out = <<>>
    /\ Len(sent) < MaxFrames
    /\ sent' = Append(sent, p)
    /\ out' = Frame(p)
    /\ UNCHANGED <<link, write_buffer, wire, reader, damaged, lost>>

\* The byte to put
NextByte == [byte |-> Head(out), frame |-> Len(sent),
             place |-> Len(Frame(sent[Len(sent)])) - Len(out) + 1]

\* Mutant: stream_put does not look whether there is room
PutUnchecked ==
    /\ link = "usb"
    /\ out # <<>>
    /\ wire' = Append(wire, NextByte)
    /\ out' = Tail(out)
    /\ UNCHANGED <<link, sent, write_buffer, reader, damaged, lost>>

\* stream_put on the board
Put ==
    /\ link = "usb"
    /\ out # <<>>
    /\ Len(wire) < Capacity
    /\ wire' = Append(wire, NextByte)
    /\ out' = Tail(out)
    /\ UNCHANGED <<link, sent, write_buffer, reader, damaged, lost>>

\* stream_put returns false: so does send_packet, in the middle of its frame
PutFails ==
    /\ link = "usb"
    /\ out # <<>>
    /\ Len(wire) = Capacity
    /\ out' = <<>>
    /\ damaged' = damaged \cup {Len(sent)}
    /\ UNCHANGED <<link, sent, write_buffer, wire, reader, lost>>

\* stream_put on the desktop writes the buffer when it is full, and the last byte
\* is followed by stream_flush.  That of a port does not reset write_buffer_index:
\* what it has written stays in the buffer, to be written again
PutBuffered ==
    /\ link # "usb"
    /\ out # <<>>
    /\ LET full == Len(write_buffer) = WRITE_BUFFER_SIZE
           kept == Append(IF full THEN <<>> ELSE write_buffer, NextByte)
           flush == Len(out) = 1
       IN /\ wire' = wire \o (IF full THEN write_buffer ELSE <<>>)
                          \o (IF flush THEN kept ELSE <<>>)
          /\ write_buffer' = IF flush /\ link = "file" THEN <<>> ELSE kept
    /\ out' = Tail(out)
    /\ UNCHANGED <<link, sent, reader, damaged, lost>>

LoseByte ==
    /\ link # "file" /\ wire # <<>>
    /\ lost < MaxLost
    /\ lost' = lost + 1
    /\ wire' = Tail(wire)
    /\ damaged' = damaged \cup {Head(wire).frame}
    /\ UNCHANGED <<writer, reader>>

-----------------------------------------------------------------------------
(* serial_interface_next_packet, one byte at a time *)

\* stream_get
Get(byte) ==
    /\ wire # <<>>
    /\ byte = Head(wire).byte
    /\ wire' = Tail(wire)

\* The next part begins
Begin(part) ==
    /\ reading' = part
    /\ buffer' = <<>>
    /\ escaped' = FALSE
    /\ failed' = FALSE

\* next_packet returns, a packet or NULL; its caller calls it again
Return == Begin("hunt")

Bytes == {wire[k].byte : k \in 1..Len(wire)}

Hunt ==
    /\ reading = "hunt"
    /\ \E byte \in Bytes :
         /\ Get(byte)
         /\ IF byte = Delimiter
            THEN Begin("header") /\ header_frame' = Head(wire).frame
            ELSE UNCHANGED <<reading, buffer, escaped, failed, header_frame>>
    /\ UNCHANGED <<writer, header, payload, received, allocated, owned, unallocated,
                   damaged, lost>>

\* How many symbols the part being read has
Size == CASE reading = "header" -> 2
          [] reading \in {"header_crc", "payload_crc"} -> 1
          [] reading = "payload" -> header[2][1]

\* A delimiter, or an escape byte before what it cannot stand for
Rejects(byte) == IF escaped THEN byte \notin DOMAIN Unstuffed ELSE byte = Delimiter

\* One turn of serial_interface_read_bytes_to_buffer
ReadByte ==
    /\ reading # "hunt" /\ ~failed /\ Len(buffer) < Size
    /\ \E byte \in Bytes :
         /\ Get(byte)
         /\ \/ /\ Rejects(byte)
               /\ failed' = TRUE
               /\ UNCHANGED <<buffer, escaped>>
            \/ /\ ~Rejects(byte) /\ ~escaped /\ byte = Escape
               /\ escaped' = TRUE
               /\ UNCHANGED <<buffer, failed>>
            \/ /\ ~Rejects(byte) /\ (escaped \/ byte # Escape)
               /\ buffer' = Append(buffer, IF escaped THEN Unstuffed[byte] ELSE byte)
               /\ escaped' = FALSE
               /\ UNCHANGED failed
    /\ header_frame' = IF reading = "header" THEN Head(wire).frame ELSE header_frame
    /\ UNCHANGED <<writer, reading, header, payload, received,
                   allocated, owned, unallocated, damaged, lost>>

Done(part) == reading = part /\ (failed \/ Len(buffer) = Size)

HeaderRead ==
    /\ Done("header")
    /\ IF failed THEN Return /\ UNCHANGED header
       ELSE Begin("header_crc") /\ header' = buffer
    /\ UNCHANGED <<writer, wire, payload, header_frame, received, allocated, owned,
                   unallocated, damaged, lost>>

\* The header's checksum, and the allocation of the packet
HeaderChecked ==
    /\ Done("header_crc")
    /\ LET valid == ~failed /\ buffer[1] = Crc16(header)
       IN \/ /\ ~valid
             /\ Return
             /\ UNCHANGED <<allocated, unallocated>>
          \/ /\ valid /\ allocated = HeapSize
             /\ Return
             /\ unallocated' = unallocated \cup {header_frame}
             /\ UNCHANGED allocated
          \/ /\ valid /\ allocated < HeapSize
             /\ allocated' = allocated + 1
             /\ Begin("payload")
             /\ UNCHANGED <<unallocated>>
    /\ UNCHANGED <<writer, wire, header, payload, header_frame, received, owned,
                   damaged, lost>>

\* Whether the payload could be read is not looked at
PayloadRead ==
    /\ Done("payload")
    /\ payload' = IF failed THEN None ELSE buffer
    /\ Begin("payload_crc")
    /\ UNCHANGED <<writer, wire, header, header_frame, received, allocated, owned,
                   unallocated, damaged, lost>>

\* Nor whether its checksum could: it starts as 0, the checksum of no bytes
payload_crc == IF failed THEN Crc32(<<>>) ELSE buffer[1]

\* Mutant: the checksum of the payload is not compared
PayloadUnchecked == payload # None

PayloadValid == payload # None /\ payload_crc = Crc32(payload)

\* Mutant: a packet whose checksum is wrong is not given back
PayloadCheckedKeeps ==
    /\ Done("payload_crc")
    /\ \/ /\ PayloadValid
          /\ received' = Append(received,
               [frame |-> header_frame, packet |-> [id |-> header[1], payload |-> payload]])
          /\ owned' = owned + 1
          /\ Return
       \/ /\ ~PayloadValid
          /\ Return
          /\ UNCHANGED <<received, owned>>
    /\ UNCHANGED <<writer, wire, header, payload, header_frame, allocated, unallocated,
                   damaged, lost>>

PayloadChecked ==
    /\ Done("payload_crc")
    /\ \/ /\ PayloadValid
          /\ received' = Append(received,
               [frame |-> header_frame, packet |-> [id |-> header[1], payload |-> payload]])
          /\ owned' = owned + 1
          /\ Return
          /\ UNCHANGED allocated
       \/ /\ ~PayloadValid
          /\ allocated' = allocated - 1
          /\ Return
          /\ UNCHANGED <<received, owned>>
    /\ UNCHANGED <<writer, wire, header, payload, header_frame, unallocated, damaged, lost>>

\* The caller passed the packet to messaging_send, which has now freed it
OwnerFrees ==
    /\ owned > 0
    /\ owned' = owned - 1
    /\ allocated' = allocated - 1
    /\ UNCHANGED <<writer, wire, reading, buffer, escaped, failed, header, payload,
                   header_frame, received, unallocated, damaged, lost>>

NextPacket ==
    \/ Hunt \/ ReadByte
    \/ HeaderRead \/ HeaderChecked \/ PayloadRead \/ PayloadChecked

Next ==
    \/ \E p \in Packets : Send(p)
    \/ Put \/ PutFails \/ PutBuffered \/ LoseByte
    \/ NextPacket
    \/ OwnerFrees

Spec == Init /\ [][Next]_vars

-----------------------------------------------------------------------------
\* Type correctness of both ends.
SerialTypeOK ==
    /\ Len(sent) <= MaxFrames /\ Len(write_buffer) <= WRITE_BUFFER_SIZE
    /\ link = "usb" => Len(wire) <= Capacity /\ write_buffer = <<>>
    /\ reading \in {"hunt", "header", "header_crc", "payload", "payload_crc"}
    /\ reading # "hunt" => Len(buffer) <= Size
    /\ allocated \in 0..HeapSize /\ owned \in 0..HeapSize

\* next_packet returns only packets that were sent: a frame that lost no byte comes
\* out as it went in; of damaged ones, the header of a packet that was sent with the
\* payload of one, of the length that the header says.  They come in the order of the
\* frames and none twice; a port repeats frames, but one that is whole and follows a
\* whole one comes in its place the first time.
OnlyWhatWasSent ==
    /\ \A k \in 1..Len(received) :
         LET packet == received[k].packet
         IN /\ received[k].frame \notin damaged => packet = sent[received[k].frame]
            /\ \E i, j \in 1..Len(sent) :
                 /\ packet.id = sent[i].id /\ packet.payload = sent[j].payload
                 /\ Len(sent[i].payload) = Len(sent[j].payload)
    /\ \A j, k \in 1..Len(received) :
         j < k => \/ received[j].frame < received[k].frame
                  \/ /\ link = "port"
                     /\ \/ \E i \in 1..j : received[i].frame = received[k].frame
                        \/ received[k].frame \in damaged \cup unallocated
                        \/ received[k].frame - 1 \in damaged

\* Frame n has been put and read to its end
Over(n) ==
    /\ n < Len(sent) \/ (n = Len(sent) /\ out = <<>>)
    /\ \A k \in 1..Len(wire) : wire[k].frame > n
    /\ reading = "hunt" \/ header_frame > n

\* A frame that is cut short or loses a byte costs itself and at most the next
\* one, whose delimiter may be swallowed: a whole frame after a whole frame is
\* returned, unless there was no memory for it.
ResyncAfterOneFrame ==
    \A n \in 1..Len(sent) :
        /\ Over(n)
        /\ n \notin damaged \cup unallocated
        /\ n > 1 => n - 1 \notin damaged
        => \E k \in 1..Len(received) : received[k].frame = n

\* Every block of the allocator belongs to the packet that is being read or to
\* one that next_packet returned: the many ways to return NULL leak none.
NoPacketLeaks ==
    allocated = owned + (IF reading \in {"payload", "payload_crc"} THEN 1 ELSE 0)
=============================================================================
