---------------------------- MODULE CanInterface ----------------------------
(***************************************************************************)
(* Telemetry over CAN, src/can_interface.c with the driver that feeds it,  *)
(* os/chibios/can_telemetry.c.  can_interface_send cuts a packet into      *)
(* frames of eight bytes, numbered by three bits of the CAN identifier;    *)
(* can_interface_receive puts them together again, one buffer for each     *)
(* mapping.  A frame waits in one of the controller's transmit mailboxes   *)
(* and leaves it in the order of the identifiers; it may be lost.  The     *)
(* sender does not wait for the frames of the last packet: those of two    *)
(* packets of one id may be in the mailboxes together.                     *)
(*                                                                         *)
(* The bytes of a frame are abstracted to their origin: the message, which *)
(* part of it, and how many of its bytes.                                  *)
(***************************************************************************)
EXTENDS Integers, Sequences, FiniteSets

CONSTANTS
    can_mappings,   \* [telemetry_id -> [size_in_bytes, remapped_id, remapped_board]]
    Packets,        \* what the consumer is given: records [id, length]
    TxMailboxes,    \* transmit mailboxes of the controller
    MaxMessages,    \* bound: packets that are sent
    MaxLosses,      \* bound: frames that are lost
    Strays,         \* what a frame that nobody sent may be: records [sid, len]
    None

MAX_SEQNO == 8
ts_m3_can == 4096           \* 2 << 11
Ids == {p.id : p \in Packets}
Mapped == DOMAIN can_mappings

ASSUME MappingAssumption ==
    \A t \in Mapped : /\ can_mappings[t].size_in_bytes \in 1..255
                      /\ can_mappings[t].remapped_id \in 0..7
                      /\ can_mappings[t].remapped_board \in 0..31

ASSUME PacketAssumption ==
    \A p \in Packets : p.id \in Nat /\ p.length \in 0..255

ASSUME NoneAssumption ==
    None \notin [id : Ids, n : Nat, remaining : 0..255, i : 0..MAX_SEQNO - 1]

ASSUME StrayAssumption == Strays \subseteq [sid : Nat, len : 0..255]

ASSUME BoundAssumption ==
    TxMailboxes \in Nat \ {0} /\ MaxMessages \in Nat /\ MaxLosses \in Nat

VARIABLES
    sent,           \* how many packets of each id can_interface_send was given
    out,            \* the packet it is cutting up, and the next frame, or None
    tx,             \* the frames in the controller, oldest first
    mapping_buffers,\* valid_idx and data_buffer of each mapping
    received,       \* of each id, the packets that handleFullPacket passed to
                    \* messaging_send, a packet as its parts
    component_state,
    losses,         \* how many frames were lost
    damaged,        \* for the properties: packets that lost a frame,
    overlapped,     \* that had frames waiting together with those of another of
                    \* their id, or began while these waited,
    unallocated     \* and for which no memory was left

sender == <<sent, out>>
receiver == <<mapping_buffers, received, unallocated>>
lossy == <<losses, damaged>>
vars == <<sender, tx, receiver, component_state, lossy, overlapped>>

-----------------------------------------------------------------------------
(* can_mapping_t *)

size_in_packets(t) == (can_mappings[t].size_in_bytes + 7) \div 8

can_interface_check_multipacket_definitions ==
    \A t \in Mapped : size_in_packets(t) <= MAX_SEQNO

getCanID(t, seqno) ==
    can_mappings[t].remapped_id * 256 + seqno * 32 + can_mappings[t].remapped_board

Seqno(sid) == (sid \div 32) % 8

\* Is sid one of the identifiers of mapping t?
Belongs(sid, t) ==
    /\ can_mappings[t].remapped_id = (sid \div 256) % 8
    /\ can_mappings[t].remapped_board = sid % 32

\* The mapping an identifier belongs to: none or one (the table has no duplicates)
getMappingForCanID(sid) == {t \in Mapped : Belongs(sid, t)}

\* An identifier of more than 11 bits (can_msg_id & ts_m3_can_mask)
Extended(sid) == sid >= 2048

\* A packet of the m3_can namespace carries an identifier this table does not know
IsWrapped(id) == (id \div 2048) * 2048 = ts_m3_can

\* The mappings have identifiers of their own, the table passes the check of
\* can_interface_init, and a wrapped packet that has the identifier of a mapping is too
\* long for it.
TableOK ==
    /\ can_interface_check_multipacket_definitions
    /\ \A t \in Mapped : ~IsWrapped(t)
    /\ \A t, u \in Mapped :
         /\ can_mappings[t].remapped_id = can_mappings[u].remapped_id
         /\ can_mappings[t].remapped_board = can_mappings[u].remapped_board
         => t = u
    /\ \A p \in Packets : IsWrapped(p.id) =>
         \A t \in Mapped : Belongs(p.id - ts_m3_can, t) =>
            LET start == Seqno(p.id - ts_m3_can) * 8
            IN start + p.length > can_mappings[t].size_in_bytes
               /\ start + 8 > can_mappings[t].size_in_bytes

\* can_interface_init: does the table of mappings pass its check?
InitialState == IF can_interface_check_multipacket_definitions THEN "ok" ELSE "error"

\* The ids of the packets that can_interface_receive may put together
ReceivedIds == Ids \cup Mapped \cup {s.sid + ts_m3_can : s \in {s \in Strays : ~Extended(s.sid)}}

EmptyBuffer == [valid_idx |-> 0, data_buffer |-> [k \in 0..MAX_SEQNO - 1 |-> None]]

Init ==
    /\ sent = [id \in Ids |-> 0]
    /\ out = None
    /\ tx = <<>>
    /\ mapping_buffers = [t \in Mapped |-> EmptyBuffer]
    /\ received = [id \in ReceivedIds |-> <<>>]
    /\ component_state = InitialState
    /\ losses = 0
    /\ damaged = {} /\ overlapped = {} /\ unallocated = {}

-----------------------------------------------------------------------------
(* Sending *)

\* The packets of an id that have frames in the controller
WaitingOf(id) == {tx[k].n : k \in {k \in 1..Len(tx) : tx[k].id = id}}

\* The packets that were sent: of each id the first, the second ...
Sent == UNION {{<<id, n>> : n \in 1..sent[id]} : id \in Ids}

\* can_interface_send, up to its loop: what cannot be sent is an error and dropped
StartSend(p) ==
    /\ out = None
    /\ Cardinality(Sent) < MaxMessages
    /\ LET sendable == IF IsWrapped(p.id) THEN p.length <= 8
                       ELSE p.id \in Mapped /\ can_mappings[p.id].size_in_bytes = p.length
       IN IF sendable
          THEN /\ out' = [id |-> p.id, n |-> sent[p.id] + 1, remaining |-> p.length, i |-> 0]
               /\ sent' = [sent EXCEPT ![p.id] = @ + 1]
               /\ overlapped' = overlapped \cup (IF WaitingOf(p.id) = {} THEN {} ELSE
                    {<<p.id, n>> : n \in WaitingOf(p.id) \cup {sent[p.id] + 1}})
               /\ UNCHANGED component_state
          ELSE /\ component_state' = "error"
               /\ UNCHANGED <<sender, overlapped>>
    /\ UNCHANGED <<tx, receiver, lossy>>

\* The frame of the loop's next turn (or the one frame of sendWrappedPacket)
NextFrame ==
    [sid  |-> IF IsWrapped(out.id) THEN out.id - ts_m3_can ELSE getCanID(out.id, out.i),
     id   |-> out.id, n |-> out.n, part |-> out.i,
     len  |-> IF out.remaining > 8 THEN 8 ELSE out.remaining]

\* The rest of the turn: the loop ends with the frame that empties the packet,
\* or with an error when the identifiers have no number left
Advance ==
    IF out.remaining <= 8 THEN out' = None /\ UNCHANGED component_state
    ELSE IF out.i + 1 >= MAX_SEQNO THEN out' = None /\ component_state' = "error"
    ELSE /\ out' = [out EXCEPT !.i = @ + 1, !.remaining = @ - 8]
         /\ UNCHANGED component_state

\* Mutant: can_send writes into a mailbox without waiting for a free one
SendFrameAtOnce ==
    /\ out # None
    /\ tx' = Append(tx, NextFrame)
    /\ Advance
    /\ UNCHANGED <<sent, receiver, lossy, overlapped>>

\* Mutant: the frame may be sent again, as if canTransmit had not taken it
SendFrameAgain ==
    /\ out # None
    /\ Len(tx) < TxMailboxes
    /\ tx' = Append(tx, NextFrame)
    /\ Advance \/ UNCHANGED <<out, component_state>>
    /\ UNCHANGED <<sent, receiver, lossy, overlapped>>

\* can_send finds a free mailbox (canTransmit waits for one)
SendFrame ==
    /\ out # None
    /\ Len(tx) < TxMailboxes
    /\ tx' = Append(tx, NextFrame)
    /\ Advance
    /\ UNCHANGED <<sent, receiver, lossy, overlapped>>

\* The frame will not arrive: canTransmit gives up after 100 ms and can_send
\* does not look at its result, or the other end's receive queue overflows
LoseFrame ==
    /\ out # None
    /\ losses < MaxLosses
    /\ losses' = losses + 1
    /\ damaged' = damaged \cup {<<out.id, out.n>>}
    /\ Advance
    /\ UNCHANGED <<sent, tx, receiver, overlapped>>

-----------------------------------------------------------------------------
(* Receiving *)

\* can_telemetry.c leaves CAN_MCR_TXFP clear: the lowest identifier leaves
\* first, whatever the order of the requests
Arbitrated(k) ==
    /\ k \in 1..Len(tx)
    /\ \A j \in 1..Len(tx) : tx[k].sid <= tx[j].sid

Without(k) == [j \in 1..Len(tx) - 1 |-> IF j < k THEN tx[j] ELSE tx[j + 1]]

\* handleFullPacket: allocate, copy, messaging_send
handleFullPacket(id, n, parts) ==
    \/ /\ received' = [received EXCEPT ![id] = Append(@, parts)]
       /\ UNCHANGED unallocated
    \/ /\ unallocated' = unallocated \cup {<<id, n>>}
       /\ UNCHANGED received

Content(f) == [id |-> f.id, n |-> f.n, part |-> f.part, len |-> f.len]

\* An identifier without a mapping: wrap it, unless it is not an 11 bit one
handleUnrecognisedPacket(f) ==
    /\ getMappingForCanID(f.sid) = {}
    /\ \/ /\ ~Extended(f.sid)
          /\ handleFullPacket(f.sid + ts_m3_can, f.n, <<Content(f)>>)
          /\ UNCHANGED component_state
       \/ /\ Extended(f.sid)
          /\ component_state' = "error"
          /\ UNCHANGED <<received, unallocated>>
    /\ UNCHANGED mapping_buffers

\* Mutant: a frame out of sequence is dropped and the buffer kept
OutOfSequenceKeeps(f) ==
    /\ \E t \in getMappingForCanID(f.sid) : Seqno(f.sid) # mapping_buffers[t].valid_idx
    /\ UNCHANGED <<receiver, component_state>>

\* A frame that is not the next one: start over, and drop it even if it is the first
OutOfSequence(f) ==
    \E t \in getMappingForCanID(f.sid) :
        /\ Seqno(f.sid) # mapping_buffers[t].valid_idx
        /\ mapping_buffers' = [mapping_buffers EXCEPT ![t].valid_idx = 0]
        /\ UNCHANGED <<received, unallocated, component_state>>

\* The next frame does not fit the mapping; valid_idx stays
Misfit(t, f) ==
    \/ Seqno(f.sid) >= size_in_packets(t)
    \/ Seqno(f.sid) * 8 + f.len > can_mappings[t].size_in_bytes

RejectFrame(f) ==
    \E t \in getMappingForCanID(f.sid) :
        /\ Seqno(f.sid) = mapping_buffers[t].valid_idx
        /\ Misfit(t, f)
        /\ component_state' = "error"
        /\ UNCHANGED receiver

\* Mutant: a complete packet does not reset its buffer
AcceptFrameKeeps(f) ==
    \E t \in getMappingForCanID(f.sid) :
        /\ Seqno(f.sid) = mapping_buffers[t].valid_idx
        /\ ~Misfit(t, f)
        /\ LET data == [mapping_buffers[t].data_buffer EXCEPT ![Seqno(f.sid)] = Content(f)]
           IN /\ mapping_buffers' = [mapping_buffers EXCEPT ![t] =
                   [valid_idx |-> @.valid_idx + 1, data_buffer |-> data]]
              /\ IF mapping_buffers[t].valid_idx + 1 = size_in_packets(t)
                 THEN handleFullPacket(t, f.n,
                        [k \in 1..size_in_packets(t) |-> data[k - 1]])
                 ELSE UNCHANGED <<received, unallocated>>
        /\ UNCHANGED component_state

\* The next frame is copied; the last one completes the packet
AcceptFrame(f) ==
    \E t \in getMappingForCanID(f.sid) :
        /\ Seqno(f.sid) = mapping_buffers[t].valid_idx
        /\ ~Misfit(t, f)
        /\ LET data == [mapping_buffers[t].data_buffer EXCEPT ![Seqno(f.sid)] = Content(f)]
               complete == mapping_buffers[t].valid_idx + 1 = size_in_packets(t)
           IN /\ mapping_buffers' = [mapping_buffers EXCEPT ![t] =
                   [valid_idx |-> IF complete THEN 0 ELSE @.valid_idx + 1,
                    data_buffer |-> data]]
              /\ IF complete
                 THEN handleFullPacket(t, f.n,
                        [k \in 1..size_in_packets(t) |-> data[k - 1]])
                 ELSE UNCHANGED <<received, unallocated>>
        /\ UNCHANGED component_state

\* can_interface_receive ignores empty frames, and everything when the mapping
\* table did not pass its check
Ignored(f) == f.len = 0 \/ ~can_interface_check_multipacket_definitions

can_interface_receive(f) ==
    IF Ignored(f) THEN UNCHANGED <<receiver, component_state>>
    ELSE \/ handleUnrecognisedPacket(f)
         \/ OutOfSequence(f)
         \/ RejectFrame(f)
         \/ AcceptFrame(f)

Arrive ==
    \E k \in 1..Len(tx) :
        /\ Arbitrated(k)
        /\ tx' = Without(k)
        /\ can_interface_receive(tx[k])
        /\ UNCHANGED <<sender, lossy, overlapped>>

-----------------------------------------------------------------------------
Next ==
    \/ \E p \in Packets : StartSend(p)
    \/ SendFrame
    \/ LoseFrame
    \/ Arrive

Spec == Init /\ [][Next]_vars

-----------------------------------------------------------------------------
(* Properties *)

\* Type correctness of both ends.
CanTypeOK ==
    /\ sent \in [Ids -> Nat]
    /\ out = None \/ (out.id \in Ids /\ out.i \in 0..MAX_SEQNO - 1 /\ out.remaining \in 0..255)
    /\ Len(tx) <= TxMailboxes
    /\ \A t \in Mapped : mapping_buffers[t].valid_idx \in 0..MAX_SEQNO
    /\ component_state \in {"ok", "error"}
    /\ losses \in 0..MaxLosses

\* Part k of a packet that is handed on: of a packet with that id that was sent, in its
\* place, with all its bytes
InPlace(id, parts, k) ==
    /\ id \in Ids /\ parts[k].n \in 1..sent[id]
    /\ parts[k].id = id /\ parts[k].part = k - 1
    /\ id \in Mapped =>
         parts[k].len = IF k < size_in_packets(id) THEN 8
                        ELSE can_mappings[id].size_in_bytes - 8 * (k - 1)

\* The numbers of the packets that the parts are of
Origins(parts) == {parts[k].n : k \in DOMAIN parts}

\* Every packet that is handed on is one that was sent, or is put together from several
\* of which each had lost frames or waited in the controller with another.
Assembled ==
    \A id \in DOMAIN received : \A j \in DOMAIN received[id] :
        LET parts == received[id][j]
        IN /\ \A k \in DOMAIN parts : InPlace(id, parts, k)
           /\ \A m, n \in Origins(parts) : m # n => <<id, n>> \in damaged \cup overlapped

\* No trace of the packet is left between the loop and the last buffer
Settled(id, n) ==
    /\ n <= sent[id]
    /\ out = None \/ out.id # id \/ out.n # n
    /\ \A k \in 1..Len(tx) : tx[k].id # id \/ tx[k].n # n

Arrived(id, n) ==
    \E j \in 1..Len(received[id]) :
        \A k \in 1..Len(received[id][j]) : received[id][j][k].n = n

\* A wrapped packet whose identifier belongs to a mapping is taken for a frame of it
Collides(id) == IsWrapped(id) /\ getMappingForCanID(id - ts_m3_can) # {}

\* Packets that can_interface_receive would recognise: not an empty one either
Carried(id) == ~Collides(id) /\ \A p \in Packets : p.id = id => p.length > 0

\* A wrapped packet that is taken for a frame of a mapping resets its buffer
Undisturbed(t) == \A p \in Packets : IsWrapped(p.id) => ~Belongs(p.id - ts_m3_can, t)

\* What a lost frame may cost: the packet it belongs to, and of several frames
\* also the next one, whose first frame only resets the buffer.  A packet that
\* lost nothing and follows one that lost nothing arrives, if it shared the
\* controller with no other of its id; one of a single frame arrives always.
ResyncAfterOne ==
    \A id \in Ids : \A n \in 1..sent[id] :
        /\ Carried(id)
        /\ Settled(id, n) /\ <<id, n>> \notin damaged \cup unallocated
        /\ id \in Mapped /\ size_in_packets(id) > 1 =>
             /\ Undisturbed(id) /\ <<id, n>> \notin overlapped
             /\ n > 1 => <<id, n - 1>> \notin damaged
        => Arrived(id, n)

\* Of the packets of one id that come out of handleFullPacket none comes twice, and they
\* come in the order in which can_interface_send was given them; only two that each waited
\* in the controller with another may have changed places.
DeliveredInOrder ==
    \A id \in DOMAIN received : \A j, k \in DOMAIN received[id] :
        LET m == received[id][j][1].n
            n == received[id][k][1].n
        IN j < k => m < n \/ (m > n /\ {<<id, m>>, <<id, n>>} \subseteq overlapped)
=============================================================================
