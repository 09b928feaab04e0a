--------------------------- MODULE CanLogProofs ---------------------------
(***************************************************************************)
(* Theorems about CanInterface and CanLog, for every table of mappings,    *)
(* every packet, and any number of messages, lost frames, failing calls    *)
(* and restarts.  Types, and what the card promises, hold as they stand;   *)
(* what is put together from frames, its order on the bus, what a lost     *)
(* frame costs and what a file yields when it is read back, for a table    *)
(* whose identifiers tell packets apart (TableOK).                         *)
(***************************************************************************)
EXTENDS CanLog, SequenceTheorems, TLAPS

-----------------------------------------------------------------------------
(* Types *)

\* A frame on its way, and what is kept of it.
Frames == [sid : Int, id : Ids, n : Nat, part : 0..MAX_SEQNO - 1, len : Int]

\* A frame of nobody too, as the end of an empty file leaves it.
AnyFrames == [sid : Int, id : Ids \cup {None}, n : Nat, part : 0..MAX_SEQNO - 1, len : Int]

Parted == [id : Ids \cup {None}, n : Nat, part : 0..MAX_SEQNO - 1, len : Int]

Buffers == [valid_idx : 0..MAX_SEQNO,
            data_buffer : [0..MAX_SEQNO - 1 -> Parted \cup {None}]]

\* The packet that can_interface_send is cutting up is one that it can send.
Outgoing == [id : Ids, n : Nat, remaining : 0..255, i : 0..MAX_SEQNO - 1]

OutOK == out = None \/ (out \in Outgoing /\ (IsWrapped(out.id) \/ out.id \in Mapped))

EndsOK ==
    /\ sent \in [Ids -> Nat] /\ losses \in 0..MaxLosses
    /\ OutOK
    /\ tx \in Seq(Frames) /\ Len(tx) <= TxMailboxes
    /\ mapping_buffers \in [Mapped -> Buffers]
    /\ component_state \in {"ok", "error"}

Places == {"off", "try_init", "connect", "create", "ready", "write", "close"}

\* The file that is open is one of the card's, and not all of it need be safe.
CardOK ==
    /\ at \in Places
    /\ packet_buffer \in Seq(Frames) /\ files \in Seq(Seq(Frames))
    /\ file_idx \in Nat /\ unsynced \in Nat
    /\ at = "create" => file_idx \in 1..Len(files) + 1
    /\ at \in {"ready", "write"} => file_idx \in DOMAIN files
    /\ unsynced > 0 => /\ at \in {"ready", "write", "close"}
                       /\ file_idx \in DOMAIN files /\ unsynced <= Len(files[file_idx])
    /\ at = "close" => retrying
    /\ record \in Nat /\ (Reading => record # 0)
    /\ Reading => playing \in DOMAIN files /\ at = "off"

LogTypeOK == EndsOK /\ CardOK

\* A card is full as long as a frame was cut off; while it is, a thread that opens a
\* file does so to write again, so that it cannot find the card well and go on.
FullCard ==
    cut => /\ full
           /\ at \in {"try_init", "connect", "create"} => retrying
           /\ CutIsReported

-----------------------------------------------------------------------------
(* Sending and receiving *)

LEMMA PacketTypes == \A p \in Packets : p.id \in Ids /\ p.id \in Int /\ p.length \in 0..255
<1>1. ASSUME NEW p \in Packets PROVE p.id \in Int /\ p.length \in 0..255
  BY PacketAssumption
<1> QED
  BY <1>1 DEF Ids

LEMMA IdTypes == Ids \subseteq Int
  BY PacketTypes DEF Ids

LEMMA FrameTypes ==
  ASSUME NEW f \in Frames
  PROVE  f.id \in Ids /\ f.n \in Nat /\ f.part \in Nat
BY DEF Frames, MAX_SEQNO

LEMMA StrayTypes == Uninitialised \subseteq AnyFrames
<1>1. ASSUME NEW s \in Strays PROVE s.sid \in Int /\ s.len \in Int /\ Seqno(s.sid) \in 0..7
  <2>1. s.sid \in Nat /\ s.len \in 0..255
    BY StrayAssumption
  <2>2. s.sid \div 32 \in Int
    BY <2>1
  <2> QED
    BY <2>1, <2>2 DEF Seqno
<1> QED
  BY <1>1 DEF Uninitialised, AnyFrames, MAX_SEQNO

LEMMA CanIDs == ASSUME NEW t \in Mapped, NEW k \in Int PROVE getCanID(t, k) \in Int
<1>1. can_mappings[t].remapped_id \in Int /\ can_mappings[t].remapped_board \in Int
  BY MappingAssumption
<1> QED
  BY <1>1 DEF getCanID

\* What an invariant of the two ends may rely on: NextFrame is a frame.
LEMMA NextIsFrame == ASSUME EndsOK, out # None PROVE NextFrame \in Frames
<1>1. out \in Outgoing /\ (IsWrapped(out.id) \/ out.id \in Mapped)
  BY DEF EndsOK, OutOK
<1>2. out.id \in Int /\ out.i \in Int /\ out.remaining \in Int
  <2>1. out.id \in Ids /\ out.i \in 0..MAX_SEQNO - 1 /\ out.remaining \in 0..255
    BY <1>1 DEF Outgoing
  <2>2. out.id \in Int
    BY <2>1, IdTypes, Zenon
  <2> QED
    BY <2>1, <2>2 DEF MAX_SEQNO
<1>3. ~IsWrapped(out.id) => getCanID(out.id, out.i) \in Int
  BY <1>1, <1>2, CanIDs
<1>4. out.id - ts_m3_can \in Int
  BY <1>2 DEF ts_m3_can
<1> QED
  BY <1>1, <1>2, <1>3, <1>4 DEF NextFrame, Frames, Outgoing

\* The turn of the loop leaves nothing to send or a packet that can be sent.
LEMMA AdvanceKeeps ==
    ASSUME EndsOK, out # None, Advance
    PROVE  OutOK' /\ component_state' \in {"ok", "error"}
<1>1. out \in Outgoing /\ (IsWrapped(out.id) \/ out.id \in Mapped)
  BY DEF EndsOK, OutOK
<1>2. CASE out' = None
  BY <1>2 DEF OutOK, Advance, EndsOK
<1>3. CASE out' # None
  <2>1. /\ ~(out.remaining <= 8) /\ ~(out.i + 1 >= MAX_SEQNO)
        /\ out' = [out EXCEPT !.i = out.i + 1, !.remaining = out.remaining - 8]
        /\ UNCHANGED component_state
    BY <1>3 DEF Advance
  <2>2. out.i + 1 \in 0..MAX_SEQNO - 1 /\ out.remaining - 8 \in 0..255
    BY <1>1, <2>1 DEF Outgoing, MAX_SEQNO
  <2>3. out' \in Outgoing /\ out'.id = out.id
    BY <1>1, <2>1, <2>2 DEF Outgoing
  <2> QED
    BY <1>1, <2>1, <2>3 DEF OutOK, EndsOK
<1> QED
  BY <1>2, <1>3

\* can_interface_receive keeps the buffers of the mappings as they should be,
\* whatever frame it is given.
LEMMA ReceiveKeeps ==
    ASSUME EndsOK, NEW f \in AnyFrames, can_interface_receive(f)
    PROVE  mapping_buffers' \in [Mapped -> Buffers] /\ component_state' \in {"ok", "error"}
<1> USE DEF EndsOK
<1>1. CASE Ignored(f)
  BY <1>1 DEF can_interface_receive, receiver
<1>2. CASE handleUnrecognisedPacket(f)
  BY <1>2 DEF handleUnrecognisedPacket
<1>3. CASE OutOfSequence(f)
  <2>1. PICK t \in getMappingForCanID(f.sid) :
           /\ mapping_buffers' = [mapping_buffers EXCEPT ![t].valid_idx = 0]
           /\ UNCHANGED component_state
    BY <1>3 DEF OutOfSequence
  <2>2. t \in Mapped /\ mapping_buffers[t] \in Buffers
    BY DEF getMappingForCanID
  <2>3. [mapping_buffers[t] EXCEPT !.valid_idx = 0] \in Buffers
    <3> DEFINE D == [0..MAX_SEQNO - 1 -> Parted \cup {None}]
               I == 0..MAX_SEQNO
    <3>1. 0 \in I
      BY DEF MAX_SEQNO
    <3>2. mapping_buffers[t] \in [valid_idx : I, data_buffer : D]
      BY <2>2 DEF Buffers
    <3> HIDE DEF D, I
    <3>3. [mapping_buffers[t] EXCEPT !.valid_idx = 0] \in [valid_idx : I, data_buffer : D]
      BY <3>1, <3>2
    <3> QED
      BY <3>3 DEF Buffers, D, I
  <2> QED
    BY <2>1, <2>2, <2>3
<1>4. CASE RejectFrame(f)
  BY <1>4 DEF RejectFrame, receiver
<1>5. CASE AcceptFrame(f)
  <2>1. PICK t \in getMappingForCanID(f.sid) :
           LET data == [mapping_buffers[t].data_buffer EXCEPT ![Seqno(f.sid)] = Content(f)]
               complete == mapping_buffers[t].valid_idx + 1 = size_in_packets(t)
           IN  /\ Seqno(f.sid) = mapping_buffers[t].valid_idx
               /\ mapping_buffers' = [mapping_buffers EXCEPT ![t] =
                    [valid_idx |-> IF complete THEN 0 ELSE mapping_buffers[t].valid_idx + 1,
                     data_buffer |-> data]]
               /\ UNCHANGED component_state
    BY <1>5 DEF AcceptFrame
  <2> DEFINE data == [mapping_buffers[t].data_buffer EXCEPT ![Seqno(f.sid)] = Content(f)]
             complete == mapping_buffers[t].valid_idx + 1 = size_in_packets(t)
             idx == IF complete THEN 0 ELSE mapping_buffers[t].valid_idx + 1
  <2>2. t \in Mapped /\ mapping_buffers[t] \in Buffers
    BY DEF getMappingForCanID
  <2>3. Content(f) \in Parted
    BY DEF Content, Parted, AnyFrames
  <2>4. data \in [0..MAX_SEQNO - 1 -> Parted \cup {None}]
    BY <2>2, <2>3 DEF Buffers
  <2>5. Seqno(f.sid) \in 0..MAX_SEQNO - 1
    <3>1. f.sid \in Int
      BY DEF AnyFrames
    <3>2. f.sid \div 32 \in Int
      BY <3>1
    <3> QED
      BY <3>2 DEF Seqno, MAX_SEQNO
  <2>6. idx \in 0..MAX_SEQNO
    BY <2>1, <2>5 DEF MAX_SEQNO
  <2> HIDE DEF data, idx
  <2>7. [valid_idx |-> idx, data_buffer |-> data] \in Buffers
    BY <2>4, <2>6 DEF Buffers
  <2>8. mapping_buffers' = [mapping_buffers EXCEPT ![t] =
                              [valid_idx |-> idx, data_buffer |-> data]]
    BY <2>1 DEF data, idx
  <2> QED
    BY <2>1, <2>2, <2>7, <2>8
<1> QED
  BY <1>1, <1>2, <1>3, <1>4, <1>5 DEF can_interface_receive

\* can_interface_send takes only what it can cut up.
LEMMA StartSendKeeps ==
    ASSUME EndsOK, NEW p \in Packets, StartSend(p)
    PROVE  EndsOK'
<1> USE DEF EndsOK
<1>1. p.id \in Ids /\ p.length \in 0..255
  BY PacketTypes
<1>2. UNCHANGED <<tx, mapping_buffers, losses>>
  BY DEF StartSend, receiver, lossy
<1>3. CASE UNCHANGED sender
  <2>1. component_state' \in {"ok", "error"}
    BY DEF StartSend
  <2> QED
    BY <1>2, <1>3, <2>1 DEF sender, OutOK
<1>4. CASE ~UNCHANGED sender
  <2>1. /\ IsWrapped(p.id) \/ p.id \in Mapped
        /\ out' = [id |-> p.id, n |-> sent[p.id] + 1, remaining |-> p.length, i |-> 0]
        /\ sent' = [sent EXCEPT ![p.id] = sent[p.id] + 1]
        /\ UNCHANGED component_state
    BY <1>4 DEF StartSend
  <2>2. sent[p.id] + 1 \in Nat
    BY <1>1
  <2>3. out' \in Outgoing /\ out'.id = p.id
    BY <1>1, <2>1, <2>2 DEF Outgoing, MAX_SEQNO
  <2>4. sent' \in [Ids -> Nat]
    BY <1>1, <2>1, <2>2
  <2>5. OutOK'
    BY <2>1, <2>3 DEF OutOK
  <2> QED
    BY <1>2, <2>1, <2>4, <2>5
<1> QED
  BY <1>3, <1>4

\* Every step of the bus keeps the two ends as they should be.
LEMMA BusKeeps == ASSUME EndsOK, Next PROVE EndsOK'
<1> USE DEF EndsOK
<1>1. CASE \E p \in Packets : StartSend(p)
  BY <1>1, StartSendKeeps
<1>2. CASE SendFrame
  <2>1. OutOK' /\ component_state' \in {"ok", "error"}
    BY <1>2, AdvanceKeeps DEF SendFrame
  <2>2. NextFrame \in Frames
    BY <1>2, NextIsFrame DEF SendFrame
  <2>3. tx' \in Seq(Frames) /\ Len(tx') <= TxMailboxes
    BY <1>2, <2>2, BoundAssumption DEF SendFrame
  <2> QED
    BY <1>2, <2>1, <2>3 DEF SendFrame, receiver, lossy
<1>3. CASE LoseFrame
  <2>1. OutOK' /\ component_state' \in {"ok", "error"}
    BY <1>3, AdvanceKeeps DEF LoseFrame
  <2>2. losses' \in 0..MaxLosses
    BY <1>3, BoundAssumption DEF LoseFrame
  <2> QED
    BY <1>3, <2>1, <2>2 DEF LoseFrame, receiver
<1>4. CASE Arrive
  <2>1. PICK k \in 1..Len(tx) :
           /\ tx' = Without(k)
           /\ can_interface_receive(tx[k])
           /\ UNCHANGED <<sender, losses>>
    BY <1>4 DEF Arrive, lossy
  <2>2. tx[k] \in AnyFrames
    <3>1. tx[k] \in Frames
      OBVIOUS
    <3> QED
      BY <3>1 DEF Frames, AnyFrames
  <2>3. mapping_buffers' \in [Mapped -> Buffers] /\ component_state' \in {"ok", "error"}
    BY <2>1, <2>2, ReceiveKeeps
  <2>4. Len(tx) - 1 \in Nat /\ Len(tx) - 1 <= TxMailboxes
    BY BoundAssumption
  <2>5. \A j \in 1..Len(tx) - 1 : (IF j < k THEN tx[j] ELSE tx[j + 1]) \in Frames
    OBVIOUS
  <2>6. tx' \in Seq(Frames) /\ Len(tx') <= TxMailboxes
    <3>1. Without(k) \in [1..Len(tx) - 1 -> Frames]
      BY <2>5 DEF Without
    <3>2. Without(k) \in Seq(Frames)
      <4>1. Without(k) \in UNION {[1..n -> Frames] : n \in Nat}
        BY <2>4, <3>1, Zenon
      <4> QED
        BY <4>1, SeqDef, Zenon
    <3>3. Len(Without(k)) = Len(tx) - 1
      BY <2>4, <3>1, <3>2, LenProperties
    <3> QED
      BY <2>1, <2>4, <3>2, <3>3
  <2> QED
    BY <2>1, <2>3, <2>6 DEF sender, OutOK
<1> QED
  BY <1>1, <1>2, <1>3, <1>4 DEF Next

-----------------------------------------------------------------------------
(* Files: what a sequence holds, and what a file that is rewritten leaves alone *)

LEMMA Joined ==
    ASSUME NEW s \in Seq(Frames), NEW t \in Seq(Frames)
    PROVE  InSeq(s \o t) = InSeq(s) \cup InSeq(t)
<1>1. /\ s \o t \in Seq(Frames) /\ Len(s \o t) = Len(s) + Len(t)
      /\ \A k \in 1..Len(s) + Len(t) :
            (s \o t)[k] = IF k <= Len(s) THEN s[k] ELSE t[k - Len(s)]
  BY ConcatProperties
<1>2. /\ DOMAIN s = 1..Len(s) /\ DOMAIN t = 1..Len(t) /\ DOMAIN (s \o t) = 1..Len(s \o t)
      /\ Len(s) \in Nat /\ Len(t) \in Nat
  BY <1>1, LenProperties
<1>3. InSeq(s \o t) \subseteq InSeq(s) \cup InSeq(t)
  <2> SUFFICES ASSUME NEW k \in 1..Len(s) + Len(t)
               PROVE  (s \o t)[k] \in InSeq(s) \cup InSeq(t)
    BY <1>1, <1>2 DEF InSeq
  <2>1. CASE k <= Len(s)
    BY <1>1, <1>2, <2>1 DEF InSeq
  <2>2. CASE k > Len(s)
    <3>1. k - Len(s) \in 1..Len(t)
      BY <1>2, <2>2
    <3> QED
      BY <1>1, <1>2, <2>2, <3>1 DEF InSeq
  <2> QED
    BY <1>2, <2>1, <2>2
<1>4. InSeq(s) \subseteq InSeq(s \o t)
  BY <1>1, <1>2 DEF InSeq
<1>5. InSeq(t) \subseteq InSeq(s \o t)
  <2> SUFFICES ASSUME NEW k \in 1..Len(t) PROVE t[k] \in InSeq(s \o t)
    BY <1>2 DEF InSeq
  <2>1. k + Len(s) \in 1..Len(s) + Len(t) /\ ~(k + Len(s) <= Len(s)) /\ k + Len(s) - Len(s) = k
    BY <1>2
  <2>2. (s \o t)[k + Len(s)] = t[k]
    BY <1>1, <2>1
  <2> QED
    BY <1>1, <1>2, <2>1, <2>2 DEF InSeq
<1> QED
  BY <1>3, <1>4, <1>5

LEMMA Pieces ==
    ASSUME NEW s \in Seq(Frames), NEW n \in 0..Len(s)
    PROVE  /\ SubSeq(s, 1, n) \in Seq(Frames) /\ Len(SubSeq(s, 1, n)) = n
           /\ SubSeq(s, n + 1, Len(s)) \in Seq(Frames)
           /\ InSeq(s) = InSeq(SubSeq(s, 1, n)) \cup InSeq(SubSeq(s, n + 1, Len(s)))
<1>1. /\ Len(s) \in Nat /\ DOMAIN s = 1..Len(s) /\ n \in Int
  BY LenProperties
<1>2. /\ SubSeq(s, 1, n) \in Seq(Frames) /\ Len(SubSeq(s, 1, n)) = n
      /\ \A k \in 1..n : SubSeq(s, 1, n)[k] = s[k]
  BY <1>1, SubSeqProperties
<1>3. /\ SubSeq(s, n + 1, Len(s)) \in Seq(Frames)
      /\ Len(SubSeq(s, n + 1, Len(s))) = Len(s) - n
      /\ \A k \in 1..Len(s) - n : SubSeq(s, n + 1, Len(s))[k] = s[n + k]
  <2>1. n + 1 \in 1..Len(s) + 1 /\ Len(s) \in n..Len(s) /\ Len(s) - (n + 1) + 1 = Len(s) - n
    BY <1>1
  <2>2. n + 1 <= Len(s) + 1
    BY <1>1
  <2>3. \A k \in 1..Len(s) - n : n + 1 + k - 1 = n + k
    BY <1>1
  <2>4. /\ SubSeq(s, n + 1, Len(s)) \in Seq(Frames)
        /\ Len(SubSeq(s, n + 1, Len(s))) = IF n + 1 <= Len(s) THEN Len(s) - (n + 1) + 1 ELSE 0
        /\ \A k \in 1..Len(s) - (n + 1) + 1 : SubSeq(s, n + 1, Len(s))[k] = s[n + 1 + k - 1]
    BY <1>1, <2>1, <2>2, SubSeqProperties
  <2> QED
    <3>1. ASSUME NEW k \in 1..Len(s) - n
          PROVE  SubSeq(s, n + 1, Len(s))[k] = s[n + k]
      <4>1. k \in 1..Len(s) - (n + 1) + 1 /\ n + 1 + k - 1 = n + k
        BY <1>1, <2>1, <2>3
      <4> QED
        BY <2>4, <4>1
    <3>2. (IF n + 1 <= Len(s) THEN Len(s) - (n + 1) + 1 ELSE 0) = Len(s) - n
      <4>1. Len(s) \in Int /\ n \in Int /\ n <= Len(s)
        BY <1>1
      <4>2. CASE n + 1 <= Len(s)
        BY <4>1, <4>2
      <4>3. CASE ~(n + 1 <= Len(s))
        <5>1. Len(s) - n = 0
          BY <4>1, <4>3
        <5> QED
          BY <4>3, <5>1
      <4> QED
        BY <4>2, <4>3
    <3> QED
      BY <2>4, <3>1, <3>2
<1>4. SubSeq(s, 1, n) \o SubSeq(s, n + 1, Len(s)) = s
  <2> DEFINE a == SubSeq(s, 1, n)
             b == SubSeq(s, n + 1, Len(s))
  <2>1. /\ a \in Seq(Frames) /\ Len(a) = n /\ \A k \in 1..n : a[k] = s[k]
        /\ b \in Seq(Frames) /\ Len(b) = Len(s) - n
        /\ \A k \in 1..Len(s) - n : b[k] = s[n + k]
    BY <1>2, <1>3
  <2> HIDE DEF a, b
  <2>2. /\ a \o b \in Seq(Frames) /\ Len(a \o b) = Len(a) + Len(b)
        /\ \A k \in 1..Len(a) + Len(b) : (a \o b)[k] = IF k <= Len(a) THEN a[k] ELSE b[k - Len(a)]
    BY <2>1, ConcatProperties
  <2>3. Len(a) + Len(b) = Len(s)
    BY <1>1, <2>1
  <2>4. ASSUME NEW k \in 1..Len(s) PROVE (a \o b)[k] = s[k]
    <3>1. CASE k <= n
      BY <1>1, <2>1, <2>2, <2>3, <3>1
    <3>2. CASE k > n
      <4>1. k - n \in 1..Len(s) - n /\ n + (k - n) = k
        BY <1>1, <3>2
      <4> QED
        BY <1>1, <2>1, <2>2, <2>3, <3>2, <4>1
    <3>3. k \in Int /\ n \in Int
      BY <1>1
    <3>4. k <= n \/ k > n
      BY <3>3
    <3> QED
      BY <3>1, <3>2, <3>4
  <2>5. a \o b = s
    BY <2>2, <2>3, <2>4, SeqEqual
  <2> QED
    BY <2>5 DEF a, b
<1> QED
  BY <1>2, <1>3, <1>4, Joined

LEMMA Rewritten ==
    ASSUME NEW fs \in Seq(Seq(Frames)), NEW k \in DOMAIN fs, NEW s \in Seq(Frames)
    PROVE  /\ [fs EXCEPT ![k] = s] \in Seq(Seq(Frames))
           /\ DOMAIN [fs EXCEPT ![k] = s] = DOMAIN fs
           /\ [fs EXCEPT ![k] = s][k] = s
           /\ \A j \in DOMAIN fs : j # k => [fs EXCEPT ![k] = s][j] = fs[j]
<1>1. k \in 1..Len(fs)
  BY LenProperties
<1>2. [fs EXCEPT ![k] = s] \in Seq(Seq(Frames))
  BY <1>1, ExceptSeq
<1> QED
  BY <1>2

\* The part of the buffer that the file system took is at the end of the file.
LEMMA WrittenFile ==
    ASSUME CardOK, file_idx \in DOMAIN files, NEW n \in 0..Len(packet_buffer), Written(n)
    PROVE  /\ files' \in Seq(Seq(Frames)) /\ DOMAIN files' = DOMAIN files
           /\ files'[file_idx] \in Seq(Frames)
           /\ files'[file_idx] = files[file_idx] \o SubSeq(packet_buffer, 1, n)
           /\ Len(files'[file_idx]) = Len(files[file_idx]) + n
           /\ InSeq(files'[file_idx])
                = InSeq(files[file_idx]) \cup InSeq(SubSeq(packet_buffer, 1, n))
           /\ \A j \in DOMAIN files : j # file_idx => files'[j] = files[j]
<1> DEFINE s == SubSeq(packet_buffer, 1, n)
           t == files[file_idx]
<1>1. s \in Seq(Frames) /\ Len(s) = n
  BY Pieces DEF CardOK
<1>2. t \in Seq(Frames)
  BY DEF CardOK
<1>3. files' = [files EXCEPT ![file_idx] = t \o s]
  BY DEF Written
<1> HIDE DEF s, t
<1>4. /\ t \o s \in Seq(Frames) /\ Len(t \o s) = Len(t) + n
      /\ InSeq(t \o s) = InSeq(t) \cup InSeq(s)
  BY <1>1, <1>2, ConcatProperties, Joined
<1>5. /\ files' \in Seq(Seq(Frames)) /\ DOMAIN files' = DOMAIN files
      /\ files'[file_idx] = t \o s
      /\ \A j \in DOMAIN files : j # file_idx => files'[j] = files[j]
  BY <1>3, <1>4, Rewritten DEF CardOK
<1> QED
  BY <1>4, <1>5 DEF s, t

\* Without its last n frames a file still holds all the others.
LEMMA ShortenedFile ==
    ASSUME CardOK, file_idx \in DOMAIN files, NEW n \in Nat, n <= Len(files[file_idx]),
           files' = [files EXCEPT ![file_idx] =
                        SubSeq(files[file_idx], 1, Len(files[file_idx]) - n)]
    PROVE  /\ files' \in Seq(Seq(Frames)) /\ DOMAIN files' = DOMAIN files
           /\ files'[file_idx] = SubSeq(files[file_idx], 1, Len(files[file_idx]) - n)
           /\ InSeq(files[file_idx])
                = InSeq(files'[file_idx]) \cup
                  InSeq(SubSeq(files[file_idx], Len(files[file_idx]) - n + 1,
                               Len(files[file_idx])))
           /\ \A j \in DOMAIN files : j # file_idx => files'[j] = files[j]
<1> DEFINE t == files[file_idx]
           k == Len(t) - n
<1>1. t \in Seq(Frames)
  BY DEF CardOK
<1>2. k \in 0..Len(t)
  BY <1>1, LenProperties
<1>3. files' = [files EXCEPT ![file_idx] = SubSeq(t, 1, k)]
  OBVIOUS
<1> HIDE DEF t, k
<1>4. /\ SubSeq(t, 1, k) \in Seq(Frames)
      /\ InSeq(t) = InSeq(SubSeq(t, 1, k)) \cup InSeq(SubSeq(t, k + 1, Len(t)))
  BY <1>1, <1>2, Pieces
<1>5. /\ files' \in Seq(Seq(Frames)) /\ DOMAIN files' = DOMAIN files
      /\ files'[file_idx] = SubSeq(t, 1, k)
      /\ \A j \in DOMAIN files : j # file_idx => files'[j] = files[j]
  <2>1. files \in Seq(Seq(Frames)) /\ SubSeq(t, 1, k) \in Seq(Frames)
    BY <1>4 DEF CardOK
  <2> DEFINE s == SubSeq(t, 1, k)
  <2> HIDE DEF s
  <2>2. /\ [files EXCEPT ![file_idx] = s] \in Seq(Seq(Frames))
        /\ DOMAIN [files EXCEPT ![file_idx] = s] = DOMAIN files
        /\ [files EXCEPT ![file_idx] = s][file_idx] = s
        /\ \A j \in DOMAIN files : j # file_idx => [files EXCEPT ![file_idx] = s][j] = files[j]
    BY <2>1, Rewritten DEF s
  <2> QED
    BY <1>3, <2>2 DEF s
<1> QED
  BY <1>4, <1>5 DEF t, k

-----------------------------------------------------------------------------
(* The card *)

\* To open a file changes nothing on the card, and the numbers are tried in turn.
LEMMA OpeningKeeps ==
    ASSUME CardOK, TryInit \/ ConnectFails \/ Connect \/ Exists \/ CreateFails
    PROVE  CardOK'
<1> USE DEF card, states, replay, ghosts, Reading, Places
<1>1. CASE TryInit
  BY <1>1 DEF TryInit, CardOK
<1>2. CASE ConnectFails
  BY <1>2 DEF ConnectFails, CardOK
<1>3. CASE Connect
  <2>1. Len(files) \in Nat
    BY DEF CardOK
  <2> QED
    BY <1>3, <2>1 DEF Connect, CardOK
<1>4. CASE Exists
  <2>1. Len(files) \in Nat /\ DOMAIN files = 1..Len(files)
    BY DEF CardOK
  <2>2. file_idx' \in 1..Len(files) + 1
    BY <1>4, <2>1 DEF Exists
  <2> QED
    BY <1>4, <2>1, <2>2 DEF Exists, CardOK
<1>5. CASE CreateFails
  BY <1>5 DEF CreateFails, CardOK
<1> QED
  BY <1>1, <1>2, <1>3, <1>4, <1>5

LEMMA CreateKeeps == ASSUME CardOK, Create PROVE CardOK'
<1>1. /\ at = "create" /\ at' \in {"write", "ready"}
      /\ files \in Seq(Seq(Frames)) /\ file_idx \notin DOMAIN files
      /\ files' = Append(files, <<>>)
      /\ UNCHANGED <<packet_buffer, file_idx, unsynced, retrying, record, playing>>
  BY DEF Create, CardOK, card, replay
<1>2. <<>> \in Seq(Frames)
  OBVIOUS
<1>3. files' \in Seq(Seq(Frames)) /\ Len(files') = Len(files) + 1 /\ Len(files) \in Nat
  BY <1>1, <1>2, AppendProperties
<1>4. DOMAIN files = 1..Len(files) /\ DOMAIN files' = 1..Len(files) + 1
  BY <1>1, <1>3, LenProperties
<1>5. file_idx \in 1..Len(files) + 1 /\ unsynced = 0
  BY <1>1 DEF CardOK
<1> QED
  BY <1>1, <1>3, <1>4, <1>5 DEF CardOK, Places, Reading

\* The writes: what was taken is at the end of the open file.
LEMMA WritesKeep == ASSUME CardOK, Write \/ WriteShort \/ WriteFails PROVE CardOK'
<1>1. PICK n \in 0..Len(packet_buffer) :
         /\ Written(n) /\ at = "write"
         /\ unsynced' \in {0, unsynced, unsynced + n}
         /\ \/ at' = "ready" /\ packet_buffer' = <<>>
            \/ at' = "close" /\ packet_buffer' = packet_buffer /\ retrying'
         /\ UNCHANGED <<file_idx, record, playing>>
  <2>1. Len(packet_buffer) \in Nat
    BY DEF CardOK
  <2>2. CASE Write
    BY <2>1, <2>2 DEF Write, Flushed, replay
  <2>3. CASE WriteShort
    <3>1. PICK n \in 0..Len(packet_buffer) - 1 : Written(n)
      BY <2>3 DEF WriteShort
    <3>2. n \in 0..Len(packet_buffer)
      BY <2>1, <3>1
    <3> QED
      BY <2>3, <3>1, <3>2 DEF WriteShort, Flushed, replay
  <2>4. CASE WriteFails
    <3>1. PICK n \in 0..(IF full THEN 0 ELSE Len(packet_buffer)) :
             Written(n) /\ unsynced' = unsynced + n
      BY <2>4 DEF WriteFails
    <3>2. n \in 0..Len(packet_buffer)
      BY <2>1, <3>1
    <3> QED
      BY <2>4, <3>1, <3>2 DEF WriteFails, replay
  <2> QED
    BY <2>2, <2>3, <2>4
<1>2. file_idx \in DOMAIN files /\ unsynced \in Nat /\ n \in Nat
  BY <1>1 DEF CardOK
<1>3. /\ files' \in Seq(Seq(Frames)) /\ DOMAIN files' = DOMAIN files
      /\ Len(files'[file_idx]) = Len(files[file_idx]) + n
  BY <1>1, <1>2, WrittenFile
<1>4. Len(files[file_idx]) \in Nat /\ unsynced <= Len(files[file_idx])
  BY <1>2 DEF CardOK
<1>5. unsynced' \in Nat /\ unsynced' <= Len(files'[file_idx])
  <2>1. PICK before, after : before = Len(files[file_idx]) /\ after = Len(files'[file_idx])
    OBVIOUS
  <2>2. before \in Nat /\ unsynced <= before /\ after = before + n
    BY <1>3, <1>4, <2>1
  <2>3. unsynced' \in Nat /\ unsynced' <= after
    BY <1>1, <1>2, <2>2
  <2> QED
    BY <2>1, <2>3
<1>6. packet_buffer' \in Seq(Frames) /\ at' \in {"ready", "close"}
  <2>1. packet_buffer \in Seq(Frames) /\ <<>> \in Seq(Frames)
    BY DEF CardOK
  <2> QED
    BY <1>1, <2>1
<1>7. ~Reading
  BY <1>1 DEF CardOK, Reading
<1> QED
  BY <1>1, <1>2, <1>3, <1>5, <1>6, <1>7 DEF CardOK, Places, Reading

\* Closing a file, and the loss of power, may cost its end.
LEMMA CloseKeeps == ASSUME CardOK, Close PROVE CardOK'
<1>1. PICK n \in {0, unsynced} : Forget(n)
  BY DEF Close
<1>2. files' \in Seq(Seq(Frames)) /\ DOMAIN files' = DOMAIN files
  <2>1. CASE n = 0
    BY <1>1, <2>1 DEF Forget, CardOK
  <2>2. CASE n # 0
    <3>1. /\ file_idx \in DOMAIN files /\ unsynced \in Nat /\ n = unsynced
          /\ unsynced <= Len(files[file_idx])
      BY <1>1, <2>2 DEF CardOK
    <3> QED
      BY <1>1, <2>2, <3>1, ShortenedFile DEF Forget
  <2> QED
    BY <2>1, <2>2
<1> QED
  BY <1>2 DEF Close, CardOK, Places, Reading, replay

LEMMA PowerLossKeeps == ASSUME CardOK, PowerLoss PROVE CardOK'
<1>1. files' \in Seq(Seq(Frames)) /\ DOMAIN files' = DOMAIN files
  <2>1. CASE unsynced = 0
    BY <2>1 DEF PowerLoss, CardOK
  <2>2. CASE unsynced # 0
    <3>1. /\ file_idx \in DOMAIN files /\ unsynced \in Nat
          /\ unsynced <= Len(files[file_idx])
      BY <2>2 DEF CardOK
    <3> QED
      BY <2>2, <3>1, ShortenedFile DEF PowerLoss
  <2> QED
    BY <2>1, <2>2
<1> QED
  BY <1>1 DEF PowerLoss, CardOK, Places, Reading, replay

\* Types are kept by every step.
LEMMA LogTypeKept == ASSUME LogTypeOK, [LogNext]_allVars PROVE LogTypeOK'
<1> USE DEF LogTypeOK
<1>1. CASE medium = "bus" /\ Next /\ UNCHANGED logVars
  BY <1>1, BusKeeps DEF logVars, card, replay, CardOK, Reading
<1>2. ASSUME NEW p \in Packets, LogPacket(p) PROVE LogTypeOK'
  BY <1>2, StartSendKeeps DEF LogPacket, logVars, card, replay, CardOK, Reading
<1>3. CASE AppendFrame
  <2>1. OutOK' /\ component_state' \in {"ok", "error"} /\ NextFrame \in Frames
    BY <1>3, AdvanceKeeps, NextIsFrame DEF AppendFrame
  <2>2. packet_buffer' \in Seq(Frames)
    BY <1>3, <2>1, AppendProperties DEF AppendFrame, CardOK
  <2>3. EndsOK'
    BY <1>3, <2>1 DEF AppendFrame, EndsOK, receiver, lossy
  <2>4. /\ at = "ready" /\ at' \in {"ready", "write"}
        /\ UNCHANGED <<files, file_idx, unsynced, retrying, record, playing>>
    BY <1>3 DEF AppendFrame, card, replay
  <2> QED
    BY <2>2, <2>3, <2>4 DEF CardOK, Places, Reading
<1>4. CASE LogThread
  <2>1. UNCHANGED vars
    BY <1>4 DEF LogThread, TryInit, ConnectFails, Connect, Exists, Create, CreateFails,
                Write, WriteShort, WriteFails, Close
  <2>2. EndsOK'
    BY <2>1 DEF vars, sender, receiver, lossy, EndsOK, OutOK
  <2> QED
    BY <1>4, <2>2, OpeningKeeps, CreateKeeps, WritesKeep, CloseKeeps DEF LogThread
<1>5. CASE PowerLoss
  <2>1. EndsOK'
    BY <1>5 DEF PowerLoss, EndsOK, OutOK, receiver, lossy, InitialState
  <2> QED
    BY <1>5, <2>1, PowerLossKeeps
<1>6. CASE StartReplay
  BY <1>6 DEF StartReplay, CardOK, EndsOK, OutOK, vars, sender, receiver, lossy, card, Reading
<1>7. CASE ReadRecord \/ ReadEnd
  <2>1. /\ playing \in DOMAIN files /\ files[playing] \in Seq(Frames)
        /\ record \in Nat /\ Len(files[playing]) \in Nat
    BY <1>7 DEF ReadRecord, ReadEnd, CardOK
  <2>0. Frames \subseteq AnyFrames
    BY DEF Frames, AnyFrames
  <2>2. PICK f \in AnyFrames : can_interface_receive(f)
    <3>1. CASE ReadRecord
      <4>1. record \in 1..Len(files[playing])
        <5>1. record <= Len(files[playing]) /\ record # 0
          BY <3>1 DEF ReadRecord, CardOK
        <5> QED
          BY <2>1, <5>1
      <4>2. files[playing][record] \in Frames
        BY <2>1, <4>1, ElementOfSeq
      <4> QED
        BY <3>1, <4>2, <2>0 DEF ReadRecord
    <3>2. CASE ReadEnd
      <4>1. PICK f \in (IF record = 1 THEN Uninitialised ELSE {files[playing][record - 1]}) :
               can_interface_receive(f)
        BY <3>2 DEF ReadEnd
      <4>2. CASE record = 1
        <5>1. f \in Uninitialised
          BY <4>1, <4>2
        <5>2. Uninitialised \subseteq AnyFrames
          BY StrayTypes
        <5> QED
          BY <4>1, <5>1, <5>2
      <4>3. CASE record # 1
        <5>1. record - 1 \in 1..Len(files[playing])
          BY <2>1, <3>2, <4>3 DEF ReadEnd
        <5> QED
          BY <2>1, <4>1, <4>3, <5>1, <2>0
      <4> QED
        BY <4>2, <4>3
    <3> QED
      BY <1>7, <3>1, <3>2
  <2>3. mapping_buffers' \in [Mapped -> Buffers] /\ component_state' \in {"ok", "error"}
    BY <2>2, ReceiveKeeps
  <2>4. EndsOK'
    BY <1>7, <2>3 DEF ReadRecord, ReadEnd, EndsOK, OutOK, sender, lossy
  <2>5. CardOK'
    <3>1. /\ UNCHANGED <<at, retrying, packet_buffer, files, file_idx, unsynced, playing>>
          /\ record' = record + 1
      BY <1>7 DEF ReadRecord, ReadEnd, card
    <3>2. record' \in Nat /\ record' # 0
      BY <2>1, <3>1
    <3> QED
      BY <3>1, <3>2 DEF CardOK, Reading
  <2> QED
    BY <2>4, <2>5
<1>8. CASE UNCHANGED allVars
  BY <1>8 DEF allVars, logVars, vars, sender, receiver, lossy, card, replay, EndsOK, OutOK, CardOK,
              Reading
<1> QED
  BY <1>1, <1>2, <1>3, <1>4, <1>5, <1>6, <1>7, <1>8 DEF LogNext

-----------------------------------------------------------------------------
(* What the card promises *)

LEMMA LogInitOK == LogInit => LogTypeOK /\ FullCard /\ FramesKept
<1> SUFFICES ASSUME LogInit PROVE LogTypeOK /\ FullCard /\ FramesKept
  OBVIOUS
<1>1. EmptyBuffer \in Buffers
  BY DEF EmptyBuffer, Buffers, MAX_SEQNO
<1>2. EndsOK
  BY <1>1, BoundAssumption DEF LogInit, Init, EndsOK, OutOK, InitialState
<1>3. <<>> \in Seq(Frames) /\ <<>> \in Seq(Seq(Frames)) /\ Len(<<>>) = 0
  OBVIOUS
<1>4. CardOK
  BY <1>3 DEF LogInit, CardOK, Places, Reading
<1> QED
  BY <1>2, <1>4 DEF LogInit, LogTypeOK, FullCard, FramesKept

\* The recovery of a full card ends in another write, which finds it full again.
LEMMA FullCardKept == ASSUME LogTypeOK, FullCard, [LogNext]_allVars PROVE FullCard'
<1> USE DEF FullCard, CutIsReported, logVars, card, states, ghosts
<1>1. CASE medium = "bus" /\ Next /\ UNCHANGED logVars
  BY <1>1
<1>2. ASSUME NEW p \in Packets, LogPacket(p) PROVE FullCard'
  BY <1>2 DEF LogPacket
<1>3. CASE AppendFrame
  BY <1>3 DEF AppendFrame
<1>4. CASE LogThread
  <2>1. CASE TryInit \/ ConnectFails \/ Connect \/ Exists \/ Create
    BY <2>1 DEF TryInit, ConnectFails, Connect, Exists, Create
  <2>2. CASE CreateFails
    BY <2>2 DEF CreateFails
  <2>3. CASE Write
    BY <2>3 DEF Write
  <2>4. CASE WriteShort
    BY <2>4 DEF WriteShort, Flushed
  <2>5. CASE WriteFails
    BY <2>5 DEF WriteFails
  <2>6. CASE Close
    BY <2>6 DEF Close, LogTypeOK, CardOK
  <2> QED
    BY <1>4, <2>1, <2>2, <2>3, <2>4, <2>5, <2>6 DEF LogThread
<1>5. CASE PowerLoss
  BY <1>5 DEF PowerLoss
<1>6. CASE StartReplay \/ ReadRecord \/ ReadEnd
  BY <1>6 DEF StartReplay, ReadRecord, ReadEnd
<1>7. CASE UNCHANGED allVars
  BY <1>7 DEF allVars
<1> QED
  BY <1>1, <1>2, <1>3, <1>4, <1>5, <1>6, <1>7 DEF LogNext

\* A frame that is still owed stays where it was, unless it moves from the buffer
\* to the open file or stays in the buffer when the file loses its end.
LEMMA StillKept ==
    ASSUME FramesKept, owed' \subseteq owed,
           DOMAIN files' = DOMAIN files, file_idx \in DOMAIN files,
           \A j \in DOMAIN files : j # file_idx => files'[j] = files[j],
           \A f \in owed' : f \in InSeq(packet_buffer) =>
                f \in InSeq(packet_buffer') \/ f \in InSeq(files'[file_idx]),
           \A f \in owed' : f \in InSeq(files[file_idx]) =>
                f \in InSeq(packet_buffer') \/ f \in InSeq(files'[file_idx])
    PROVE  FramesKept'
<1> SUFFICES ASSUME NEW f \in owed'
             PROVE  f \in InSeq(packet_buffer') \/ \E k \in DOMAIN files' : f \in InSeq(files'[k])
  BY DEF FramesKept, InSeq
<1>1. CASE f \in InSeq(packet_buffer)
  BY <1>1
<1>2. ASSUME NEW k \in DOMAIN files, f \in InSeq(files[k])
      PROVE  f \in InSeq(packet_buffer') \/ \E j \in DOMAIN files' : f \in InSeq(files'[j])
  <2>1. CASE k = file_idx
    BY <1>2, <2>1
  <2>2. CASE k # file_idx
    BY <1>2, <2>2
  <2> QED
    BY <2>1, <2>2
<1> QED
  BY <1>1, <1>2 DEF FramesKept

LEMMA FramesKeptKept == ASSUME LogTypeOK, FramesKept, [LogNext]_allVars PROVE FramesKept'
<1> USE DEF logVars, card, ghosts
<1> DEFINE Same == UNCHANGED <<packet_buffer, files, owed>>
<1>0. CASE Same
  BY <1>0 DEF FramesKept, InSeq
<1>1. CASE medium = "bus" /\ Next /\ UNCHANGED logVars
  BY <1>0, <1>1
<1>2. ASSUME NEW p \in Packets, LogPacket(p) PROVE FramesKept'
  BY <1>0, <1>2 DEF LogPacket
<1>3. CASE AppendFrame
  <2>1. /\ packet_buffer \in Seq(Frames) /\ NextFrame \in Frames
        /\ packet_buffer' = Append(packet_buffer, NextFrame)
        /\ owed' = owed \cup {NextFrame} /\ files' = files
    BY <1>3, NextIsFrame DEF AppendFrame, LogTypeOK, CardOK
  <2>2. InSeq(packet_buffer') = InSeq(packet_buffer) \cup {NextFrame}
    <3> DEFINE g == NextFrame
    <3>1. g \in Frames /\ packet_buffer' = Append(packet_buffer, g)
      BY <2>1
    <3> HIDE DEF g
    <3>2. /\ packet_buffer' \in Seq(Frames) /\ Len(packet_buffer') = Len(packet_buffer) + 1
          /\ \A k \in 1..Len(packet_buffer) : packet_buffer'[k] = packet_buffer[k]
          /\ packet_buffer'[Len(packet_buffer) + 1] = g
      BY <2>1, <3>1, AppendProperties
    <3>3. /\ DOMAIN packet_buffer = 1..Len(packet_buffer) /\ Len(packet_buffer) \in Nat
          /\ DOMAIN packet_buffer' = 1..Len(packet_buffer) + 1
      BY <2>1, <3>2, LenProperties
    <3>4. 1..Len(packet_buffer) + 1 = 1..Len(packet_buffer) \cup {Len(packet_buffer) + 1}
      BY <3>3
    <3>5. InSeq(packet_buffer') = InSeq(packet_buffer) \cup {g}
      BY <3>2, <3>3, <3>4 DEF InSeq
    <3> QED
      BY <3>5 DEF g
  <2>3. ASSUME NEW f \in owed'
        PROVE  f \in InSeq(packet_buffer') \/ \E k \in DOMAIN files : f \in InSeq(files[k])
    BY <2>1, <2>2 DEF FramesKept
  <2> QED
    BY <2>1, <2>3 DEF FramesKept, InSeq
<1>4. CASE TryInit \/ ConnectFails \/ Connect \/ Exists \/ CreateFails
  BY <1>0, <1>4 DEF TryInit, ConnectFails, Connect, Exists, CreateFails
<1>5. CASE Create
  <2>1. /\ files \in Seq(Seq(Frames)) /\ files' = Append(files, <<>>)
        /\ UNCHANGED <<packet_buffer, owed>>
    BY <1>5 DEF Create, LogTypeOK, CardOK
  <2>2. <<>> \in Seq(Frames)
    OBVIOUS
  <2>3. \A k \in DOMAIN files : k \in DOMAIN files' /\ files'[k] = files[k]
    <3>1. /\ files' \in Seq(Seq(Frames)) /\ Len(files') = Len(files) + 1
          /\ \A k \in 1..Len(files) : files'[k] = files[k]
      BY <2>1, <2>2, AppendProperties
    <3>2. /\ DOMAIN files = 1..Len(files) /\ DOMAIN files' = 1..Len(files) + 1
          /\ Len(files) \in Nat
      BY <2>1, <3>1, LenProperties
    <3> QED
      BY <3>1, <3>2
  <2> QED
    BY <2>1, <2>3 DEF FramesKept, InSeq
<1>6. CASE Write \/ WriteShort \/ WriteFails
  <2>1. packet_buffer \in Seq(Frames) /\ Len(packet_buffer) \in Nat /\ file_idx \in DOMAIN files
    BY <1>6 DEF Write, WriteShort, WriteFails, LogTypeOK, CardOK
  <2>2. PICK n \in 0..Len(packet_buffer) :
           /\ Written(n)
           /\ owed' \subseteq owed
           /\ \/ packet_buffer' = packet_buffer
              \/ \A f \in owed' :
                    f \notin InSeq(SubSeq(packet_buffer, n + 1, Len(packet_buffer)))
    <3>1. CASE Write
      <4>1. SubSeq(packet_buffer, Len(packet_buffer) + 1, Len(packet_buffer)) = <<>>
        BY <2>1
      <4>2. InSeq(SubSeq(packet_buffer, Len(packet_buffer) + 1, Len(packet_buffer))) = {}
        BY <4>1 DEF InSeq
      <4>3. Written(Len(packet_buffer)) /\ owed' \subseteq owed
        BY <3>1 DEF Write
      <4>4. Len(packet_buffer) \in 0..Len(packet_buffer)
        BY <2>1
      <4> QED
        BY <4>2, <4>3, <4>4
    <3>2. CASE WriteShort
      <4>1. PICK n \in 0..Len(packet_buffer) - 1 :
               /\ Written(n)
               /\ owed' = owed \ InSeq(SubSeq(packet_buffer, n + 1, Len(packet_buffer)))
        BY <3>2 DEF WriteShort
      <4>2. n \in 0..Len(packet_buffer)
        BY <2>1
      <4> QED
        BY <4>1, <4>2
    <3>3. CASE WriteFails
      <4>1. PICK n \in 0..(IF full THEN 0 ELSE Len(packet_buffer)) : Written(n)
        BY <3>3 DEF WriteFails
      <4>2. n \in 0..Len(packet_buffer)
        BY <2>1
      <4> QED
        BY <3>3, <4>1, <4>2 DEF WriteFails
    <3> QED
      BY <1>6, <3>1, <3>2, <3>3
  <2>3. /\ DOMAIN files' = DOMAIN files
        /\ InSeq(files'[file_idx])
             = InSeq(files[file_idx]) \cup InSeq(SubSeq(packet_buffer, 1, n))
        /\ \A j \in DOMAIN files : j # file_idx => files'[j] = files[j]
    BY <2>1, <2>2, WrittenFile DEF LogTypeOK
  <2>4. InSeq(packet_buffer) = InSeq(SubSeq(packet_buffer, 1, n)) \cup
                               InSeq(SubSeq(packet_buffer, n + 1, Len(packet_buffer)))
    BY <2>1, Pieces
  <2>5. \A f \in owed' : f \in InSeq(packet_buffer) =>
            f \in InSeq(packet_buffer') \/ f \in InSeq(files'[file_idx])
    BY <2>2, <2>3, <2>4
  <2> QED
    BY <2>1, <2>2, <2>3, <2>5, StillKept
<1>7. CASE Close
  <2>1. PICK n \in {0, unsynced} : Forget(n)
    BY <1>7 DEF Close
  <2>2. CASE n = 0
    BY <1>0, <1>7, <2>1, <2>2 DEF Forget, Close
  <2>3. CASE n # 0
    <3>1. /\ file_idx \in DOMAIN files /\ unsynced \in Nat /\ n = unsynced
          /\ unsynced <= Len(files[file_idx]) /\ files[file_idx] \in Seq(Frames)
      BY <2>1, <2>3 DEF LogTypeOK, CardOK
    <3>2. /\ files' = [files EXCEPT ![file_idx] =
                          SubSeq(files[file_idx], 1, Len(files[file_idx]) - n)]
          /\ owed' = owed \ (InSeq(SubSeq(files[file_idx], Len(files[file_idx]) - n + 1,
                                          Len(files[file_idx]) - n + n))
                               \ InSeq(packet_buffer))
          /\ packet_buffer' = packet_buffer
      BY <1>7, <2>1, <2>3 DEF Forget, Close
    <3>3. Len(files[file_idx]) - n + n = Len(files[file_idx])
      BY <3>1
    <3>4. /\ DOMAIN files' = DOMAIN files
          /\ InSeq(files[file_idx])
                = InSeq(files'[file_idx]) \cup
                  InSeq(SubSeq(files[file_idx], Len(files[file_idx]) - n + 1,
                               Len(files[file_idx])))
          /\ \A j \in DOMAIN files : j # file_idx => files'[j] = files[j]
      BY <3>1, <3>2, ShortenedFile DEF LogTypeOK
    <3>5. /\ owed' \subseteq owed
          /\ \A f \in owed' : f \in InSeq(files[file_idx]) =>
                f \in InSeq(packet_buffer') \/ f \in InSeq(files'[file_idx])
      BY <3>2, <3>3, <3>4
    <3> QED
      BY <3>1, <3>2, <3>4, <3>5, StillKept
  <2> QED
    BY <2>2, <2>3
<1>8. CASE PowerLoss
  <2>1. CASE unsynced = 0
    <3>1. files' = files /\ owed' = owed \ InSeq(packet_buffer)
      BY <1>8, <2>1 DEF PowerLoss
    <3> QED
      BY <3>1 DEF FramesKept, InSeq
  <2>2. CASE unsynced # 0
    <3>1. /\ file_idx \in DOMAIN files /\ unsynced \in Nat
          /\ unsynced <= Len(files[file_idx]) /\ files[file_idx] \in Seq(Frames)
      BY <2>2 DEF LogTypeOK, CardOK
    <3>2. /\ files' = [files EXCEPT ![file_idx] =
                          SubSeq(files[file_idx], 1, Len(files[file_idx]) - unsynced)]
          /\ owed' = owed \ (InSeq(packet_buffer) \cup
                       InSeq(SubSeq(files[file_idx], Len(files[file_idx]) - unsynced + 1,
                                    Len(files[file_idx]))))
      BY <1>8, <2>2 DEF PowerLoss
    <3>3. /\ DOMAIN files' = DOMAIN files
          /\ InSeq(files[file_idx])
                = InSeq(files'[file_idx]) \cup
                  InSeq(SubSeq(files[file_idx], Len(files[file_idx]) - unsynced + 1,
                               Len(files[file_idx])))
          /\ \A j \in DOMAIN files : j # file_idx => files'[j] = files[j]
      BY <3>1, <3>2, ShortenedFile DEF LogTypeOK
    <3>4. /\ owed' \subseteq owed
          /\ \A f \in owed' : f \notin InSeq(packet_buffer)
          /\ \A f \in owed' : f \in InSeq(files[file_idx]) => f \in InSeq(files'[file_idx])
      BY <3>2, <3>3
    <3> QED
      BY <3>1, <3>3, <3>4, StillKept
  <2> QED
    BY <2>1, <2>2
<1>9. CASE StartReplay \/ ReadRecord \/ ReadEnd
  BY <1>0, <1>9 DEF StartReplay, ReadRecord, ReadEnd
<1>10. CASE UNCHANGED allVars
  BY <1>0, <1>10 DEF allVars
<1> QED
  BY <1>1, <1>2, <1>3, <1>4, <1>5, <1>6, <1>7, <1>8, <1>9, <1>10 DEF LogNext, LogThread

\* What is always true of the two ends, of the card, and of the frames on it.
LEMMA LogInvariant == LogSpec => [](LogTypeOK /\ FullCard /\ FramesKept)
<1>1. LogTypeOK /\ FullCard /\ FramesKept /\ [LogNext]_allVars
        => (LogTypeOK /\ FullCard /\ FramesKept)'
  BY LogTypeKept, FullCardKept, FramesKeptKept
<1> QED
  BY <1>1, LogInitOK, PTL DEF LogSpec

\* Type correctness of both ends: neither the number of a frame nor the index of a
\* buffer leaves its range, whatever was lost, replayed or read past the end of a file.
THEOREM CanTypeCorrect == LogSpec => []CanTypeOK
<1>1. LogTypeOK => CanTypeOK
  <2> SUFFICES ASSUME EndsOK PROVE CanTypeOK
    BY DEF LogTypeOK
  <2>1. \A t \in Mapped : mapping_buffers[t].valid_idx \in 0..MAX_SEQNO
    BY DEF EndsOK, Buffers
  <2>2. out = None \/ (out.id \in Ids /\ out.i \in 0..MAX_SEQNO - 1 /\ out.remaining \in 0..255)
    BY DEF EndsOK, OutOK, Outgoing
  <2> QED
    BY <2>1, <2>2 DEF CanTypeOK, EndsOK
<1> QED
  BY <1>1, LogInvariant, PTL

\* flush_buffer: what can_send was given waits in the buffer or is in a file, through
\* any number of failed writes, new files and restarts.
THEOREM LogKeepsFrames == LogSpec => []FramesKept
  BY LogInvariant, PTL

\* microsd.c: since a frame was cut off, the card is in error whenever the thread
\* takes packets, however often a recovery has stored that it is well.
THEOREM FullCardIsReported == LogSpec => []CutIsReported
<1>1. FullCard => CutIsReported
  BY DEF FullCard, CutIsReported
<1> QED
  BY <1>1, LogInvariant, PTL

-----------------------------------------------------------------------------
(* Whole packets: the invariant *)

PartLen(t, i) ==
    IF i + 1 < size_in_packets(t) THEN 8 ELSE can_mappings[t].size_in_bytes - 8 * i

\* A wrapped packet of this id may have that length
WrappedLen(id, len) == len = 8 \/ \E p \in Packets : p.id = id /\ p.length = len

\* A frame is what its sender made of its part of the packet.
WellFormed(f) ==
    IF IsWrapped(f.id) THEN f.sid = f.id - ts_m3_can /\ f.part = 0 /\ WrappedLen(f.id, f.len)
    ELSE /\ f.id \in Mapped
         /\ f.part < size_in_packets(f.id)
         /\ f.sid = getCanID(f.id, f.part)
         /\ f.len = PartLen(f.id, f.part)

\* The packet that is being cut up is the last one of its id, and what remains of it
\* begins at its next frame.
CuttingOK ==
    out # None =>
        /\ out.n = sent[out.id] /\ out.n > 0
        /\ IF IsWrapped(out.id)
           THEN out.i = 0 /\ \E p \in Packets : p.id = out.id /\ p.length = out.remaining
                          /\ out.remaining <= 8
           ELSE /\ out.i < size_in_packets(out.id)
                /\ out.i * 8 + out.remaining = can_mappings[out.id].size_in_bytes

\* A packet that lost a frame, or was in the controller together with another of its id.
\* Frames of two packets come together only if both are such packets.
Marked(id, n) == <<id, n>> \in damaged \cup overlapped
Together(id, m, n) == m # n => Marked(id, m) /\ Marked(id, n)

\* What is in a buffer was sent, and may come together.
Valid(t) == mapping_buffers[t].valid_idx
Number(t, k) == mapping_buffers[t].data_buffer[k].n
BufferOK(t) ==
    /\ Valid(t) < size_in_packets(t)
    /\ \A k \in 0..Valid(t) - 1 :
         /\ t \in Ids /\ Number(t, k) \in 1..sent[t]
         /\ mapping_buffers[t].data_buffer[k]
              = [id |-> t, n |-> Number(t, k), part |-> k, len |-> 8]
         /\ \A j \in 0..Valid(t) - 1 : Together(t, Number(t, j), Number(t, k))

\* On the bus: each frame waits once.  One that is not of the last packet of its id waits
\* with a frame of each that was sent since, or did.
Coming(id) == {f \in InSeq(tx) : f.id = id}
Cutting(id) == out # None /\ out.id = id
WaitingOK ==
    /\ \A j, k \in DOMAIN tx : tx[j] = tx[k] => j = k
    /\ \A f \in InSeq(tx) :
         /\ WellFormed(f) /\ f.n \in 1..sent[f.id]
         /\ Cutting(f.id) /\ f.n = sent[f.id] => f.part < out.i
         /\ f.n < sent[f.id] => \A m \in f.n..sent[f.id] : <<f.id, m>> \in overlapped
    /\ \A f, g \in InSeq(tx) : f.id = g.id /\ f.n = g.n /\ f.part = g.part => f = g

\* The part of a packet that is cut off next
CutOff(t) == IF Cutting(t) THEN out.i ELSE size_in_packets(t)
Present(t) == Cutting(t) \/ Coming(t) # {}

\* What is in the buffer is of marked packets, or of the last one, and more is to come of
\* it.  Of a last packet that is not marked the parts from p on wait, and those before p
\* are all that is in the buffer.
MixedOK(t) ==
    \A k \in 0..Valid(t) - 1 :
        Marked(t, Number(t, k)) \/ (Number(t, k) = sent[t] /\ Present(t))
Waits(t, p) == {f.part : f \in Coming(t)} = p..CutOff(t) - 1
AloneOK(t) ==
    Present(t) /\ ~Marked(t, sent[t]) =>
        \E p \in 0..CutOff(t) :
            /\ Waits(t, p)
            /\ Valid(t) > 0 /\ p > 0 =>
                 Valid(t) = p /\ \A k \in 0..p - 1 : Number(t, k) = sent[t]

\* The packets whose first part has arrived come in order, and before those whose first
\* part has not.
InOrder(id, m, n) == m < n \/ (m > n /\ {<<id, m>>, <<id, n>>} \subseteq overlapped)
Begun(id) == {received[id][j][1].n : j \in DOMAIN received[id]}
               \cup (IF id \in Mapped /\ Valid(id) > 0 THEN {Number(id, 0)} ELSE {})
BegunOK(id) ==
    \A n \in Begun(id) :
        /\ n \in 1..sent[id] /\ (Cutting(id) /\ out.i = 0 => n # sent[id])
        /\ \A f \in Coming(id) : f.part = 0 => InOrder(id, n, f.n)
NextInOrder(id) ==
    id \in Mapped /\ Valid(id) > 0 =>
        \A j \in DOMAIN received[id] : InOrder(id, received[id][j][1].n, Number(id, 0))
OthersNotThere ==
    \A id \in ReceivedIds \ Ids : received[id] = <<>> /\ (id \in Mapped => Valid(id) = 0)

OrderOK ==
    /\ DeliveredInOrder /\ OthersNotThere
    /\ \A id \in Ids : BegunOK(id) /\ NextInOrder(id)

BusOK == WaitingOK /\ OrderOK /\ \A t \in Mapped \cap Ids : MixedOK(t) /\ AloneOK(t)

BusInv == medium = "bus" => at = "off" /\ playing = None /\ BusOK

\* On the card: a file holds the frames in the order in which they were cut off, packet
\* by packet, the first packet and the last perhaps in part.
LastPart(f) == f.part + 1 = Parts(f.id)
Follows(g, f) == IF g.part = 0 THEN LastPart(f)
                 ELSE g.id = f.id /\ g.n = f.n /\ g.part = f.part + 1
Before(f, g) == f.id = g.id => f.n < g.n \/ (f.n = g.n /\ f.part < g.part)
\* d places before a frame of part d or more is the part that is d before it
Behind(f, g, d) == d <= g.part => f.id = g.id /\ f.n = g.n /\ f.part = g.part - d
Chain(s) == \A k \in DOMAIN s :
    /\ WellFormed(s[k])
    /\ k > 1 => Follows(s[k], s[k - 1])
    /\ \A j \in 1..k - 1 : Before(s[j], s[k]) /\ Behind(s[j], s[k], k - j)

\* Those that are not there yet follow those that are.
Given(f) == f.n <= sent[f.id] /\ (Cutting(f.id) /\ f.n = sent[f.id] => f.part < out.i)
NextFollows(s) ==
    /\ s # <<>> => IF out = None THEN LastPart(s[Len(s)]) ELSE Follows(NextFrame, s[Len(s)])
    /\ \A k \in DOMAIN s : Given(s[k])

\* What the buffer is going to be appended to: nothing once the card is full
OpenEnd == IF at \in {"ready", "write"} /\ ~full THEN files[file_idx] \o packet_buffer
           ELSE packet_buffer

\* What was read last is the last in the buffer of its mapping, if that holds anything.
ReadOK ==
    Reading /\ record <= Len(files[playing]) + 1 =>
        \A t \in Mapped :
            LET last == files[playing][record - 1]
            IN Valid(t) > 0 => /\ record > 1
                               /\ last.id = t => last.part = Valid(t) - 1 /\ last.n = Number(t, 0)

FilesOK == \A k \in DOMAIN files : Chain(files[k])
EndOK == Chain(OpenEnd) /\ NextFollows(OpenEnd)
UnreadOK == ~Reading => \A t \in Mapped : Valid(t) = 0

\* Each was sent.
OnCard == InSeq(packet_buffer) \cup UNION {InSeq(files[k]) : k \in DOMAIN files}
SentOK == \A f \in OnCard : f.n \in 1..sent[f.id]

CardInv ==
    medium = "log" =>
        /\ tx = <<>> /\ damaged = {} /\ overlapped = {}
        /\ FilesOK /\ EndOK /\ SentOK /\ UnreadOK /\ ReadOK

\* What an empty file yields is not known.
EmptyFile == Reading /\ files[playing] = <<>>
ReceivedOK == received \in [ReceivedIds -> Seq(Seq(Parted \cup {None}))]
PacketsWhole == CuttingOK /\ (~EmptyFile => ReceivedOK /\ Assembled /\ \A t \in Mapped : BufferOK(t))

PacketsInv == PacketsWhole /\ BusInv /\ CardInv

-----------------------------------------------------------------------------
(* Arithmetic of sizes and identifiers *)

LEMMA Sizes ==
  ASSUME NEW t \in Mapped
  PROVE  /\ size_in_packets(t) \in Nat \ {0}
         /\ can_mappings[t].size_in_bytes \in 1..255
         /\ 8 * (size_in_packets(t) - 1) < can_mappings[t].size_in_bytes
         /\ can_mappings[t].size_in_bytes <= 8 * size_in_packets(t)
         /\ TableOK => size_in_packets(t) <= MAX_SEQNO
<1> DEFINE b == can_mappings[t].size_in_bytes
<1>1. b \in 1..255
  BY MappingAssumption
<1> HIDE DEF b
<1>2. PICK q \in Int, r \in 0..7 : b + 7 = 8 * q + r
  <2>1. b + 7 = 8 * ((b + 7) \div 8) + ((b + 7) % 8)
    BY <1>1
  <2>2. (b + 7) \div 8 \in Int /\ (b + 7) % 8 \in 0..7
    BY <1>1
  <2> QED
    BY <2>1, <2>2
<1>3. (b + 7) \div 8 = q
  BY <1>1, <1>2
<1>4. size_in_packets(t) = q
  BY <1>3 DEF size_in_packets, b
<1>5. q \in Nat \ {0} /\ 8 * (q - 1) < b /\ b <= 8 * q
  BY <1>1, <1>2
<1> QED
  BY <1>1, <1>4, <1>5 DEF b, TableOK, can_interface_check_multipacket_definitions

LEMMA Identifiers ==
  ASSUME NEW t \in Mapped, NEW k \in 0..MAX_SEQNO - 1
  PROVE  /\ Seqno(getCanID(t, k)) = k
         /\ (getCanID(t, k) \div 256) % 8 = can_mappings[t].remapped_id
         /\ getCanID(t, k) % 32 = can_mappings[t].remapped_board
<1> DEFINE r == can_mappings[t].remapped_id
           b == can_mappings[t].remapped_board
           s == r * 256 + k * 32 + b
<1>1. r \in 0..7 /\ b \in 0..31 /\ k \in 0..7
  BY MappingAssumption DEF MAX_SEQNO
<1> HIDE DEF r, b
<1>2. s \in Int /\ s \div 32 = r * 8 + k /\ s % 32 = b /\ s \div 256 = r
  BY <1>1
<1>3. (r * 8 + k) % 8 = k /\ r % 8 = r
  BY <1>1
<1> QED
  BY <1>2, <1>3 DEF r, b, Seqno, getCanID

LEMMA OwnMapping ==
  ASSUME TableOK, NEW t \in Mapped, NEW k \in 0..MAX_SEQNO - 1
  PROVE  getMappingForCanID(getCanID(t, k)) = {t}
<1>1. /\ (getCanID(t, k) \div 256) % 8 = can_mappings[t].remapped_id
      /\ getCanID(t, k) % 32 = can_mappings[t].remapped_board
  BY Identifiers
<1>2. \A u \in Mapped : /\ can_mappings[t].remapped_id = can_mappings[u].remapped_id
                        /\ can_mappings[t].remapped_board = can_mappings[u].remapped_board
                        => t = u
  BY DEF TableOK
<1> QED
  BY <1>1, <1>2 DEF getMappingForCanID, Belongs

-----------------------------------------------------------------------------
(* What can_interface_receive does with a frame *)

Genuine(f) == WellFormed(f) /\ f.n \in 1..sent[f.id]

OthersKept(t) == \A u \in Mapped : u # t => mapping_buffers'[u] = mapping_buffers[u]

\* The packet that the first part of the packet in hand is of
Leader(f) == IF f.part = 0 THEN f.n ELSE Number(f.id, 0)

\* handleFullPacket with a packet put together from the buffer and f: handed on, or no
\* memory was left.
Packed(f, parts) ==
    /\ parts \in Seq(Parted \cup {None})
    /\ Len(parts) > 0 /\ parts[1].n = Leader(f)
    /\ \A k \in 1..Len(parts) : InPlace(f.id, parts, k)
    /\ \A j, k \in 1..Len(parts) : Together(f.id, parts[j].n, parts[k].n)
    /\ \A k \in 1..Len(parts) :
         parts[k].n = f.n \/ \E j \in 0..f.part - 1 : parts[k].n = Number(f.id, j)

Handed(f) ==
    \E parts : received' = [received EXCEPT ![f.id] = Append(@, parts)] /\ Packed(f, parts)

Done(f) == (received' = received /\ <<f.id, f.n>> \in unallocated') \/ Handed(f)

\* The four things that can happen to a genuine frame.
Accepted(t, f) ==
    /\ f.id = t /\ Valid(t) = f.part /\ f.part + 1 < size_in_packets(t)
    /\ Valid(t)' = f.part + 1 /\ Number(t, f.part)' = f.n
    /\ \A k \in 0..f.part - 1 : Number(t, k)' = Number(t, k)
    /\ BufferOK(t)' /\ OthersKept(t)
    /\ received' = received

Completed(t, f) ==
    /\ f.id = t /\ Valid(t) = f.part /\ f.part + 1 = size_in_packets(t)
    /\ Valid(t)' = 0 /\ OthersKept(t)
    /\ Done(f)

Restarted(t, f) ==
    /\ IF IsWrapped(f.id) THEN t \in getMappingForCanID(f.sid)
       ELSE f.id = t /\ Valid(t) # f.part
    /\ Valid(t)' = 0 /\ OthersKept(t)
    /\ received' = received

\* A wrapped frame is left aside when it is empty or taken for one of a mapping's.
PassedOn(f) ==
    /\ IsWrapped(f.id)
    /\ mapping_buffers' = mapping_buffers
    /\ \/ Done(f)
       \/ received' = received /\ (f.len = 0 \/ getMappingForCanID(f.sid) # {})

\* What the frame is allowed to be: if the buffer of its mapping takes it, it may come
\* together with what is in there.
Continues(f) ==
    ~IsWrapped(f.id) /\ Valid(f.id) = f.part =>
        \A k \in 0..f.part - 1 : Together(f.id, Number(f.id, k), f.n)

LEMMA MappedFrame ==
  ASSUME TableOK, NEW f \in Frames, WellFormed(f), ~IsWrapped(f.id)
  PROVE  /\ f.id \in Mapped /\ getMappingForCanID(f.sid) = {f.id} /\ Seqno(f.sid) = f.part
         /\ f.part \in 0..MAX_SEQNO - 1 /\ f.part < size_in_packets(f.id)
         /\ ~Misfit(f.id, f) /\ ~Ignored(f)
<1>1. f.id \in Mapped /\ f.part \in 0..MAX_SEQNO - 1 /\ f.part < size_in_packets(f.id)
  BY DEF WellFormed, Frames
<1>2. f.sid = getCanID(f.id, f.part) /\ f.len = PartLen(f.id, f.part)
  BY DEF WellFormed
<1>3. getMappingForCanID(f.sid) = {f.id} /\ Seqno(f.sid) = f.part
  BY <1>1, <1>2, OwnMapping, Identifiers
<1> DEFINE S == size_in_packets(f.id)
           b == can_mappings[f.id].size_in_bytes
<1>4. /\ S \in Nat \ {0} /\ b \in 1..255 /\ 8 * (S - 1) < b /\ b <= 8 * S
      /\ f.part \in Nat /\ f.part < S
      /\ f.len = IF f.part + 1 < S THEN 8 ELSE b - 8 * f.part
  BY <1>1, <1>2, Sizes DEF PartLen
<1> HIDE DEF S, b
<1>5. f.part * 8 + f.len <= b /\ f.len > 0
  <2>1. CASE f.part + 1 < S
    BY <1>4, <2>1
  <2>2. CASE ~(f.part + 1 < S)
    <3>1. f.len = b - 8 * f.part
      BY <1>4, <2>2
    <3>2. f.part = S - 1
      <4>1. S \in Int /\ f.part \in Int /\ f.part < S
        BY <1>4
      <4> QED
        BY <2>2, <4>1
    <3> QED
      BY <1>4, <3>1, <3>2
  <2> QED
    BY <2>1, <2>2
<1>6. ~Misfit(f.id, f)
  <2>1. f.len \in Int
    BY DEF Frames
  <2>2. ~(f.part >= S) /\ ~(f.part * 8 + f.len > b)
    BY <1>4, <1>5, <2>1
  <2> QED
    BY <1>3, <2>2 DEF Misfit, S, b
<1>7. ~Ignored(f)
  BY <1>5 DEF Ignored, TableOK
<1> QED
  BY <1>1, <1>3, <1>6, <1>7

LEMMA WrappedFrame ==
  ASSUME TableOK, NEW f \in Frames, WellFormed(f), IsWrapped(f.id)
  PROVE  /\ f.id \in Ids \ Mapped /\ f.sid + ts_m3_can = f.id /\ f.part = 0
         /\ ~Extended(f.sid)
         /\ \A t \in getMappingForCanID(f.sid) : Misfit(t, f)
<1>1. f.id \in Ids /\ f.id \in Int /\ f.sid = f.id - ts_m3_can /\ f.part = 0
  BY IdTypes DEF WellFormed, Frames
<1>2. f.id \notin Mapped /\ f.sid + ts_m3_can = f.id
  BY <1>1 DEF TableOK, ts_m3_can
<1>3. ASSUME NEW t \in getMappingForCanID(f.sid) PROVE Misfit(t, f)
  <2>1. t \in Mapped /\ Belongs(f.sid, t) /\ can_mappings[t].size_in_bytes \in Int
    BY Sizes DEF getMappingForCanID
  <2>2. PICK p \in Packets : p.id = f.id
    BY <1>1 DEF Ids
  <2>3. /\ Seqno(f.sid) * 8 + 8 > can_mappings[t].size_in_bytes
        /\ \A q \in Packets : q.id = f.id =>
              Seqno(f.sid) * 8 + q.length > can_mappings[t].size_in_bytes
    BY <1>1, <2>1, <2>2 DEF TableOK
  <2>4. Seqno(f.sid) * 8 + f.len > can_mappings[t].size_in_bytes
    BY <2>3 DEF WellFormed, WrappedLen
  <2> QED
    BY <2>4 DEF Misfit
<1>4. ~Extended(f.sid)
  <2>1. (f.id \div 2048) * 2048 = 4096
    BY DEF IsWrapped, ts_m3_can
  <2>2. f.id < 6144
    BY <1>1, <2>1
  <2> QED
    BY <1>1, <2>2 DEF Extended, ts_m3_can
<1> QED
  BY <1>1, <1>2, <1>3, <1>4

LEMMA SomeoneHandled ==
  ASSUME NEW f, NEW parts, Packed(f, parts), handleFullPacket(f.id, f.n, parts)
  PROVE  Done(f)
<1>1. \/ received' = received /\ <<f.id, f.n>> \in unallocated'
      \/ received' = [received EXCEPT ![f.id] = Append(received[f.id], parts)]
  BY DEF handleFullPacket
<1> QED
  BY <1>1 DEF Done, Handed

\* The buffer of mapping t with the frame in it, and the packet in the buffer
WithFrame(t, f) == [mapping_buffers[t].data_buffer EXCEPT ![f.part] = Content(f)]
PacketOf(t, f) == [k \in 1..size_in_packets(t) |-> WithFrame(t, f)[k - 1]]

\* The buffer with a frame that continues it: each part in its place, and of a packet
\* that was sent.
LEMMA FrameInBuffer ==
  ASSUME TableOK, NEW f \in Frames, Genuine(f), ~IsWrapped(f.id), NEW t, t = f.id,
         BufferOK(t), mapping_buffers[t] \in Buffers, Valid(t) = f.part, Continues(f)
  PROVE  /\ WithFrame(t, f) \in [0..MAX_SEQNO - 1 -> Parted \cup {None}]
         /\ WithFrame(t, f)[f.part].n = f.n
         /\ \A k \in 0..f.part - 1 : WithFrame(t, f)[k].n = Number(t, k)
         /\ \A k \in 0..f.part :
              /\ WithFrame(t, f)[k] = [id |-> t, n |-> WithFrame(t, f)[k].n, part |-> k,
                                       len |-> PartLen(t, k)]
              /\ WithFrame(t, f)[k].n \in 1..sent[t]
              /\ \A j \in 0..f.part :
                    Together(t, WithFrame(t, f)[j].n, WithFrame(t, f)[k].n)
<1> DEFINE d == mapping_buffers[t].data_buffer
           data == WithFrame(t, f)
           S == size_in_packets(t)
<1>1. /\ t \in Mapped /\ f.part \in 0..MAX_SEQNO - 1 /\ f.part \in Nat
      /\ f.part < S /\ S \in Nat
  BY MappedFrame, Sizes DEF MAX_SEQNO, Genuine
<1>2. d \in [0..MAX_SEQNO - 1 -> Parted \cup {None}]
  BY DEF Buffers
<1>3. Content(f) \in Parted /\ Content(f) = [id |-> t, n |-> f.n, part |-> f.part, len |-> f.len]
  BY DEF Content, Parted, Frames
<1>4. f.len = PartLen(t, f.part)
  BY DEF Genuine, WellFormed
<1>5. /\ data \in [0..MAX_SEQNO - 1 -> Parted \cup {None}]
      /\ data[f.part] = Content(f)
      /\ \A k \in 0..f.part - 1 : data[k] = d[k]
  <2>1. data = [d EXCEPT ![f.part] = Content(f)]
    BY DEF WithFrame
  <2>2. \A k \in 0..f.part - 1 : k \in 0..MAX_SEQNO - 1 /\ k # f.part
    BY <1>1 DEF MAX_SEQNO
  <2> HIDE DEF d, data
  <2> QED
    BY <1>1, <1>2, <1>3, <2>1, <2>2
<1>6. data[f.part].n = f.n
  BY <1>3, <1>5
<1>7. \A k \in 0..f.part - 1 : data[k].n = Number(t, k)
  BY <1>5 DEF Number
<1>8. \A k \in 0..f.part : k = f.part \/ k \in 0..f.part - 1
  BY <1>1
<1>9. ASSUME NEW k \in 0..f.part
      PROVE  /\ data[k] = [id |-> t, n |-> data[k].n, part |-> k, len |-> PartLen(t, k)]
             /\ data[k].n \in 1..sent[t]
  <2>1. CASE k = f.part
    BY <1>3, <1>4, <1>5, <1>6, <2>1 DEF Genuine
  <2>2. CASE k \in 0..f.part - 1
    <3>1. /\ d[k] = [id |-> t, n |-> Number(t, k), part |-> k, len |-> 8]
          /\ Number(t, k) \in 1..sent[t]
      BY <2>2 DEF BufferOK
    <3>2. PartLen(t, k) = 8
      BY <1>1, <2>2 DEF PartLen
    <3> QED
      BY <1>5, <1>7, <2>2, <3>1, <3>2
  <2> QED
    BY <1>8, <2>1, <2>2
<1>10. ASSUME NEW j \in 0..f.part, NEW k \in 0..f.part
       PROVE  Together(t, data[j].n, data[k].n)
  <2> HIDE DEF data, d
  <2>1. \A i \in 0..f.part - 1 : Together(t, Number(t, i), f.n)
    BY DEF Continues
  <2>2. \A i \in 0..f.part - 1 : Together(t, f.n, Number(t, i))
    BY <2>1 DEF Together
  <2>3. \A h, i \in 0..f.part - 1 : Together(t, Number(t, h), Number(t, i))
    BY DEF BufferOK
  <2>4. Together(t, f.n, f.n)
    BY DEF Together
  <2> QED
    BY <1>6, <1>7, <1>8, <2>1, <2>2, <2>3, <2>4
<1> QED
  BY <1>5, <1>6, <1>7, <1>9, <1>10

\* The frame that completes a packet.
LEMMA PacketComplete ==
  ASSUME TableOK, NEW f \in Frames, Genuine(f), ~IsWrapped(f.id), NEW t, t = f.id,
         BufferOK(t), mapping_buffers[t] \in Buffers, Valid(t) = f.part, Continues(f),
         f.part + 1 = size_in_packets(t), NEW parts, parts = PacketOf(t, f)
  PROVE  Packed(f, parts)
<1> DEFINE S == size_in_packets(t)
           data == WithFrame(t, f)
<1>1. /\ t \in Mapped /\ f.part \in Nat /\ f.part \in 0..MAX_SEQNO - 1
      /\ S \in Nat \ {0} /\ S <= MAX_SEQNO /\ f.part + 1 = S
  BY MappedFrame, Sizes DEF MAX_SEQNO, Genuine
<1>2. /\ data \in [0..MAX_SEQNO - 1 -> Parted \cup {None}]
      /\ data[f.part].n = f.n
      /\ \A k \in 0..f.part - 1 : data[k].n = Number(t, k)
      /\ \A k \in 0..f.part :
           /\ data[k] = [id |-> t, n |-> data[k].n, part |-> k, len |-> PartLen(t, k)]
           /\ data[k].n \in 1..sent[t]
           /\ \A j \in 0..f.part : Together(t, data[j].n, data[k].n)
  BY FrameInBuffer
<1>3. parts = [k \in 1..S |-> data[k - 1]]
  BY DEF PacketOf
<1> HIDE DEF data
<1>4. \A k \in 1..S : k - 1 \in 0..f.part /\ k - 1 \in 0..MAX_SEQNO - 1
  BY <1>1 DEF MAX_SEQNO
<1>5. parts \in Seq(Parted \cup {None}) /\ Len(parts) = S
  <2>1. parts \in [1..S -> Parted \cup {None}]
    BY <1>2, <1>3, <1>4
  <2>2. parts \in UNION {[1..n -> Parted \cup {None}] : n \in Nat}
    BY <1>1, <2>1
  <2>3. parts \in Seq(Parted \cup {None})
    BY <2>2, SeqDef, Zenon
  <2> QED
    BY <1>1, <2>1, <2>3, LenProperties
<1>6. \A k \in 1..S : parts[k] = data[k - 1]
  BY <1>3
<1>7. ASSUME NEW k \in 1..S PROVE InPlace(f.id, parts, k)
  <2>1. /\ parts[k] = [id |-> t, n |-> data[k - 1].n, part |-> k - 1, len |-> PartLen(t, k - 1)]
        /\ data[k - 1].n \in 1..sent[t]
    BY <1>2, <1>4, <1>6
  <2>2. t \in Ids
    BY DEF Frames
  <2>3. PartLen(t, k - 1)
          = IF k < S THEN 8 ELSE can_mappings[t].size_in_bytes - 8 * (k - 1)
    <3>1. (k - 1) + 1 = k
      BY <1>1
    <3> QED
      BY <3>1 DEF PartLen
  <2> QED
    BY <2>1, <2>2, <2>3 DEF InPlace
<1>8. \A j, k \in 1..S : Together(f.id, parts[j].n, parts[k].n)
  BY <1>2, <1>4, <1>6
<1>9. ASSUME NEW k \in 1..S
      PROVE  parts[k].n = f.n \/ \E j \in 0..f.part - 1 : parts[k].n = Number(f.id, j)
  <2>1. k - 1 = f.part \/ k - 1 \in 0..f.part - 1
    BY <1>1
  <2> QED
    BY <1>2, <1>6, <2>1
<1>10. parts[1].n = Leader(f)
  <2>1. 1 \in 1..S /\ 1 - 1 = 0 /\ (f.part # 0 => 0 \in 0..f.part - 1)
    BY <1>1
  <2>2. parts[1] = data[0]
    BY <1>6, <2>1
  <2> QED
    BY <1>2, <2>1, <2>2 DEF Leader
<1>11. Len(parts) > 0
  BY <1>1, <1>5
<1> HIDE DEF S
<1>12. /\ \A k \in 1..Len(parts) : InPlace(f.id, parts, k)
       /\ \A j, k \in 1..Len(parts) : Together(f.id, parts[j].n, parts[k].n)
       /\ \A k \in 1..Len(parts) :
            parts[k].n = f.n \/ \E j \in 0..f.part - 1 : parts[k].n = Number(f.id, j)
  BY <1>5, <1>7, <1>8, <1>9
<1> QED
  BY <1>5, <1>10, <1>11, <1>12, Zenon DEF Packed

LEMMA AcceptOutcome ==
  ASSUME TableOK, EndsOK, \A u \in Mapped : BufferOK(u), UNCHANGED <<sent, damaged, overlapped>>,
         NEW f \in Frames, Genuine(f), ~IsWrapped(f.id), Continues(f), AcceptFrame(f)
  PROVE  Accepted(f.id, f) \/ Completed(f.id, f)
<1> DEFINE t == f.id
<1>1. /\ t \in Mapped /\ getMappingForCanID(f.sid) = {t} /\ Seqno(f.sid) = f.part
      /\ f.part \in 0..MAX_SEQNO - 1 /\ f.part < size_in_packets(t)
  BY MappedFrame DEF Genuine
<1>2. mapping_buffers \in [Mapped -> Buffers] /\ mapping_buffers[t] \in Buffers
  BY <1>1 DEF EndsOK
<1> DEFINE complete == mapping_buffers[t].valid_idx + 1 = size_in_packets(t)
           idx == IF complete THEN 0 ELSE mapping_buffers[t].valid_idx + 1
<1>0. PICK data : data = WithFrame(t, f)
  OBVIOUS
<1>3. /\ mapping_buffers[t].valid_idx = f.part
      /\ mapping_buffers' = [mapping_buffers EXCEPT ![t] =
            [valid_idx |-> idx, data_buffer |-> data]]
      /\ IF complete THEN handleFullPacket(t, f.n, PacketOf(t, f))
         ELSE UNCHANGED <<received, unallocated>>
  <2>1. PICK u \in getMappingForCanID(f.sid) :
          /\ Seqno(f.sid) = mapping_buffers[u].valid_idx
          /\ LET dd == [mapping_buffers[u].data_buffer EXCEPT ![Seqno(f.sid)] = Content(f)]
                 last == mapping_buffers[u].valid_idx + 1 = size_in_packets(u)
             IN /\ mapping_buffers' = [mapping_buffers EXCEPT ![u] =
                     [valid_idx |-> IF last THEN 0 ELSE mapping_buffers[u].valid_idx + 1,
                      data_buffer |-> dd]]
                /\ IF last
                   THEN handleFullPacket(u, f.n, [k \in 1..size_in_packets(u) |-> dd[k - 1]])
                   ELSE UNCHANGED <<received, unallocated>>
    BY DEF AcceptFrame
  <2>2. u = t /\ Seqno(f.sid) = f.part
    BY <1>1, <2>1
  <2>3. WithFrame(u, f) = [mapping_buffers[u].data_buffer EXCEPT ![Seqno(f.sid)] = Content(f)]
    BY <2>2, <1>0 DEF WithFrame
  <2>4. PacketOf(u, f) = [k \in 1..size_in_packets(u) |-> WithFrame(u, f)[k - 1]]
    BY DEF PacketOf
  <2> QED
    BY <1>0, <2>1, <2>2, <2>3, <2>4
<1>4. Valid(t) = f.part /\ BufferOK(t)
  BY <1>1, <1>3 DEF Valid
<1>5. /\ mapping_buffers'[t] = [valid_idx |-> idx, data_buffer |-> data]
      /\ OthersKept(t)
  <2> HIDE DEF idx
  <2> QED
    BY <1>1, <1>2, <1>3 DEF OthersKept
<1>6. CASE complete
  <2>1. f.part + 1 = size_in_packets(t) /\ Valid(t)' = 0
    BY <1>3, <1>5, <1>6 DEF Valid
  <2>2. PICK parts : parts = PacketOf(t, f)
    OBVIOUS
  <2>3. handleFullPacket(f.id, f.n, parts)
    BY <1>3, <1>6, <2>2
  <2>4. Packed(f, parts)
    BY <1>2, <1>4, <2>1, <2>2, PacketComplete
  <2>5. Done(f)
    BY <2>3, <2>4, SomeoneHandled
  <2> QED
    BY <1>4, <1>5, <2>1, <2>5 DEF Completed
<1>7. CASE ~complete
  <2>1. f.part + 1 < size_in_packets(t)
    <3>1. size_in_packets(t) \in Int /\ f.part \in Int /\ f.part + 1 # size_in_packets(t)
      BY <1>1, <1>3, <1>7, Sizes
    <3> QED
      BY <1>1, <3>1
  <2>2. /\ received' = received /\ Valid(t)' = f.part + 1
        /\ mapping_buffers'[t].data_buffer = data
    BY <1>3, <1>5, <1>7 DEF Valid
  <2>3. /\ data[f.part].n = f.n
        /\ \A k \in 0..f.part - 1 : data[k].n = Number(t, k)
        /\ \A k \in 0..f.part :
             /\ data[k] = [id |-> t, n |-> data[k].n, part |-> k, len |-> PartLen(t, k)]
             /\ data[k].n \in 1..sent[t]
             /\ \A j \in 0..f.part : Together(t, data[j].n, data[k].n)
    BY <1>0, <1>2, <1>4, FrameInBuffer
  <2>4. \A k : Number(t, k)' = data[k].n
    BY <2>2 DEF Number
  <2>5. \A k \in 0..f.part : PartLen(t, k) = 8
    BY <1>1, <2>1, Sizes DEF PartLen
  <2>6. 0..(f.part + 1) - 1 = 0..f.part
    BY <1>1
  <2>7. \A m, n : Together(t, m, n)' <=> Together(t, m, n)
    BY DEF Together, Marked
  <2>8. BufferOK(t)'
    <3>1. f.id \in Ids /\ sent' = sent
      BY DEF Frames
    <3>2. ASSUME NEW k \in 0..f.part
          PROVE  /\ t \in Ids /\ Number(t, k)' \in 1..sent'[t]
                 /\ mapping_buffers'[t].data_buffer[k]
                      = [id |-> t, n |-> Number(t, k)', part |-> k, len |-> 8]
                 /\ \A j \in 0..f.part : Together(t, data[j].n, data[k].n)'
      BY <2>2, <2>3, <2>4, <2>5, <2>7, <3>1
    <3>3. PICK d : d = mapping_buffers'[t].data_buffer
      OBVIOUS
    <3>4. \A k \in 0..f.part :
            /\ t \in Ids /\ Number(t, k)' \in 1..sent'[t]
            /\ d[k] = [id |-> t, n |-> Number(t, k)', part |-> k, len |-> 8]
            /\ \A j \in 0..f.part : Together(t, Number(t, j), Number(t, k))'
      <4>1. \A j : Number(t, j)' = data[j].n
        BY <2>4
      <4> QED
        BY <3>2, <3>3, <4>1
    <3>5. Valid(t)' < size_in_packets(t) /\ 0..Valid(t)' - 1 = 0..f.part
      BY <2>1, <2>2, <2>6
    <3> QED
      BY <3>3, <3>4, <3>5 DEF BufferOK
  <2> QED
    BY <1>4, <1>5, <2>1, <2>2, <2>3, <2>4, <2>8 DEF Accepted
<1> QED
  BY <1>6, <1>7

LEMMA Unrecognised ==
  ASSUME TableOK, NEW f \in Frames, Genuine(f), handleUnrecognisedPacket(f)
  PROVE  /\ IsWrapped(f.id) /\ mapping_buffers' = mapping_buffers
         /\ Done(f)
<1>1. IsWrapped(f.id)
  BY MappedFrame DEF handleUnrecognisedPacket, Genuine
<1>2. f.id \in Ids \ Mapped /\ f.sid + ts_m3_can = f.id /\ f.part = 0 /\ ~Extended(f.sid)
  BY <1>1, WrappedFrame DEF Genuine
<1>3. mapping_buffers' = mapping_buffers /\ handleFullPacket(f.id, f.n, <<Content(f)>>)
  BY <1>2 DEF handleUnrecognisedPacket
<1>4. PICK parts : parts = <<Content(f)>>
  OBVIOUS
<1>5. Content(f) \in Parted /\ Content(f) = [id |-> f.id, n |-> f.n, part |-> 0, len |-> f.len]
  BY <1>2 DEF Content, Parted, Frames
<1>6. /\ parts \in Seq(Parted \cup {None}) /\ Len(parts) = 1 /\ parts[1] = Content(f)
      /\ 1..Len(parts) = {1}
  BY <1>4, <1>5
<1>7. InPlace(f.id, parts, 1)
  BY <1>2, <1>5, <1>6 DEF InPlace, Genuine
<1>8. Packed(f, parts)
  BY <1>2, <1>5, <1>6, <1>7 DEF Packed, Together, Leader
<1> QED
  BY <1>1, <1>3, <1>4, <1>8, SomeoneHandled

LEMMA Outcomes ==
  ASSUME TableOK, EndsOK, \A u \in Mapped : BufferOK(u), UNCHANGED <<sent, damaged, overlapped>>,
         NEW f \in Frames, Genuine(f), Continues(f), can_interface_receive(f)
  PROVE  \/ \E t \in Mapped : Accepted(t, f) \/ Completed(t, f) \/ Restarted(t, f)
         \/ PassedOn(f)
<1>1. CASE Ignored(f) \/ RejectFrame(f)
  <2>1. mapping_buffers' = mapping_buffers /\ received' = received
    <3>1. CASE Ignored(f)
      BY <3>1 DEF can_interface_receive, receiver
    <3>2. CASE RejectFrame(f)
      BY <3>2 DEF RejectFrame, receiver
    <3> QED
      BY <1>1, <3>1, <3>2
  <2>2. IsWrapped(f.id)
    <3>1. SUFFICES ASSUME ~IsWrapped(f.id) PROVE FALSE
      OBVIOUS
    <3>2. getMappingForCanID(f.sid) = {f.id} /\ ~Misfit(f.id, f) /\ ~Ignored(f)
      BY <3>1, MappedFrame DEF Genuine
    <3> QED
      BY <1>1, <3>2 DEF RejectFrame
  <2>3. f.len = 0 \/ getMappingForCanID(f.sid) # {}
    BY <1>1 DEF Ignored, RejectFrame, TableOK
  <2> QED
    BY <2>1, <2>2, <2>3 DEF PassedOn
<1>2. CASE handleUnrecognisedPacket(f)
  BY <1>2, Unrecognised DEF PassedOn
<1>3. CASE OutOfSequence(f)
  <2>1. PICK t \in getMappingForCanID(f.sid) :
           /\ Seqno(f.sid) # mapping_buffers[t].valid_idx
           /\ mapping_buffers' = [mapping_buffers EXCEPT ![t].valid_idx = 0]
           /\ received' = received
    BY <1>3 DEF OutOfSequence
  <2>2. t \in Mapped /\ mapping_buffers \in [Mapped -> Buffers] /\ mapping_buffers[t] \in Buffers
    BY <2>1 DEF getMappingForCanID, EndsOK
  <2>3. Valid(t)' = 0 /\ OthersKept(t)
    BY <2>1, <2>2 DEF OthersKept, Buffers, Valid
  <2>4. ~IsWrapped(f.id) => f.id = t /\ Valid(t) # f.part
    BY <2>1, MappedFrame DEF Valid, Genuine
  <2> QED
    BY <2>1, <2>2, <2>3, <2>4 DEF Restarted
<1>4. CASE AcceptFrame(f)
  <2>1. ~IsWrapped(f.id)
    BY <1>4, WrappedFrame DEF AcceptFrame, Genuine
  <2> QED
    BY <1>4, <2>1, AcceptOutcome, MappedFrame DEF Genuine
<1> QED
  BY <1>1, <1>2, <1>3, <1>4 DEF can_interface_receive

-----------------------------------------------------------------------------
(* What can_interface_send does with a packet *)

LEMMA NextOK ==
  ASSUME TableOK, EndsOK, CuttingOK, out # None
  PROVE  /\ NextFrame \in Frames /\ WellFormed(NextFrame)
         /\ NextFrame.id = out.id /\ NextFrame.part = out.i /\ NextFrame.n = sent[out.id]
<1>1. NextFrame \in Frames
  BY NextIsFrame
<1>2. /\ NextFrame.id = out.id /\ NextFrame.part = out.i /\ NextFrame.n = sent[out.id]
      /\ NextFrame.len = IF out.remaining > 8 THEN 8 ELSE out.remaining
      /\ NextFrame.sid = IF IsWrapped(out.id) THEN out.id - ts_m3_can
                         ELSE getCanID(out.id, out.i)
  BY DEF NextFrame, CuttingOK
<1>3. out \in Outgoing /\ (IsWrapped(out.id) \/ out.id \in Mapped)
  BY DEF EndsOK, OutOK
<1>4. out.remaining \in Int /\ out.i \in Nat
  BY <1>3 DEF Outgoing, MAX_SEQNO
<1>5. CASE IsWrapped(out.id)
  <2>1. PICK p \in Packets : p.id = out.id /\ p.length = out.remaining /\ out.remaining <= 8
    BY <1>5 DEF CuttingOK
  <2>2. out.i = 0
    BY <1>5 DEF CuttingOK
  <2>3. NextFrame.len = p.length
    BY <1>2, <1>4, <2>1
  <2>4. WrappedLen(out.id, NextFrame.len)
    BY <2>1, <2>3 DEF WrappedLen
  <2> QED
    BY <1>1, <1>2, <1>5, <2>2, <2>4 DEF WellFormed
<1>6. CASE ~IsWrapped(out.id)
  <2>1. /\ out.id \in Mapped /\ out.i < size_in_packets(out.id)
        /\ out.i * 8 + out.remaining = can_mappings[out.id].size_in_bytes
    BY <1>3, <1>6 DEF CuttingOK
  <2> DEFINE S == size_in_packets(out.id)
             b == can_mappings[out.id].size_in_bytes
             i == out.i
             r == out.remaining
  <2>2. /\ S \in Nat \ {0} /\ b \in 1..255 /\ 8 * (S - 1) < b /\ b <= 8 * S
        /\ i \in Nat /\ r \in Int /\ i < S /\ i * 8 + r = b
    BY <1>4, <2>1, Sizes
  <2>3. NextFrame.len = IF i + 1 < S THEN 8 ELSE b - 8 * i
    <3>1. NextFrame.len = IF r > 8 THEN 8 ELSE r
      BY <1>2
    <3> HIDE DEF S, b, i, r
    <3>2. CASE i + 1 < S
      <4>1. r > 8
        BY <2>2, <3>2
      <4> QED
        BY <3>1, <3>2, <4>1
    <3>3. CASE ~(i + 1 < S)
      <4>1. i = S - 1
        <5>1. i \in Int /\ S \in Int /\ i < S
          BY <2>2
        <5> QED
          BY <3>3, <5>1
      <4>2. r = b - 8 * i /\ ~(r > 8)
        BY <2>2, <4>1
      <4> QED
        BY <3>1, <3>3, <4>2
    <3> QED
      BY <3>2, <3>3
  <2> QED
    BY <1>1, <1>2, <1>6, <2>1, <2>3 DEF WellFormed, PartLen
<1> QED
  BY <1>1, <1>2, <1>5, <1>6

\* The packet goes on with its next frame, or that was the last.
GoesOn ==
    /\ ~IsWrapped(out.id) /\ out.i + 1 < size_in_packets(out.id)
    /\ out' # None /\ out'.id = out.id /\ out'.i = out.i + 1
    /\ out'.n = out.n /\ out'.remaining = out.remaining - 8

WasLast ==
    /\ out' = None
    /\ ~IsWrapped(out.id) => out.i + 1 = size_in_packets(out.id)

LEMMA Turns ==
  ASSUME TableOK, EndsOK, CuttingOK, out # None, Advance, UNCHANGED sent
  PROVE  CuttingOK' /\ (GoesOn \/ WasLast)
<1>1. out \in Outgoing /\ (IsWrapped(out.id) \/ out.id \in Mapped)
  BY DEF EndsOK, OutOK
<1>2. out.remaining \in Int /\ out.i \in Nat
  BY <1>1 DEF Outgoing, MAX_SEQNO
<1>3. CASE IsWrapped(out.id)
  <2>1. out.remaining <= 8
    BY <1>3 DEF CuttingOK
  <2>2. out' = None
    BY <2>1 DEF Advance
  <2> QED
    BY <1>3, <2>2 DEF CuttingOK, WasLast
<1>4. CASE ~IsWrapped(out.id)
  <2>1. /\ out.id \in Mapped /\ out.i < size_in_packets(out.id)
        /\ out.i * 8 + out.remaining = can_mappings[out.id].size_in_bytes
    BY <1>1, <1>4 DEF CuttingOK
  <2> DEFINE S == size_in_packets(out.id)
             b == can_mappings[out.id].size_in_bytes
  <2>2. /\ S \in Nat \ {0} /\ b \in 1..255 /\ 8 * (S - 1) < b /\ b <= 8 * S
        /\ S <= 8 /\ out.i < S /\ out.i * 8 + out.remaining = b
    BY <2>1, Sizes DEF MAX_SEQNO
  <2> HIDE DEF S, b
  <2>3. CASE out.remaining <= 8
    <3>1. out' = None
      BY <2>3 DEF Advance
    <3>2. out.i + 1 = S
      BY <1>2, <2>2, <2>3
    <3> QED
      BY <3>1, <3>2 DEF CuttingOK, WasLast, S
  <2>4. CASE ~(out.remaining <= 8)
    <3>1. out.i + 1 < S
      BY <1>2, <2>2, <2>4
    <3>2. ~(out.i + 1 >= MAX_SEQNO)
      <4>1. out.i + 1 < 8 /\ out.i + 1 \in Int
        BY <1>2, <2>2, <3>1
      <4> QED
        BY <4>1 DEF MAX_SEQNO
    <3>3. out' = [out EXCEPT !.i = out.i + 1, !.remaining = out.remaining - 8]
      BY <2>4, <3>2 DEF Advance
    <3>4. out' \in Outgoing
      <4>1. out.i + 1 \in 0..MAX_SEQNO - 1 /\ out.remaining - 8 \in 0..255
        BY <1>1, <2>4, <3>2 DEF Outgoing, MAX_SEQNO
      <4> QED
        BY <1>1, <3>3, <4>1 DEF Outgoing
    <3>5. out' # None
      BY <3>4, NoneAssumption DEF Outgoing
    <3>6. /\ out'.id = out.id /\ out'.i = out.i + 1
          /\ out'.n = out.n /\ out'.remaining = out.remaining - 8
      BY <1>1, <3>3 DEF Outgoing
    <3>7. GoesOn
      BY <1>4, <3>1, <3>5, <3>6 DEF GoesOn, S
    <3>8. CuttingOK'
      <4>1. out'.n = sent'[out'.id] /\ out'.n > 0 /\ ~IsWrapped(out'.id)
        BY <1>4, <3>6 DEF CuttingOK
      <4>2. (out.i + 1) * 8 + (out.remaining - 8) = b
        BY <1>2, <2>2
      <4> QED
        BY <3>1, <3>6, <4>1, <4>2 DEF CuttingOK, S, b
    <3> QED
      BY <3>7, <3>8
  <2> QED
    BY <2>3, <2>4
<1> QED
  BY <1>3, <1>4

\* A packet that is sent is cut up from its first frame, or it is refused.
Begins(p) ==
    /\ out' # None /\ out'.id = p.id /\ out'.i = 0
    /\ sent' = [sent EXCEPT ![p.id] = @ + 1]

LEMMA Starts ==
  ASSUME TableOK, EndsOK, NEW p \in Packets, StartSend(p)
  PROVE  /\ out = None /\ CuttingOK'
         /\ Begins(p) \/ UNCHANGED <<sent, out>>
<1>1. p.id \in Ids /\ p.id \in Int /\ p.length \in 0..255
  BY PacketTypes
<1> DEFINE new == [id |-> p.id, n |-> sent[p.id] + 1, remaining |-> p.length, i |-> 0]
<1>2. CASE out' = new /\ sent' = [sent EXCEPT ![p.id] = @ + 1]
  <2>1. new \in Outgoing
    <3>1. sent[p.id] \in Nat
      BY <1>1, BoundAssumption DEF EndsOK
    <3> QED
      BY <1>1, <3>1 DEF Outgoing, MAX_SEQNO
  <2>2. out' # None
    BY <1>2, <2>1, NoneAssumption DEF Outgoing
  <2>3. /\ out'.id = p.id /\ out'.i = 0 /\ out'.remaining = p.length
        /\ out'.n = sent'[p.id] /\ out'.n > 0
    BY <1>1, <1>2 DEF EndsOK
  <2>4. IF IsWrapped(p.id) THEN p.length <= 8
        ELSE p.id \in Mapped /\ can_mappings[p.id].size_in_bytes = p.length
    <3>1. CASE UNCHANGED sender
      BY <1>2, <2>2, <3>1 DEF StartSend, sender
    <3> QED
      BY <3>1 DEF StartSend
  <2>5. CuttingOK'
    <3>1. CASE IsWrapped(p.id)
      BY <2>3, <2>4, <3>1 DEF CuttingOK
    <3>2. CASE ~IsWrapped(p.id)
      <4>1. 0 < size_in_packets(p.id) /\ 0 * 8 + p.length = can_mappings[p.id].size_in_bytes
        BY <1>1, <2>4, <3>2, Sizes
      <4> QED
        BY <2>3, <3>2, <4>1 DEF CuttingOK
    <3> QED
      BY <3>1, <3>2
  <2> QED
    BY <1>2, <2>2, <2>3, <2>5 DEF StartSend, Begins
<1>3. CASE UNCHANGED sender
  BY <1>3 DEF StartSend, sender, CuttingOK
<1> QED
  BY <1>2, <1>3 DEF StartSend

-----------------------------------------------------------------------------
(* What is handed on, and what is left in the buffers *)

LEMMA OneMore ==
  ASSUME ReceivedOK, NEW f, f.id \in ReceivedIds, Handed(f)
  PROVE  /\ ReceivedOK'
         /\ \A u \in ReceivedIds : u # f.id => received'[u] = received[u]
         /\ received[f.id] \in Seq(Seq(Parted \cup {None}))
         /\ Len(received[f.id]) \in Nat /\ Len(received'[f.id]) = Len(received[f.id]) + 1
         /\ DOMAIN received[f.id] = 1..Len(received[f.id])
         /\ DOMAIN received'[f.id] = 1..Len(received[f.id]) + 1
         /\ \A j \in 1..Len(received[f.id]) : received'[f.id][j] = received[f.id][j]
         /\ Packed(f, received'[f.id][Len(received[f.id]) + 1])
<1> DEFINE P == Seq(Parted \cup {None})
<1>1. PICK parts : received' = [received EXCEPT ![f.id] = Append(@, parts)] /\ Packed(f, parts)
  BY DEF Handed
<1>2. parts \in P
  BY <1>1 DEF Packed
<1>3. received \in [ReceivedIds -> Seq(P)]
  BY DEF ReceivedOK
<1> HIDE DEF P
<1>4. received[f.id] \in Seq(P)
  BY <1>3
<1>5. PICK s : s = Append(received[f.id], parts)
  OBVIOUS
<1>6. /\ s \in Seq(P) /\ Len(s) = Len(received[f.id]) + 1 /\ Len(received[f.id]) \in Nat
      /\ \A j \in 1..Len(received[f.id]) : s[j] = received[f.id][j]
      /\ s[Len(received[f.id]) + 1] = parts
      /\ DOMAIN s = 1..Len(s) /\ DOMAIN received[f.id] = 1..Len(received[f.id])
  BY <1>2, <1>4, <1>5, AppendProperties, LenProperties
<1>7. received' = [received EXCEPT ![f.id] = s]
  BY <1>1, <1>5
<1>8. /\ received' \in [ReceivedIds -> Seq(P)] /\ received'[f.id] = s
      /\ \A u \in ReceivedIds : u # f.id => received'[u] = received[u]
  BY <1>3, <1>6, <1>7
<1>9. ReceivedOK'
  BY <1>8 DEF ReceivedOK, P
<1> QED
  BY <1>1, <1>4, <1>6, <1>8, <1>9 DEF P

\* Frames of the packets that can be sent are handed on under their own id.
LEMMA OwnIds == Ids \subseteq ReceivedIds /\ Mapped \subseteq ReceivedIds
  BY DEF ReceivedIds

LEMMA PackedIsAssembled ==
  ASSUME NEW f, NEW parts, Packed(f, parts)
  PROVE  /\ \A k \in DOMAIN parts : InPlace(f.id, parts, k)
         /\ \A m, n \in Origins(parts) : m # n => <<f.id, n>> \in damaged \cup overlapped
<1>1. DOMAIN parts = 1..Len(parts)
  BY DEF Packed
<1> QED
  BY <1>1 DEF Packed, Origins, Together, Marked

LEMMA DonePackets ==
  ASSUME ReceivedOK, Assembled, UNCHANGED <<sent, damaged, overlapped>>,
         NEW f, f.id \in ReceivedIds, received' = received \/ Done(f)
  PROVE  ReceivedOK' /\ Assembled'
<1>1. CASE received' = received
  BY <1>1 DEF ReceivedOK, Assembled, InPlace
<1>2. CASE Handed(f)
  <2>1. /\ ReceivedOK'
        /\ \A u \in ReceivedIds : u # f.id => received'[u] = received[u]
        /\ Len(received[f.id]) \in Nat
        /\ DOMAIN received[f.id] = 1..Len(received[f.id])
        /\ DOMAIN received'[f.id] = 1..Len(received[f.id]) + 1
        /\ \A j \in 1..Len(received[f.id]) : received'[f.id][j] = received[f.id][j]
        /\ Packed(f, received'[f.id][Len(received[f.id]) + 1])
    BY <1>2, OneMore
  <2>2. DOMAIN received = ReceivedIds /\ DOMAIN received' = ReceivedIds
    BY <2>1 DEF ReceivedOK
  <2> DEFINE Good(u, parts) ==
               /\ \A k \in DOMAIN parts : InPlace(u, parts, k)
               /\ \A m, n \in Origins(parts) : m # n => <<u, n>> \in damaged \cup overlapped
  <2>3. \A u \in ReceivedIds : \A j \in DOMAIN received[u] : Good(u, received[u][j])
    BY <2>2 DEF Assembled
  <2>4. Good(f.id, received'[f.id][Len(received[f.id]) + 1])
    BY <2>1, PackedIsAssembled
  <2> HIDE DEF Good
  <2>5. ASSUME NEW u \in ReceivedIds, NEW j \in DOMAIN received'[u]
        PROVE  Good(u, received'[u][j])
    <3>1. CASE u = f.id
      <4>1. j \in 1..Len(received[u]) \/ j = Len(received[u]) + 1
        BY <2>1, <3>1
      <4> QED
        BY <2>1, <2>3, <2>4, <3>1, <4>1
    <3>2. CASE u # f.id
      BY <2>1, <2>3, <3>2
    <3> QED
      BY <3>1, <3>2
  <2>6. Assembled'
    <3>1. \A u \in DOMAIN received' : \A j \in DOMAIN received'[u] : Good(u, received'[u][j])
      BY <2>2, <2>5
    <3>2. sent' = sent /\ damaged' = damaged /\ overlapped' = overlapped
      OBVIOUS
    <3>3. ASSUME NEW u, NEW parts, NEW k, InPlace(u, parts, k) PROVE InPlace(u, parts, k)'
      BY <3>2, <3>3 DEF InPlace
    <3>4. \A u \in DOMAIN received' : \A j \in DOMAIN received'[u] :
            /\ \A k \in DOMAIN received'[u][j] : InPlace(u, received'[u][j], k)
            /\ \A m, n \in Origins(received'[u][j]) :
                 m # n => <<u, n>> \in damaged \cup overlapped
      BY <3>1 DEF Good
    <3> QED
      BY <3>2, <3>3, <3>4 DEF Assembled, Origins
  <2> QED
    BY <2>1, <2>6
<1> QED
  BY <1>1, <1>2 DEF Done

LEMMA BufferEmptied ==
  ASSUME NEW u \in Mapped, Valid(u)' = 0
  PROVE  BufferOK(u)'
<1>1. 0 < size_in_packets(u)
  BY Sizes
<1>2. \A k \in 0..0 - 1 : FALSE
  OBVIOUS
<1> QED
  BY <1>1, <1>2 DEF BufferOK

\* A buffer that a step leaves alone, while packets are sent and marked
LEMMA BufferLeft ==
  ASSUME EndsOK, EndsOK', NEW u \in Mapped, BufferOK(u), mapping_buffers'[u] = mapping_buffers[u],
         \A id \in Ids : sent[id] <= sent'[id],
         damaged \subseteq damaged', overlapped \subseteq overlapped'
  PROVE  BufferOK(u)'
<1>1. Valid(u)' = Valid(u) /\ \A k : Number(u, k)' = Number(u, k)
  BY DEF Valid, Number
<1>2. \A m, n : Together(u, m, n) => Together(u, m, n)'
  BY DEF Together, Marked
<1>3. u \in Ids => sent[u] \in Nat /\ sent'[u] \in Nat /\ sent[u] <= sent'[u]
  BY DEF EndsOK
<1>4. ASSUME NEW k \in 0..Valid(u) - 1
      PROVE  /\ u \in Ids /\ Number(u, k) \in 1..sent'[u]
             /\ mapping_buffers'[u].data_buffer[k]
                  = [id |-> u, n |-> Number(u, k), part |-> k, len |-> 8]
             /\ \A j \in 0..Valid(u) - 1 : Together(u, Number(u, j), Number(u, k))
  BY <1>3 DEF BufferOK
<1> QED
  BY <1>1, <1>2, <1>4 DEF BufferOK

LEMMA PacketsKept ==
  ASSUME TableOK, EndsOK, EndsOK', ReceivedOK, Assembled, \A u \in Mapped : BufferOK(u),
         UNCHANGED <<sent, damaged, overlapped>>,
         NEW f \in Frames, Genuine(f), Continues(f), can_interface_receive(f)
  PROVE  ReceivedOK' /\ Assembled' /\ \A u \in Mapped : BufferOK(u)'
<1>1. \/ \E t \in Mapped : Accepted(t, f) \/ Completed(t, f) \/ Restarted(t, f)
      \/ PassedOn(f)
  BY Outcomes
<1>2. ASSUME NEW u \in Mapped, mapping_buffers'[u] = mapping_buffers[u] PROVE BufferOK(u)'
  <2>1. \A id \in Ids : sent[id] <= sent'[id]
    BY DEF EndsOK
  <2> QED
    BY <1>2, <2>1, BufferLeft
<1>3. f.id \in ReceivedIds
  BY OwnIds DEF Frames
<1>4. CASE \E t \in Mapped : Accepted(t, f) \/ Completed(t, f) \/ Restarted(t, f)
  <2>1. PICK t \in Mapped : Accepted(t, f) \/ Completed(t, f) \/ Restarted(t, f)
    BY <1>4
  <2>2. received' = received \/ Done(f)
    BY <2>1 DEF Accepted, Completed, Restarted
  <2>3. ReceivedOK' /\ Assembled'
    BY <1>3, <2>2, DonePackets
  <2>4. BufferOK(t)'
    BY <2>1, BufferEmptied DEF Accepted, Completed, Restarted
  <2>5. OthersKept(t)
    BY <2>1 DEF Accepted, Completed, Restarted
  <2> QED
    BY <1>2, <2>3, <2>4, <2>5 DEF OthersKept
<1>5. CASE PassedOn(f)
  <2>1. mapping_buffers' = mapping_buffers /\ (received' = received \/ Done(f))
    BY <1>5 DEF PassedOn
  <2>2. ReceivedOK' /\ Assembled'
    BY <1>3, <2>1, DonePackets
  <2> QED
    BY <1>2, <2>1, <2>2
<1> QED
  BY <1>1, <1>4, <1>5

\* Packets that are put together stay so while others are sent and marked.
LEMMA AssembledStays ==
  ASSUME EndsOK, EndsOK', Assembled, received' = received,
         \A id \in Ids : sent[id] <= sent'[id],
         damaged \subseteq damaged', overlapped \subseteq overlapped'
  PROVE  Assembled'
<1>1. \A id \in Ids : \A n \in 1..sent[id] : n \in 1..sent'[id]
  BY DEF EndsOK
<1>2. ASSUME NEW id, NEW parts, NEW k, InPlace(id, parts, k) PROVE InPlace(id, parts, k)'
  BY <1>1, <1>2 DEF InPlace
<1> QED
  BY <1>2 DEF Assembled, Origins

-----------------------------------------------------------------------------
(* The bus: packets that are sent *)

LEMMA BusTypes ==
  ASSUME EndsOK
  PROVE  /\ \A id \in Ids : sent[id] \in Nat
         /\ \A t \in Mapped : Valid(t) \in Nat /\ size_in_packets(t) \in Nat \ {0}
         /\ out # None => out.i \in Nat /\ out.id \in Ids
         /\ \A f \in InSeq(tx) : f \in Frames /\ f.id \in Ids /\ f.n \in Nat /\ f.part \in Nat
<1>1. \A id \in Ids : sent[id] \in Nat
  BY DEF EndsOK
<1>2. \A t \in Mapped : Valid(t) \in Nat /\ size_in_packets(t) \in Nat \ {0}
  BY Sizes DEF EndsOK, Buffers, MAX_SEQNO, Valid
<1>3. out # None => out.i \in Nat /\ out.id \in Ids
  BY DEF EndsOK, OutOK, Outgoing, MAX_SEQNO
<1>4. \A f \in InSeq(tx) : f \in Frames /\ f.id \in Ids /\ f.n \in Nat /\ f.part \in Nat
  <2>1. \A k \in DOMAIN tx : tx[k] \in Frames
    BY DEF EndsOK
  <2> QED
    BY <2>1 DEF InSeq, Frames, MAX_SEQNO
<1> QED
  BY <1>1, <1>2, <1>3, <1>4

\* What the invariant says of an id depends on few things.
LEMMA MixedAsBefore ==
  ASSUME NEW t, MixedOK(t), \A n : Marked(t, n) => Marked(t, n)',
         mapping_buffers'[t] = mapping_buffers[t], sent'[t] = sent[t],
         Present(t) => Present(t)'
  PROVE  MixedOK(t)'
<1>1. Valid(t)' = Valid(t) /\ \A k : Number(t, k)' = Number(t, k)
  BY DEF Valid, Number
<1>2. ASSUME NEW k \in 0..Valid(t) - 1
      PROVE  Marked(t, Number(t, k))' \/ (Number(t, k)' = sent'[t] /\ Present(t)')
  BY <1>1 DEF MixedOK
<1> QED
  BY <1>1, <1>2 DEF MixedOK

LEMMA AloneAsBefore ==
  ASSUME NEW t, AloneOK(t), \A n : Marked(t, n) => Marked(t, n)',
         Valid(t)' = 0 \/ mapping_buffers'[t] = mapping_buffers[t], sent'[t] = sent[t],
         Coming(t)' = Coming(t), Cutting(t)' <=> Cutting(t), CutOff(t)' = CutOff(t)
  PROVE  AloneOK(t)'
<1> SUFFICES ASSUME Present(t)', ~Marked(t, sent[t])'
             PROVE  \E p \in 0..CutOff(t)' :
                      /\ Waits(t, p)'
                      /\ Valid(t)' > 0 /\ p > 0 =>
                           Valid(t)' = p /\ \A k \in 0..p - 1 : Number(t, k)' = sent'[t]
  BY DEF AloneOK
<1>1. Present(t) /\ ~Marked(t, sent[t])
  BY DEF Present
<1>2. PICK p \in 0..CutOff(t) :
         /\ Waits(t, p)
         /\ Valid(t) > 0 /\ p > 0 => Valid(t) = p /\ \A k \in 0..p - 1 : Number(t, k) = sent[t]
  BY <1>1 DEF AloneOK
<1>3. Waits(t, p)'
  BY <1>2 DEF Waits
<1>4. CASE Valid(t)' = 0
  BY <1>2, <1>3, <1>4
<1>5. CASE mapping_buffers'[t] = mapping_buffers[t]
  <2>1. Valid(t)' = Valid(t) /\ \A k : Number(t, k)' = Number(t, k)
    BY <1>5 DEF Valid, Number
  <2> QED
    BY <1>2, <1>3, <2>1
<1> QED
  BY <1>4, <1>5

LEMMA OrderAsBefore ==
  ASSUME NEW id, NextInOrder(id), received' = received, mapping_buffers' = mapping_buffers,
         overlapped \subseteq overlapped'
  PROVE  NextInOrder(id)' /\ Begun(id)' = Begun(id)
<1>1. Valid(id)' = Valid(id) /\ \A k : Number(id, k)' = Number(id, k)
  BY DEF Valid, Number
<1>2. \A m, n : InOrder(id, m, n) => InOrder(id, m, n)'
  BY DEF InOrder
<1>3. Begun(id)' = Begun(id)
  BY <1>1 DEF Begun
<1>4. ASSUME id \in Mapped, Valid(id) > 0, NEW j \in DOMAIN received[id]
      PROVE  InOrder(id, received[id][j][1].n, Number(id, 0))
  BY <1>4 DEF NextInOrder
<1> QED
  BY <1>1, <1>2, <1>3, <1>4 DEF NextInOrder

LEMMA DeliveredStays ==
  ASSUME DeliveredInOrder, received' = received, overlapped \subseteq overlapped'
  PROVE  DeliveredInOrder'
BY DEF DeliveredInOrder

LEMMA OthersStay ==
  ASSUME OthersNotThere, received' = received, mapping_buffers' = mapping_buffers
  PROVE  OthersNotThere'
BY DEF OthersNotThere, Valid

LEMMA Unmoved ==
  ASSUME BusOK, UNCHANGED <<sent, out, tx, mapping_buffers, received, damaged, overlapped>>
  PROVE  BusOK'
<1>1. InSeq(tx)' = InSeq(tx)
  BY DEF InSeq
<1>2. ASSUME NEW id
      PROVE  /\ Coming(id)' = Coming(id) /\ (Cutting(id)' <=> Cutting(id))
             /\ CutOff(id)' = CutOff(id) /\ (Present(id)' <=> Present(id))
             /\ \A n : Marked(id, n)' <=> Marked(id, n)
  BY <1>1 DEF Coming, Cutting, CutOff, Present, Marked
<1>3. WaitingOK'
  BY <1>1 DEF BusOK, WaitingOK, Cutting, WellFormed
<1>4. ASSUME NEW id \in Ids PROVE BegunOK(id)' /\ NextInOrder(id)'
  <2>1. NextInOrder(id)' /\ Begun(id)' = Begun(id)
    BY OrderAsBefore DEF BusOK, OrderOK
  <2>2. BegunOK(id)
    BY DEF BusOK, OrderOK
  <2> QED
    BY <1>2, <2>1, <2>2 DEF BegunOK, InOrder
<1>5. OrderOK'
  BY <1>4, DeliveredStays, OthersStay DEF BusOK, OrderOK
<1>6. ASSUME NEW t \in Mapped \cap Ids PROVE MixedOK(t)' /\ AloneOK(t)'
  BY <1>2, MixedAsBefore, AloneAsBefore DEF BusOK
<1> QED
  BY <1>3, <1>5, <1>6 DEF BusOK

\* The packets that wait together are marked when the last of them is sent.
LEMMA Overlaps ==
  ASSUME EndsOK, NEW p \in Packets, StartSend(p)
  PROVE  /\ overlapped \subseteq overlapped' /\ damaged' = damaged
         /\ UNCHANGED <<tx, mapping_buffers, received>>
         /\ Begins(p) => \A f \in Coming(p.id) :
              <<p.id, f.n>> \in overlapped' /\ <<p.id, sent'[p.id]>> \in overlapped'
         /\ Begins(p) \/ UNCHANGED <<sent, out, overlapped>>
<1>1. UNCHANGED <<tx, mapping_buffers, received, damaged>>
  BY DEF StartSend, receiver, lossy
<1>2. CASE UNCHANGED <<sender, overlapped>>
  <2>1. UNCHANGED <<sent, out, overlapped>>
    BY <1>2 DEF sender
  <2>2. ~Begins(p)
    <3>1. p.id \in Ids /\ sent[p.id] \in Nat
      BY PacketTypes DEF EndsOK
    <3> QED
      BY <2>1, <3>1 DEF Begins, EndsOK
  <2> QED
    BY <1>1, <2>1, <2>2
<1>3. CASE ~UNCHANGED <<sender, overlapped>>
  <2>1. /\ out' = [id |-> p.id, n |-> sent[p.id] + 1, remaining |-> p.length, i |-> 0]
        /\ sent' = [sent EXCEPT ![p.id] = sent[p.id] + 1]
        /\ overlapped' = overlapped \cup (IF WaitingOf(p.id) = {} THEN {} ELSE
             {<<p.id, n>> : n \in WaitingOf(p.id) \cup {sent[p.id] + 1}})
    BY <1>3 DEF StartSend
  <2>2. p.id \in Ids /\ sent[p.id] \in Nat /\ sent'[p.id] = sent[p.id] + 1
    BY <2>1, PacketTypes DEF EndsOK
  <2>3. ASSUME NEW f \in Coming(p.id)
        PROVE  <<p.id, f.n>> \in overlapped' /\ <<p.id, sent'[p.id]>> \in overlapped'
    <3>1. DOMAIN tx = 1..Len(tx)
      BY DEF EndsOK
    <3>2. f.n \in WaitingOf(p.id)
      BY <3>1 DEF Coming, InSeq, WaitingOf
    <3> QED
      BY <2>1, <2>2, <3>2
  <2>4. Begins(p)
    <3>1. p.length \in 0..255
      BY PacketTypes
    <3>2. out' \in Outgoing
      BY <2>1, <2>2, <3>1 DEF Outgoing, MAX_SEQNO
    <3> QED
      BY <2>1, <3>2, NoneAssumption DEF Begins, Outgoing
  <2> QED
    BY <1>1, <2>1, <2>3, <2>4
<1> QED
  BY <1>2, <1>3

LEMMA BusStarts ==
  ASSUME TableOK, EndsOK, BusOK, NEW p \in Packets, StartSend(p)
  PROVE  BusOK'
<1>1. PICK id : id = p.id
  OBVIOUS
<1>2. /\ out = None /\ id \in Ids
      /\ overlapped \subseteq overlapped' /\ damaged' = damaged
      /\ tx' = tx /\ mapping_buffers' = mapping_buffers /\ received' = received
  BY <1>1, Starts, Overlaps, PacketTypes
<1>3. CASE UNCHANGED <<sent, out, overlapped>>
  BY <1>2, <1>3, Unmoved
<1>4. CASE Begins(p)
  <2>1. /\ out' # None /\ out'.id = id /\ out'.i = 0
        /\ sent' = [sent EXCEPT ![id] = @ + 1]
        /\ \A f \in Coming(id) : <<id, f.n>> \in overlapped' /\ <<id, sent'[id]>> \in overlapped'
    BY <1>1, <1>4, Overlaps DEF Begins
  <2>2. /\ \A u \in Ids : sent[u] \in Nat /\ (u # id => sent'[u] = sent[u])
        /\ sent'[id] = sent[id] + 1
    BY <1>2, <2>1 DEF EndsOK
  <2>3. ASSUME NEW u
        PROVE  /\ Coming(u)' = Coming(u) /\ ~Cutting(u) /\ (Cutting(u)' <=> u = id)
               /\ \A n : Marked(u, n) => Marked(u, n)'
    BY <1>2, <2>1 DEF Coming, Cutting, Marked, InSeq
  <2>4. InSeq(tx)' = InSeq(tx) /\ WaitingOK /\ OrderOK
    BY <1>2 DEF InSeq, BusOK
  <2>5. WaitingOK'
    <3>1. ASSUME NEW f \in InSeq(tx)
          PROVE  /\ f.n \in 1..sent'[f.id]
                 /\ Cutting(f.id)' => f.n # sent'[f.id]
                 /\ f.n < sent'[f.id] => \A m \in f.n..sent'[f.id] : <<f.id, m>> \in overlapped'
      <4>1. /\ f.id \in Ids /\ f.n \in Nat /\ f.n \in 1..sent[f.id]
            /\ f.n < sent[f.id] => \A m \in f.n..sent[f.id] : <<f.id, m>> \in overlapped
        BY <2>4, BusTypes DEF WaitingOK
      <4>2. CASE f.id # id
        BY <1>2, <2>2, <2>3, <4>1, <4>2
      <4>3. CASE f.id = id
        <5>1. <<id, f.n>> \in overlapped' /\ <<id, sent'[id]>> \in overlapped'
          BY <2>1, <4>3 DEF Coming
        <5>2. ASSUME NEW m \in f.n..sent'[id] PROVE <<id, m>> \in overlapped'
          <6>1. m = sent'[id] \/ m = f.n \/ (f.n < sent[id] /\ m \in f.n..sent[id])
            BY <1>2, <2>2, <4>1, <4>3
          <6> QED
            BY <1>2, <4>1, <4>3, <5>1, <6>1
        <5>3. f.n \in 1..sent'[id] /\ f.n # sent'[id]
          BY <1>2, <2>2, <4>1, <4>3
        <5> QED
          BY <4>3, <5>2, <5>3
      <4> QED
        BY <4>2, <4>3
    <3>2. /\ \A j, k \in DOMAIN tx' : tx'[j] = tx'[k] => j = k
          /\ \A f, g \in InSeq(tx) : f.id = g.id /\ f.n = g.n /\ f.part = g.part => f = g
          /\ \A f \in InSeq(tx) : WellFormed(f)
      BY <1>2, <2>4 DEF WaitingOK
    <3> QED
      BY <2>4, <3>1, <3>2 DEF WaitingOK, WellFormed
  <2>6. OrderOK'
    <3>1. ASSUME NEW u \in Ids PROVE BegunOK(u)' /\ NextInOrder(u)'
      <4>1. NextInOrder(u)' /\ Begun(u)' = Begun(u)
        BY <1>2, <2>4, OrderAsBefore DEF OrderOK
      <4>2. ASSUME NEW n \in Begun(u)
            PROVE  /\ n \in 1..sent'[u] /\ (Cutting(u)' => n # sent'[u])
                   /\ \A f \in Coming(u) : f.part = 0 => InOrder(u, n, f.n)'
        <5>1. /\ n \in 1..sent[u]
              /\ \A f \in Coming(u) : f.part = 0 => InOrder(u, n, f.n)
          BY <2>4 DEF OrderOK, BegunOK
        <5>2. n \in 1..sent'[u] /\ (u = id => n # sent'[u])
          BY <2>2, <5>1
        <5> QED
          BY <1>2, <2>3, <5>1, <5>2 DEF InOrder
      <4> QED
        BY <2>3, <4>1, <4>2 DEF BegunOK
    <3> QED
      BY <1>2, <2>4, <3>1, DeliveredStays, OthersStay DEF OrderOK
  <2>7. ASSUME NEW t \in Mapped \cap Ids PROVE MixedOK(t)' /\ AloneOK(t)'
    <3>1. MixedOK(t) /\ AloneOK(t)
      BY DEF BusOK
    <3>2. CASE t # id
      <4>1. /\ sent'[t] = sent[t] /\ Coming(t)' = Coming(t) /\ (Cutting(t)' <=> Cutting(t))
            /\ CutOff(t)' = CutOff(t) /\ (Present(t)' <=> Present(t))
        BY <2>2, <2>3, <3>2 DEF CutOff, Present
      <4> QED
        BY <1>2, <2>3, <3>1, <4>1, MixedAsBefore, AloneAsBefore
    <3>3. CASE t = id
      <4>1. MixedOK(t)'
        <5>1. Valid(t)' = Valid(t) /\ \A k : Number(t, k)' = Number(t, k)
          BY <1>2 DEF Valid, Number
        <5>2. ASSUME NEW k \in 0..Valid(t) - 1, ~Marked(t, Number(t, k))
              PROVE  Marked(t, Number(t, k))'
          <6>1. Number(t, k) = sent[t] /\ Present(t)
            BY <3>1, <5>2 DEF MixedOK
          <6>2. PICK f : f \in Coming(t)
            BY <2>3, <6>1 DEF Present
          <6>3. /\ f.n \in 1..sent[t] /\ sent[t] \in Nat
                /\ f.n < sent[t] => <<t, sent[t]>> \in overlapped
            BY <2>2, <2>4, <6>2 DEF WaitingOK, Coming
          <6>4. <<t, sent[t]>> \in overlapped'
            <7>1. <<t, f.n>> \in overlapped'
              BY <2>1, <3>3, <6>2
            <7>2. f.n = sent[t] \/ f.n < sent[t]
              BY <6>3
            <7> QED
              BY <1>2, <6>3, <7>1, <7>2
          <6> QED
            BY <5>1, <6>1, <6>4 DEF Marked
        <5> QED
          BY <2>3, <5>1, <5>2 DEF MixedOK
      <4>2. AloneOK(t)'
        <5>1. CASE Coming(t) # {}
          BY <2>1, <3>3, <5>1 DEF AloneOK, Marked
        <5>2. CASE Coming(t) = {}
          <6>1. CutOff(t)' = 0 /\ Coming(t)' = {}
            BY <2>1, <2>3, <3>3, <5>2 DEF CutOff
          <6>2. Waits(t, 0)'
            BY <6>1 DEF Waits
          <6> QED
            BY <6>1, <6>2 DEF AloneOK
        <5> QED
          BY <5>1, <5>2
      <4> QED
        BY <4>1, <4>2
    <3> QED
      BY <3>2, <3>3
  <2> QED
    BY <2>5, <2>6, <2>7 DEF BusOK
<1> QED
  BY <1>3, <1>4, Overlaps

-----------------------------------------------------------------------------
(* The bus: frames that are sent, and frames that are lost *)

\* What a turn of the loop leaves of the packet that was cut up
LEMMA NextTurns ==
  ASSUME TableOK, EndsOK, CuttingOK, out # None, Advance, UNCHANGED sent
  PROVE  /\ out.id \in Ids /\ out.i \in Nat /\ sent[out.id] \in Nat \ {0}
         /\ \A u : Cutting(u)' => u = out.id /\ out'.i = out.i + 1
         /\ \A u \in Mapped : u = out.id => CutOff(u)' = out.i + 1 /\ CutOff(u) = out.i
<1>1. CuttingOK' /\ (GoesOn \/ WasLast)
  BY Turns
<1>2. out.id \in Ids /\ out.i \in Nat /\ sent[out.id] \in Nat \ {0}
  BY BusTypes DEF CuttingOK
<1>3. out.id \in Mapped => ~IsWrapped(out.id)
  BY DEF TableOK
<1>4. ASSUME NEW u, u = out.id PROVE Cutting(u)
  BY <1>4 DEF Cutting
<1>5. CASE GoesOn
  BY <1>2, <1>4, <1>5 DEF GoesOn, Cutting, CutOff
<1>6. CASE WasLast
  BY <1>2, <1>3, <1>4, <1>6 DEF WasLast, Cutting, CutOff
<1> QED
  BY <1>1, <1>2, <1>5, <1>6

LEMMA OthersCut ==
  ASSUME out # None, \A u : Cutting(u)' => u = out.id, NEW u, u # out.id
  PROVE  /\ ~Cutting(u) /\ (Cutting(u)' <=> Cutting(u)) /\ CutOff(u)' = CutOff(u)
BY DEF Cutting, CutOff

\* A turn of the loop adds no packet to those that are begun.
LEMMA OrderTurns ==
  ASSUME OrderOK, out # None, out.i \in Nat, UNCHANGED <<sent, received, mapping_buffers, overlapped>>,
         \A u : Cutting(u)' => u = out.id /\ out'.i = out.i + 1,
         \A u \in Ids : \A n \in Begun(u) : \A f \in Coming(u)' :
            f.part = 0 => InOrder(u, n, f.n)
  PROVE  OrderOK'
<1>1. ASSUME NEW u \in Ids PROVE BegunOK(u)' /\ NextInOrder(u)'
  <2>1. NextInOrder(u)' /\ Begun(u)' = Begun(u)
    BY OrderAsBefore DEF OrderOK
  <2>2. ASSUME NEW n \in Begun(u)
        PROVE  /\ n \in 1..sent'[u] /\ ~(Cutting(u)' /\ out'.i = 0)
               /\ \A f \in Coming(u)' : f.part = 0 => InOrder(u, n, f.n)'
    <3>1. n \in 1..sent[u]
      BY DEF OrderOK, BegunOK
    <3>2. \A m : InOrder(u, n, m)' <=> InOrder(u, n, m)
      BY DEF InOrder
    <3>3. out.i + 1 # 0
      OBVIOUS
    <3> QED
      BY <3>1, <3>2, <3>3
  <2> QED
    BY <2>1, <2>2 DEF BegunOK
<1> QED
  BY <1>1, DeliveredStays, OthersStay DEF OrderOK

LEMMA BusSends ==
  ASSUME TableOK, EndsOK, CuttingOK, BusOK, SendFrame
  PROVE  BusOK'
<1>1. /\ out # None /\ tx' = Append(tx, NextFrame) /\ Advance
      /\ UNCHANGED <<sent, mapping_buffers, received, damaged, overlapped>>
  BY DEF SendFrame, receiver, lossy
<1>2. PICK id, i, g : id = out.id /\ i = out.i /\ g = NextFrame
  OBVIOUS
<1>3. /\ g \in Frames /\ WellFormed(g) /\ g.id = id /\ g.part = i /\ g.n = sent[id]
      /\ id \in Ids /\ i \in Nat /\ sent[id] \in Nat \ {0}
  BY <1>1, <1>2, NextOK, NextTurns
<1>4. /\ Cutting(id) /\ (Cutting(id)' => out'.i = i + 1) /\ \A u : Cutting(u)' => u = id
      /\ id \in Mapped => CutOff(id)' = i + 1 /\ CutOff(id) = i
  BY <1>1, <1>2, NextTurns DEF Cutting
<1>5. /\ DOMAIN tx = 1..Len(tx) /\ Len(tx) \in Nat
      /\ DOMAIN tx' = 1..Len(tx) + 1
      /\ \A k \in 1..Len(tx) : tx'[k] = tx[k]
      /\ tx'[Len(tx) + 1] = g
  <2>1. tx \in Seq(Frames)
    BY DEF EndsOK
  <2>2. tx' = Append(tx, g)
    BY <1>1, <1>2
  <2> QED
    BY <1>3, <2>1, <2>2, AppendProperties, LenProperties
<1>6. InSeq(tx)' = InSeq(tx) \cup {g}
  BY <1>5 DEF InSeq
<1>7. \A u : Coming(u)' = IF u = id THEN Coming(u) \cup {g} ELSE Coming(u)
  BY <1>3, <1>6 DEF Coming
<1>8. WaitingOK
  BY DEF BusOK
<1>9. \A f \in InSeq(tx) : f.id = id /\ f.n = sent[id] => f.part < i
  BY <1>2, <1>4, <1>8 DEF WaitingOK
<1>10. g \notin InSeq(tx)
  BY <1>3, <1>9
<1>11. WaitingOK'
  <2>1. ASSUME NEW j \in DOMAIN tx', NEW k \in DOMAIN tx', tx'[j] = tx'[k]
        PROVE  j = k
    <3>1. \A l \in 1..Len(tx) : tx[l] # g
      BY <1>5, <1>10 DEF InSeq
    <3>2. CASE j \in 1..Len(tx) /\ k \in 1..Len(tx)
      BY <1>5, <1>8, <2>1, <3>2 DEF WaitingOK
    <3>3. CASE j = Len(tx) + 1 \/ k = Len(tx) + 1
      BY <1>5, <2>1, <3>1, <3>3
    <3> QED
      BY <1>5, <3>2, <3>3
  <2>2. ASSUME NEW f \in InSeq(tx)'
        PROVE  /\ WellFormed(f) /\ f.n \in 1..sent'[f.id]
               /\ Cutting(f.id)' /\ f.n = sent'[f.id] => f.part < out'.i
               /\ f.n < sent'[f.id] => \A m \in f.n..sent'[f.id] : <<f.id, m>> \in overlapped'
    <3>1. CASE f \in InSeq(tx)
      <4>1. /\ WellFormed(f) /\ f.n \in 1..sent[f.id]
            /\ f.n < sent[f.id] => \A m \in f.n..sent[f.id] : <<f.id, m>> \in overlapped
        BY <1>8, <3>1 DEF WaitingOK
      <4>2. Cutting(f.id)' /\ f.n = sent[f.id] => f.part < out'.i
        <5>1. f.id = id /\ f.n = sent[f.id] => f.part < i /\ f.part \in Nat
          BY <1>9, <3>1, BusTypes
        <5> QED
          BY <1>3, <1>4, <5>1
      <4> QED
        BY <1>1, <4>1, <4>2
    <3>2. CASE f = g
      <4>1. g.n \in 1..sent[id] /\ ~(g.n < sent[id]) /\ i < i + 1
        BY <1>3
      <4> QED
        BY <1>1, <1>3, <1>4, <3>2, <4>1
    <3> QED
      BY <1>6, <3>1, <3>2
  <2>3. ASSUME NEW f \in InSeq(tx)', NEW h \in InSeq(tx)',
               f.id = h.id, f.n = h.n, f.part = h.part
        PROVE  f = h
    <3>1. \A e \in InSeq(tx) : ~(e.id = id /\ e.n = sent[id] /\ e.part = i)
      BY <1>3, <1>9
    <3>2. CASE f \in InSeq(tx) /\ h \in InSeq(tx)
      BY <1>8, <2>3, <3>2 DEF WaitingOK
    <3> QED
      BY <1>3, <1>6, <2>3, <3>1, <3>2
  <2> QED
    BY <2>1, <2>2, <2>3 DEF WaitingOK, WellFormed
<1>12. OrderOK'
  <2>1. ASSUME NEW u \in Ids, NEW n \in Begun(u), NEW f \in Coming(u)', f.part = 0
        PROVE  InOrder(u, n, f.n)
    <3>1. BegunOK(u)
      BY DEF BusOK, OrderOK
    <3>2. CASE f \in Coming(u)
      BY <2>1, <3>1, <3>2 DEF BegunOK
    <3>3. CASE f \notin Coming(u)
      <4>1. u = id /\ f = g
        BY <1>7, <2>1, <3>3
      <4>2. n \in 1..sent[id] /\ n # sent[id]
        BY <1>2, <1>3, <1>4, <2>1, <3>1, <4>1 DEF BegunOK
      <4>3. n < g.n
        BY <1>3, <4>2
      <4> QED
        BY <4>1, <4>3 DEF InOrder
    <3> QED
      BY <3>2, <3>3
  <2>2. OrderOK /\ out.i \in Nat /\ \A u : Cutting(u)' => u = out.id /\ out'.i = out.i + 1
    BY <1>2, <1>3, <1>4 DEF BusOK
  <2> QED
    BY <1>1, <2>1, <2>2, OrderTurns
<1>13. ASSUME NEW t \in Mapped \cap Ids PROVE MixedOK(t)' /\ AloneOK(t)'
  <2>1. MixedOK(t) /\ AloneOK(t) /\ \A n : Marked(t, n)' <=> Marked(t, n)
    BY <1>1 DEF BusOK, Marked
  <2>2. MixedOK(t)'
    <3>1. Present(t) => Present(t)'
      <4>1. CASE t = id
        BY <1>7, <4>1 DEF Present
      <4>2. CASE t # id
        BY <1>1, <1>2, <1>4, <1>7, <4>2, OthersCut DEF Present
      <4> QED
        BY <4>1, <4>2
    <3> QED
      BY <1>1, <2>1, <3>1, MixedAsBefore
  <2>3. CASE t # id
    <3>1. Coming(t)' = Coming(t) /\ (Cutting(t)' <=> Cutting(t)) /\ CutOff(t)' = CutOff(t)
      BY <1>1, <1>2, <1>4, <1>7, <2>3, OthersCut
    <3> QED
      BY <1>1, <2>1, <2>2, <3>1, AloneAsBefore
  <2>4. CASE t = id
    <3>1. CutOff(t)' = i + 1 /\ CutOff(t) = i /\ Present(t) /\ Coming(t)' = Coming(t) \cup {g}
      BY <1>4, <1>7, <2>4 DEF Present
    <3>2. ASSUME ~Marked(t, sent[t])'
          PROVE  \E p \in 0..CutOff(t)' :
                   /\ Waits(t, p)'
                   /\ Valid(t)' > 0 /\ p > 0 =>
                        Valid(t)' = p /\ \A k \in 0..p - 1 : Number(t, k)' = sent'[t]
      <4>1. ~Marked(t, sent[t])
        BY <1>1, <3>2 DEF Marked
      <4>2. PICK p \in 0..i :
               /\ Waits(t, p)
               /\ Valid(t) > 0 /\ p > 0 =>
                    Valid(t) = p /\ \A k \in 0..p - 1 : Number(t, k) = sent[t]
        BY <2>1, <3>1, <4>1 DEF AloneOK
      <4>3. p \in 0..i + 1 /\ p..(i + 1) - 1 = p..i - 1 \cup {i}
        BY <1>3
      <4>4. Waits(t, p)'
        <5>1. {f.part : f \in Coming(t)'} = {f.part : f \in Coming(t)} \cup {i}
          BY <1>3, <3>1
        <5> QED
          BY <3>1, <4>2, <4>3, <5>1 DEF Waits
      <4>5. Valid(t)' = Valid(t) /\ \A k : Number(t, k)' = Number(t, k)
        BY <1>1 DEF Valid, Number
      <4> QED
        BY <1>1, <3>1, <4>2, <4>3, <4>4, <4>5
    <3>3. AloneOK(t)'
      BY <3>2 DEF AloneOK
    <3> QED
      BY <2>2, <3>3
  <2> QED
    BY <2>3, <2>4
<1> QED
  BY <1>11, <1>12, <1>13 DEF BusOK

LEMMA BusLoses ==
  ASSUME TableOK, EndsOK, CuttingOK, BusOK, LoseFrame
  PROVE  BusOK'
<1>1. /\ out # None /\ Advance
      /\ damaged' = damaged \cup {<<out.id, out.n>>}
      /\ UNCHANGED <<sent, tx, mapping_buffers, received, overlapped>>
  BY DEF LoseFrame, receiver
<1>2. PICK id, i : id = out.id /\ i = out.i
  OBVIOUS
<1>3. id \in Ids /\ i \in Nat /\ out.n = sent[id]
  BY <1>1, <1>2, NextTurns DEF CuttingOK
<1>4. Cutting(id) /\ (Cutting(id)' => out'.i = i + 1) /\ \A u : Cutting(u)' => u = id
  BY <1>1, <1>2, NextTurns DEF Cutting
<1>5. InSeq(tx)' = InSeq(tx) /\ \A u : Coming(u)' = Coming(u)
  BY <1>1 DEF InSeq, Coming
<1>6. Marked(id, sent[id])' /\ \A u, n : Marked(u, n) => Marked(u, n)'
  BY <1>1, <1>2, <1>3 DEF Marked
<1>7. WaitingOK'
  <2>1. ASSUME NEW f \in InSeq(tx)
        PROVE  Cutting(f.id)' /\ f.n = sent'[f.id] => f.part < out'.i
    <3>1. f.id = id /\ f.n = sent[id] => f.part < i /\ f.part \in Nat
      BY <1>2, <1>4, BusTypes DEF BusOK, WaitingOK
    <3> QED
      BY <1>1, <1>3, <1>4, <3>1
  <2> QED
    BY <1>1, <1>5, <2>1 DEF BusOK, WaitingOK, WellFormed
<1>8. OrderOK'
  <2>1. \A u \in Ids : \A n \in Begun(u) : \A f \in Coming(u)' :
           f.part = 0 => InOrder(u, n, f.n)
    BY <1>5 DEF BusOK, OrderOK, BegunOK
  <2>2. OrderOK /\ out.i \in Nat /\ \A u : Cutting(u)' => u = out.id /\ out'.i = out.i + 1
    BY <1>2, <1>3, <1>4 DEF BusOK
  <2> QED
    BY <1>1, <2>1, <2>2, OrderTurns
<1>9. ASSUME NEW t \in Mapped \cap Ids PROVE MixedOK(t)' /\ AloneOK(t)'
  <2>1. MixedOK(t) /\ AloneOK(t)
    BY DEF BusOK
  <2>2. CASE t = id
    <3>1. AloneOK(t)'
      BY <1>6, <2>2 DEF AloneOK
    <3>2. MixedOK(t)'
      <4>1. Valid(t)' = Valid(t) /\ (\A k : Number(t, k)' = Number(t, k)) /\ sent'[t] = sent[t]
        BY <1>1 DEF Valid, Number
      <4>2. ASSUME NEW k \in 0..Valid(t) - 1 PROVE Marked(t, Number(t, k))'
        <5>1. Marked(t, Number(t, k)) \/ Number(t, k) = sent[t]
          BY <2>1 DEF MixedOK
        <5>2. Marked(t, Number(t, k)) => Marked(t, Number(t, k))'
          BY <1>1, <4>1 DEF Marked
        <5>3. Number(t, k) = sent[t] => Marked(t, Number(t, k))'
          BY <1>1, <1>2, <1>3, <2>2, <4>1 DEF Marked
        <5> QED
          BY <5>1, <5>2, <5>3
      <4> QED
        BY <4>1, <4>2 DEF MixedOK
    <3> QED
      BY <3>1, <3>2
  <2>3. CASE t # id
    <3>1. /\ Coming(t)' = Coming(t) /\ (Cutting(t)' <=> Cutting(t)) /\ CutOff(t)' = CutOff(t)
          /\ Present(t) => Present(t)'
      BY <1>1, <1>2, <1>4, <1>5, <2>3, OthersCut DEF Present
    <3> QED
      BY <1>1, <1>6, <2>1, <3>1, MixedAsBefore, AloneAsBefore
  <2> QED
    BY <2>2, <2>3
<1> QED
  BY <1>7, <1>8, <1>9 DEF BusOK

-----------------------------------------------------------------------------
(* The bus: arrivals *)

LEMMA LowestPart ==
  ASSUME NEW f \in Frames, NEW g \in Frames, WellFormed(f), WellFormed(g),
         f.id = g.id, ~IsWrapped(f.id), f.sid <= g.sid
  PROVE  f.part <= g.part
<1>1. f.part \in Nat /\ g.part \in Nat
  BY DEF Frames, MAX_SEQNO
<1>2. /\ f.id \in Mapped
      /\ f.sid = getCanID(f.id, f.part) /\ g.sid = getCanID(f.id, g.part)
  BY DEF WellFormed
<1>3. can_mappings[f.id].remapped_id \in Int /\ can_mappings[f.id].remapped_board \in Int
  BY <1>2, MappingAssumption
<1> QED
  BY <1>1, <1>2, <1>3 DEF getCanID

LEMMA Leaves ==
  ASSUME EndsOK, WaitingOK, NEW k \in 1..Len(tx), tx' = Without(k)
  PROVE  /\ InSeq(tx)' = InSeq(tx) \ {tx[k]}
         /\ \A i, j \in DOMAIN tx' : tx'[i] = tx'[j] => i = j
<1>1. tx \in Seq(Frames) /\ DOMAIN tx = 1..Len(tx) /\ Len(tx) \in Nat
  BY DEF EndsOK
<1> DEFINE n == Len(tx)
           at_(j) == IF j < k THEN j ELSE j + 1
<1>2. DOMAIN tx' = 1..n - 1 /\ \A j \in 1..n - 1 : tx'[j] = tx[at_(j)]
  BY DEF Without
<1>3. n \in Nat /\ k \in 1..n /\ DOMAIN tx = 1..n
  BY <1>1
<1>4. \A i, j \in 1..n : tx[i] = tx[j] => i = j
  BY <1>3 DEF WaitingOK
<1> HIDE DEF n
<1>5. \A j \in 1..n - 1 : at_(j) \in 1..n /\ at_(j) # k
  BY <1>3
<1>6. \A i, j \in 1..n - 1 : at_(i) = at_(j) => i = j
  BY <1>3
<1>7. \A j \in 1..n : j # k => \E i \in 1..n - 1 : at_(i) = j
  <2>1. ASSUME NEW j \in 1..n, j # k PROVE \E i \in 1..n - 1 : at_(i) = j
    <3>1. CASE j < k
      <4>1. j \in 1..n - 1 /\ at_(j) = j
        BY <1>3, <3>1
      <4> QED
        BY <4>1
    <3>2. CASE j > k
      <4>1. j - 1 \in 1..n - 1 /\ at_(j - 1) = j
        BY <1>3, <3>2
      <4> QED
        BY <4>1
    <3> QED
      BY <1>3, <2>1, <3>1, <3>2
  <2> QED
    BY <2>1
<1> HIDE DEF at_
<1>8. \A i, j \in DOMAIN tx' : tx'[i] = tx'[j] => i = j
  BY <1>2, <1>4, <1>5, <1>6
<1>9. {tx'[j] : j \in 1..n - 1} = {tx[j] : j \in 1..n} \ {tx[k]}
  <2>1. ASSUME NEW j \in 1..n - 1 PROVE tx'[j] \in {tx[i] : i \in 1..n} /\ tx'[j] # tx[k]
    BY <1>2, <1>3, <1>4, <1>5
  <2>2. ASSUME NEW j \in 1..n, tx[j] # tx[k] PROVE \E i \in 1..n - 1 : tx'[i] = tx[j]
    BY <1>2, <1>7, <2>2
  <2> QED
    BY <2>1, <2>2
<1> QED
  BY <1>2, <1>3, <1>8, <1>9 DEF InSeq

LEMMA ArrivesFirst ==
  ASSUME TableOK, EndsOK, WaitingOK, NEW k \in 1..Len(tx), Arbitrated(k), NEW f, f = tx[k]
  PROVE  /\ f \in InSeq(tx) /\ f \in Frames /\ Genuine(f) /\ f \in Coming(f.id)
         /\ \A g \in Coming(f.id) : f.part <= g.part
<1>1. DOMAIN tx = 1..Len(tx)
  BY DEF EndsOK
<1>2. f \in InSeq(tx) /\ f \in Frames /\ Genuine(f) /\ f \in Coming(f.id)
  BY <1>1, BusTypes DEF WaitingOK, InSeq, Genuine, Coming
<1>3. ASSUME NEW g \in Coming(f.id) PROVE f.part <= g.part
  <2>1. /\ g \in Frames /\ WellFormed(g) /\ g.id = f.id /\ f.sid <= g.sid /\ g.part \in Nat
    <3>1. PICK j \in 1..Len(tx) : g = tx[j]
      BY <1>1 DEF Coming, InSeq
    <3>2. g \in InSeq(tx) /\ g.id = f.id
      BY DEF Coming
    <3> QED
      BY <3>1, <3>2, BusTypes DEF WaitingOK, Arbitrated
  <2>2. CASE IsWrapped(f.id)
    BY <1>2, <2>1, <2>2 DEF Genuine, WellFormed
  <2>3. CASE ~IsWrapped(f.id)
    BY <1>2, <2>1, <2>3, LowestPart DEF Genuine
  <2> QED
    BY <2>2, <2>3
<1> QED
  BY <1>2, <1>3

\* The frame of a mapping that leaves first, of a last packet that is not marked: all
\* parts from that one on wait, and those before it are all that is in the buffer.
LEMMA NextOfPacket ==
  ASSUME EndsOK, WaitingOK, NEW t \in Mapped \cap Ids, AloneOK(t), ~Marked(t, sent[t]),
         NEW f \in Coming(t), \A g \in Coming(t) : f.part <= g.part
  PROVE  /\ \A g \in Coming(t) : g.n = sent[t]
         /\ Waits(t, f.part) /\ f.part \in 0..CutOff(t) - 1 /\ CutOff(t) \in Nat
         /\ Valid(t) > 0 /\ f.part > 0 =>
              Valid(t) = f.part /\ \A k \in 0..f.part - 1 : Number(t, k) = sent[t]
<1>1. CutOff(t) \in Nat
  BY BusTypes DEF CutOff, Cutting
<1>2. PICK p \in 0..CutOff(t) :
         /\ Waits(t, p)
         /\ Valid(t) > 0 /\ p > 0 => Valid(t) = p /\ \A k \in 0..p - 1 : Number(t, k) = sent[t]
  BY DEF AloneOK, Present
<1>3. ASSUME NEW g \in Coming(t) PROVE g.n = sent[t] /\ g.part \in Nat
  <2>1. /\ g.n \in 1..sent[t] /\ sent[t] \in Nat /\ g.part \in Nat
        /\ g.n < sent[t] => \A m \in g.n..sent[t] : <<t, m>> \in overlapped
    BY BusTypes DEF WaitingOK, Coming
  <2>2. ~(g.n < sent[t])
    <3>1. SUFFICES ASSUME g.n < sent[t] PROVE FALSE
      OBVIOUS
    <3>2. sent[t] \in g.n..sent[t]
      BY <2>1, <3>1
    <3> QED
      BY <2>1, <3>1, <3>2 DEF Marked
  <2> QED
    BY <2>1, <2>2
<1>4. f.part = p /\ p <= CutOff(t) - 1
  <2>1. f.part \in p..CutOff(t) - 1
    BY <1>2 DEF Waits
  <2>2. p \in p..CutOff(t) - 1
    BY <1>1, <2>1
  <2>3. PICK g \in Coming(t) : g.part = p
    BY <1>2, <2>2 DEF Waits
  <2> QED
    BY <1>1, <2>1, <2>3
<1> QED
  BY <1>1, <1>2, <1>3, <1>4

\* The frame that leaves first belongs where its mapping's buffer would take it.
LEMMA ArrivesInPlace ==
  ASSUME TableOK, EndsOK, BusOK, NEW f \in Frames, Genuine(f), f \in Coming(f.id),
         \A g \in Coming(f.id) : f.part <= g.part
  PROVE  Continues(f)
<1> SUFFICES ASSUME ~IsWrapped(f.id), Valid(f.id) = f.part, NEW k \in 0..f.part - 1
             PROVE  Together(f.id, Number(f.id, k), f.n)
  BY DEF Continues
<1>1. PICK t : t = f.id
  OBVIOUS
<1>2. t \in Mapped \cap Ids /\ MixedOK(t) /\ AloneOK(t) /\ WaitingOK
  BY <1>1, MappedFrame DEF BusOK, Frames, Genuine
<1>3. f.part > 0 /\ f.part \in Nat
  BY DEF Frames, MAX_SEQNO
<1>4. CASE Marked(t, sent[t])
  <2>1. Marked(t, Number(t, k))
    <3>1. k \in 0..Valid(t) - 1
      BY <1>1
    <3> QED
      BY <1>2, <1>4, <3>1 DEF MixedOK
  <2>2. Marked(t, f.n)
    <3>1. /\ f.n \in 1..sent[t] /\ sent[t] \in Nat
          /\ f.n < sent[t] => \A m \in f.n..sent[t] : <<t, m>> \in overlapped
      BY <1>1, <1>2, BusTypes DEF WaitingOK, Coming
    <3>2. CASE f.n = sent[t]
      BY <1>4, <3>2
    <3>3. CASE f.n < sent[t]
      <4>1. f.n \in f.n..sent[t]
        BY <3>1, <3>3
      <4> QED
        BY <3>1, <3>3, <4>1 DEF Marked
    <3> QED
      BY <3>1, <3>2, <3>3
  <2> QED
    BY <1>1, <2>1, <2>2 DEF Together
<1>5. CASE ~Marked(t, sent[t])
  <2>1. f \in Coming(t) /\ \A g \in Coming(t) : f.part <= g.part
    BY <1>1
  <2>2. f.n = sent[t] /\ Number(t, k) = sent[t]
    BY <1>1, <1>2, <1>3, <1>5, <2>1, NextOfPacket
  <2> QED
    BY <1>1, <2>2 DEF Together
<1> QED
  BY <1>4, <1>5

\* One frame leaves the controller, the first that may.
Arrival(f) ==
    /\ f \in InSeq(tx) /\ f \in Frames /\ Genuine(f) /\ f \in Coming(f.id)
    /\ \A g \in Coming(f.id) : f.part <= g.part
    /\ InSeq(tx)' = InSeq(tx) \ {f}
    /\ UNCHANGED <<sent, out, damaged, overlapped>>
    /\ \/ \E t \in Mapped : Accepted(t, f) \/ Completed(t, f) \/ Restarted(t, f)
       \/ PassedOn(f)

LEMMA Arrivals ==
  ASSUME TableOK, EndsOK, BusOK, \A u \in Mapped : BufferOK(u), Arrive
  PROVE  /\ \A i, j \in DOMAIN tx' : tx'[i] = tx'[j] => i = j
         /\ \E f \in Frames : /\ Genuine(f) /\ Continues(f) /\ Arrival(f)
                              /\ can_interface_receive(f)
                              /\ UNCHANGED <<sent, out, damaged, overlapped>>
<1>1. PICK k \in 1..Len(tx) :
         /\ Arbitrated(k) /\ tx' = Without(k) /\ can_interface_receive(tx[k])
         /\ UNCHANGED <<sent, out, damaged, overlapped>>
  BY DEF Arrive, sender, lossy
<1>2. PICK f : f = tx[k]
  OBVIOUS
<1>3. WaitingOK
  BY DEF BusOK
<1>4. /\ f \in InSeq(tx) /\ f \in Frames /\ Genuine(f) /\ f \in Coming(f.id)
      /\ \A g \in Coming(f.id) : f.part <= g.part
  BY <1>1, <1>2, <1>3, ArrivesFirst
<1>5. Continues(f)
  BY <1>4, ArrivesInPlace
<1>6. /\ InSeq(tx)' = InSeq(tx) \ {f}
      /\ \A i, j \in DOMAIN tx' : tx'[i] = tx'[j] => i = j
  BY <1>1, <1>2, <1>3, Leaves
<1>7. can_interface_receive(f)
  BY <1>1, <1>2
<1>8. \/ \E t \in Mapped : Accepted(t, f) \/ Completed(t, f) \/ Restarted(t, f)
      \/ PassedOn(f)
  BY <1>1, <1>4, <1>5, <1>7, Outcomes
<1>9. Arrival(f)
  BY <1>1, <1>4, <1>6, <1>8 DEF Arrival
<1> QED
  BY <1>1, <1>4, <1>5, <1>6, <1>7, <1>9

LEMMA WaitingArrives ==
  ASSUME EndsOK, WaitingOK, NEW f, Arrival(f),
         \A i, j \in DOMAIN tx' : tx'[i] = tx'[j] => i = j
  PROVE  /\ WaitingOK'
         /\ \A u : /\ Coming(u)' = Coming(u) \ {f} /\ (Cutting(u)' <=> Cutting(u))
                   /\ CutOff(u)' = CutOff(u) /\ (u # f.id => Coming(u)' = Coming(u))
                   /\ \A n : Marked(u, n)' <=> Marked(u, n)
<1>1. /\ InSeq(tx)' = InSeq(tx) \ {f}
      /\ UNCHANGED <<sent, out, damaged, overlapped>>
  BY DEF Arrival
<1>2. WaitingOK'
  BY <1>1 DEF WaitingOK, WellFormed, Cutting
<1>3. ASSUME NEW u
      PROVE  /\ Coming(u)' = Coming(u) \ {f} /\ (Cutting(u)' <=> Cutting(u))
             /\ CutOff(u)' = CutOff(u) /\ (u # f.id => Coming(u)' = Coming(u))
             /\ \A n : Marked(u, n)' <=> Marked(u, n)
  BY <1>1 DEF Coming, Cutting, CutOff, Marked
<1> QED
  BY <1>2, <1>3

\* What the arrival of f does to the packets of each id: the buffer of another id is left
\* alone or starts over, and f is dropped, the next part of a packet, or the last.
LEMMA ArrivalOfOthers ==
  ASSUME TableOK, ReceivedOK, NEW f, Arrival(f), NEW u, u # f.id
  PROVE  /\ u \in ReceivedIds => received'[u] = received[u]
         /\ u \in Mapped => mapping_buffers'[u] = mapping_buffers[u] \/ Valid(u)' = 0
<1>1. f.id \in ReceivedIds
  BY OwnIds DEF Arrival, Frames
<1>2. received' = received \/ Done(f)
  BY DEF Arrival, Accepted, Completed, Restarted, PassedOn
<1>3. u \in ReceivedIds => received'[u] = received[u]
  BY <1>1, <1>2, OneMore DEF Done
<1>4. ASSUME u \in Mapped PROVE mapping_buffers'[u] = mapping_buffers[u] \/ Valid(u)' = 0
  BY <1>4 DEF Arrival, Accepted, Completed, Restarted, PassedOn, OthersKept
<1> QED
  BY <1>3, <1>4

Dropped(f) ==
    received'[f.id] = received[f.id] /\ (f.id \in Mapped => Valid(f.id)' = 0)
Taken(f) == f.part > 0 => f.id \in Mapped /\ Valid(f.id) = f.part
Kept(f) ==
    /\ Taken(f) /\ f.id \in Mapped /\ Accepted(f.id, f)
    /\ received'[f.id] = received[f.id] /\ Number(f.id, 0)' = Leader(f)
Passed(f) ==
    /\ Taken(f) /\ (f.id \in Mapped => Valid(f.id)' = 0)
    /\ Len(received[f.id]) \in Nat /\ DOMAIN received[f.id] = 1..Len(received[f.id])
    /\ DOMAIN received'[f.id] = 1..Len(received[f.id]) + 1
    /\ \A j \in 1..Len(received[f.id]) : received'[f.id][j] = received[f.id][j]
    /\ received'[f.id][Len(received[f.id]) + 1][1].n = Leader(f)

LEMMA ArrivalOfOwn ==
  ASSUME TableOK, ReceivedOK, NEW f, Arrival(f)
  PROVE  f.part \in Nat /\ f.id \in Ids /\ (Dropped(f) \/ Kept(f) \/ Passed(f))
<1>1. f \in Frames /\ f.id \in Ids /\ f.id \in ReceivedIds /\ f.part \in Nat /\ WellFormed(f)
  BY OwnIds DEF Arrival, Frames, MAX_SEQNO, Genuine
<1>2. IsWrapped(f.id) => f.id \notin Mapped /\ f.part = 0
  BY <1>1, WrappedFrame
<1>3. ASSUME Done(f), Taken(f), f.id \in Mapped => Valid(f.id)' = 0
      PROVE  Dropped(f) \/ Passed(f)
  <2>1. CASE received' = received
    BY <1>3, <2>1 DEF Dropped
  <2>2. CASE Handed(f)
    <3>1. /\ Len(received[f.id]) \in Nat /\ DOMAIN received[f.id] = 1..Len(received[f.id])
          /\ DOMAIN received'[f.id] = 1..Len(received[f.id]) + 1
          /\ \A j \in 1..Len(received[f.id]) : received'[f.id][j] = received[f.id][j]
          /\ Packed(f, received'[f.id][Len(received[f.id]) + 1])
      BY <1>1, <2>2, OneMore
    <3> QED
      BY <1>3, <3>1 DEF Passed, Packed
  <2> QED
    BY <1>3, <2>1, <2>2 DEF Done
<1>4. ASSUME NEW t \in Mapped, Accepted(t, f) PROVE Kept(f)
  <2>1. t = f.id /\ Valid(t) = f.part /\ received' = received
    BY <1>4 DEF Accepted
  <2>2. Number(t, 0)' = Leader(f)
    <3>1. CASE f.part = 0
      BY <1>4, <2>1, <3>1 DEF Accepted, Leader
    <3>2. CASE f.part # 0
      <4>1. 0 \in 0..f.part - 1
        BY <1>1, <3>2
      <4> QED
        BY <1>4, <2>1, <3>2, <4>1 DEF Accepted, Leader
    <3> QED
      BY <3>1, <3>2
  <2> QED
    BY <1>4, <2>1, <2>2 DEF Kept, Taken
<1>5. ASSUME NEW t \in Mapped, Completed(t, f) PROVE Dropped(f) \/ Passed(f)
  BY <1>3, <1>5 DEF Completed, Taken
<1>6. ASSUME NEW t \in Mapped, Restarted(t, f) PROVE Dropped(f)
  BY <1>2, <1>6 DEF Restarted, Dropped
<1>7. ASSUME PassedOn(f) PROVE Dropped(f) \/ Passed(f)
  <2>1. f.id \notin Mapped /\ f.part = 0
    BY <1>2, <1>7 DEF PassedOn
  <2> QED
    BY <1>3, <1>7, <2>1 DEF PassedOn, Taken, Dropped
<1> QED
  BY <1>1, <1>4, <1>5, <1>6, <1>7 DEF Arrival

\* The packet that f begins or continues comes after those that were handed on, and before
\* those whose first part is to come.
LEMMA HeadInOrder ==
  ASSUME TableOK, EndsOK, BusOK, NEW f, Arrival(f), Taken(f)
  PROVE  /\ \A j \in DOMAIN received[f.id] : InOrder(f.id, received[f.id][j][1].n, Leader(f))
         /\ Leader(f) \in 1..sent[f.id]
         /\ Cutting(f.id) /\ out.i = 0 => Leader(f) # sent[f.id]
         /\ \A g \in Coming(f.id) \ {f} : g.part = 0 => InOrder(f.id, Leader(f), g.n)
<1>1. PICK id : id = f.id
  OBVIOUS
<1>2. /\ f \in InSeq(tx) /\ f \in Frames /\ f.n \in 1..sent[id] /\ f \in Coming(id)
      /\ id \in Ids /\ sent[id] \in Nat /\ f.n \in Nat /\ f.part \in Nat
  BY <1>1, BusTypes DEF Arrival, Genuine
<1>3. WaitingOK /\ BegunOK(id) /\ NextInOrder(id)
  BY <1>2 DEF BusOK, OrderOK
<1>4. CASE f.part = 0
  <2>1. Leader(f) = f.n
    BY <1>4 DEF Leader
  <2>2. ASSUME NEW j \in DOMAIN received[id] PROVE InOrder(id, received[id][j][1].n, f.n)
    <3>1. received[id][j][1].n \in Begun(id)
      BY DEF Begun
    <3> QED
      BY <1>2, <1>3, <1>4, <3>1 DEF BegunOK
  <2>3. Cutting(id) /\ out.i = 0 => f.n # sent[id]
    <3>1. Cutting(id) /\ f.n = sent[id] => f.part < out.i
      BY <1>1, <1>2, <1>3 DEF WaitingOK
    <3> QED
      BY <1>4, <3>1
  <2>4. ASSUME NEW g \in Coming(id) \ {f}, g.part = 0 PROVE InOrder(id, f.n, g.n)
    <3>1. /\ g \in InSeq(tx) /\ g.id = id /\ g.n \in Nat
          /\ g.n < sent[id] => \A m \in g.n..sent[id] : <<id, m>> \in overlapped
      BY <1>3, BusTypes DEF WaitingOK, Coming
    <3>2. f.n # g.n
      BY <1>1, <1>2, <1>3, <1>4, <2>4, <3>1 DEF WaitingOK
    <3>3. CASE f.n > g.n
      <4>1. g.n < sent[id] /\ g.n \in g.n..sent[id] /\ f.n \in g.n..sent[id]
        BY <1>2, <3>1, <3>3
      <4> QED
        BY <3>1, <3>3, <4>1 DEF InOrder
    <3>4. CASE f.n < g.n
      BY <3>4 DEF InOrder
    <3> QED
      BY <1>2, <3>1, <3>2, <3>3, <3>4
  <2> QED
    BY <1>1, <1>2, <2>1, <2>2, <2>3, <2>4
<1>5. CASE f.part # 0
  <2>1. id \in Mapped /\ Valid(id) > 0 /\ Leader(f) = Number(id, 0)
    BY <1>1, <1>2, <1>5 DEF Taken, Leader
  <2>2. Leader(f) \in Begun(id)
    BY <2>1 DEF Begun
  <2> QED
    BY <1>1, <1>3, <2>1, <2>2 DEF NextInOrder, BegunOK
<1> QED
  BY <1>4, <1>5

LEMMA OrderArrives ==
  ASSUME TableOK, EndsOK, BusOK, ReceivedOK, NEW f, Arrival(f),
         \A u : Coming(u)' = Coming(u) \ {f}, \A u : Cutting(u)' <=> Cutting(u)
  PROVE  OrderOK'
<1>1. PICK id : id = f.id
  OBVIOUS
<1>2. /\ UNCHANGED <<sent, out, overlapped>> /\ id \in Ids /\ f.part \in Nat
      /\ Dropped(f) \/ Kept(f) \/ Passed(f)
  BY <1>1, ArrivalOfOwn DEF Arrival
<1>3. ASSUME NEW u, u # id
      PROVE  /\ u \in ReceivedIds => received'[u] = received[u]
             /\ u \in Mapped => mapping_buffers'[u] = mapping_buffers[u] \/ Valid(u)' = 0
  BY <1>1, <1>3, ArrivalOfOthers
<1>4. DeliveredInOrder /\ OthersNotThere /\ \A u \in Ids : BegunOK(u) /\ NextInOrder(u)
  BY DEF BusOK, OrderOK
<1>5. Taken(f) =>
         /\ \A j \in DOMAIN received[id] : InOrder(id, received[id][j][1].n, Leader(f))
         /\ Leader(f) \in 1..sent[id]
         /\ Cutting(id) /\ out.i = 0 => Leader(f) # sent[id]
         /\ \A g \in Coming(id) \ {f} : g.part = 0 => InOrder(id, Leader(f), g.n)
  BY <1>1, HeadInOrder
<1>6. \A u, m, n : InOrder(u, m, n)' <=> InOrder(u, m, n)
  BY <1>2 DEF InOrder
<1>7. ASSUME NEW n \in Begun(id)' PROVE n \in Begun(id) \/ (Taken(f) /\ n = Leader(f))
  <2>1. CASE Dropped(f)
    BY <1>1, <2>1 DEF Dropped, Begun
  <2>2. CASE Kept(f)
    BY <1>1, <2>2 DEF Kept, Begun
  <2>3. CASE Passed(f)
    <3>1. PICK j \in DOMAIN received'[id] : n = received'[id][j][1].n
      BY <1>1, <2>3 DEF Passed, Begun
    <3>2. CASE j \in 1..Len(received[id])
      BY <1>1, <2>3, <3>1, <3>2 DEF Passed, Begun
    <3>3. CASE j = Len(received[id]) + 1
      BY <1>1, <2>3, <3>1, <3>3 DEF Passed
    <3> QED
      BY <1>1, <2>3, <3>1, <3>2, <3>3 DEF Passed
  <2> QED
    BY <1>2, <2>1, <2>2, <2>3
<1>8. ASSUME NEW u \in Ids PROVE BegunOK(u)'
  <2>1. ASSUME NEW n \in Begun(u)'
        PROVE  n \in Begun(u) \/ (u = id /\ Taken(f) /\ n = Leader(f))
    <3>1. CASE u = id
      BY <1>7, <2>1, <3>1
    <3>2. CASE u # id
      <4>1. u \in ReceivedIds
        BY OwnIds
      <4>2. received'[u] = received[u]
        BY <1>3, <3>2, <4>1
      <4>3. u \in Mapped /\ Valid(u)' > 0 => Valid(u)' = Valid(u) /\ Number(u, 0)' = Number(u, 0)
        BY <1>3, <3>2 DEF Valid, Number
      <4> QED
        BY <2>1, <4>2, <4>3 DEF Begun
    <3> QED
      BY <3>1, <3>2
  <2>2. ASSUME NEW n \in Begun(u)'
        PROVE  /\ n \in 1..sent[u] /\ (Cutting(u) /\ out.i = 0 => n # sent[u])
               /\ \A g \in Coming(u) \ {f} : g.part = 0 => InOrder(u, n, g.n)
    <3>1. CASE n \in Begun(u)
      BY <1>4, <3>1 DEF BegunOK
    <3>2. CASE u = id /\ Taken(f) /\ n = Leader(f)
      BY <1>5, <3>2
    <3> QED
      BY <2>1, <2>2, <3>1, <3>2
  <2> QED
    BY <1>2, <1>6, <2>2 DEF BegunOK
<1>9. ASSUME NEW u \in Ids PROVE NextInOrder(u)'
  <2>1. CASE u = id
    <3>1. CASE Kept(f)
      <4>1. \A j \in DOMAIN received[id] : InOrder(id, received[id][j][1].n, Leader(f))
        BY <1>5, <3>1 DEF Kept
      <4>2. received'[id] = received[id] /\ Number(id, 0)' = Leader(f)
        BY <1>1, <3>1 DEF Kept
      <4> QED
        BY <1>6, <2>1, <4>1, <4>2 DEF NextInOrder
    <3>2. CASE ~Kept(f)
      BY <1>1, <1>2, <2>1, <3>2 DEF Dropped, Passed, NextInOrder
    <3> QED
      BY <3>1, <3>2
  <2>2. CASE u # id
    <3>1. u \in ReceivedIds
      BY OwnIds
    <3>2. received'[u] = received[u]
      BY <1>3, <2>2, <3>1
    <3>3. u \in Mapped /\ Valid(u)' > 0 => Valid(u)' = Valid(u) /\ Number(u, 0)' = Number(u, 0)
      BY <1>3, <2>2 DEF Valid, Number
    <3>4. u \in Mapped /\ Valid(u) > 0 =>
             \A j \in DOMAIN received[u] : InOrder(u, received[u][j][1].n, Number(u, 0))
      BY <1>4 DEF NextInOrder
    <3> QED
      BY <1>6, <3>2, <3>3, <3>4 DEF NextInOrder
  <2> QED
    BY <2>1, <2>2
<1>10. OthersNotThere'
  <2>1. ASSUME NEW u \in ReceivedIds \ Ids
        PROVE  received'[u] = <<>> /\ (u \in Mapped => Valid(u)' = 0)
    <3>1. received'[u] = received[u] /\ received[u] = <<>>
      BY <1>2, <1>3, <1>4 DEF OthersNotThere
    <3>2. u \in Mapped => Valid(u)' = 0
      BY <1>2, <1>3, <1>4 DEF OthersNotThere, Valid
    <3> QED
      BY <3>1, <3>2
  <2> QED
    BY <2>1 DEF OthersNotThere
<1>11. DeliveredInOrder'
  <2>1. ASSUME NEW u \in ReceivedIds, NEW j \in DOMAIN received[u], NEW k \in DOMAIN received[u],
               j < k
        PROVE  InOrder(u, received[u][j][1].n, received[u][k][1].n)
    <3>1. DOMAIN received = ReceivedIds
      BY DEF ReceivedOK
    <3> QED
      BY <1>4, <2>1, <3>1 DEF DeliveredInOrder, InOrder
  <2>2. ASSUME NEW u \in ReceivedIds, NEW j \in DOMAIN received'[u], NEW k \in DOMAIN received'[u],
               j < k
        PROVE  InOrder(u, received'[u][j][1].n, received'[u][k][1].n)
    <3>1. CASE received'[u] = received[u]
      BY <2>1, <2>2, <3>1
    <3>2. CASE received'[u] # received[u]
      <4>1. u = id /\ Passed(f)
        BY <1>1, <1>2, <1>3, <3>2 DEF Dropped, Kept
      <4>2. /\ Len(received[u]) \in Nat /\ DOMAIN received[u] = 1..Len(received[u])
            /\ j \in 1..Len(received[u]) + 1 /\ k \in 1..Len(received[u]) + 1
            /\ \A i \in 1..Len(received[u]) : received'[u][i] = received[u][i]
            /\ received'[u][Len(received[u]) + 1][1].n = Leader(f)
        BY <1>1, <2>2, <4>1 DEF Passed
      <4>3. j \in 1..Len(received[u]) /\ (k \in 1..Len(received[u]) \/ k = Len(received[u]) + 1)
        BY <2>2, <4>2
      <4>4. CASE k \in 1..Len(received[u])
        BY <2>1, <2>2, <4>2, <4>3, <4>4
      <4>5. CASE k = Len(received[u]) + 1
        <5>1. InOrder(id, received[id][j][1].n, Leader(f))
          BY <1>5, <4>1, <4>2, <4>3 DEF Passed
        <5> QED
          BY <4>1, <4>2, <4>3, <4>5, <5>1
      <4> QED
        BY <4>3, <4>4, <4>5
    <3> QED
      BY <3>1, <3>2
  <2>3. DOMAIN received' = ReceivedIds
    <3>1. f.id \in ReceivedIds /\ (received' = received \/ Done(f))
      BY OwnIds DEF Arrival, Accepted, Completed, Restarted, PassedOn, Frames
    <3> QED
      BY <3>1, OneMore DEF Done, ReceivedOK
  <2> QED
    BY <1>6, <2>2, <2>3 DEF DeliveredInOrder, InOrder
<1> QED
  BY <1>8, <1>9, <1>10, <1>11 DEF OrderOK

\* When the first frame of a packet that is not marked has left, the others wait.
LEMMA WaitsOn ==
  ASSUME EndsOK, WaitingOK, NEW t \in Mapped \cap Ids, AloneOK(t), ~Marked(t, sent[t]),
         NEW f \in Coming(t), \A g \in Coming(t) : f.part <= g.part,
         Coming(t)' = Coming(t) \ {f}, CutOff(t)' = CutOff(t)
  PROVE  /\ Waits(t, f.part + 1)' /\ f.part \in Nat
         /\ f.part + 1 \in 0..CutOff(t) /\ CutOff(t) \in Nat
<1>1. /\ \A g \in Coming(t) : g.n = sent[t]
      /\ Waits(t, f.part) /\ f.part \in 0..CutOff(t) - 1 /\ CutOff(t) \in Nat
  BY NextOfPacket
<1>2. PICK c \in Nat, p \in Nat : p < c /\ c = CutOff(t) /\ p = f.part
  BY <1>1
<1>3. (p + 1)..c - 1 = (p..c - 1) \ {p}
  BY <1>2
<1>4. \A g \in Coming(t) : g.part = p => g = f
  BY <1>1, <1>2 DEF WaitingOK, Coming
<1>5. {g.part : g \in Coming(t) \ {f}} = {g.part : g \in Coming(t)} \ {p}
  BY <1>2, <1>4
<1>6. {g.part : g \in Coming(t)'} = (p + 1)..CutOff(t)' - 1
  BY <1>1, <1>2, <1>3, <1>5 DEF Waits
<1>7. Waits(t, p + 1)'
  BY <1>6 DEF Waits
<1> QED
  BY <1>2, <1>7

\* The bounds of the buffer that took a frame
LEMMA OneMorePart ==
  ASSUME NEW p \in Nat, NEW k \in 0..(p + 1) - 1
  PROVE  k = p \/ k \in 0..p - 1
OBVIOUS

LEMMA MixedArrives ==
  ASSUME EndsOK, WaitingOK, NEW t \in Mapped \cap Ids, MixedOK(t), AloneOK(t),
         NEW f, f.part \in Nat, f \in Coming(t), \A g \in Coming(t) : f.part <= g.part,
         Accepted(t, f), sent' = sent, \A n : Marked(t, n)' <=> Marked(t, n),
         Coming(t)' = Coming(t) \ {f}, CutOff(t)' = CutOff(t), Cutting(t)' <=> Cutting(t)
  PROVE  MixedOK(t)'
<1>1. /\ Valid(t) = f.part /\ Valid(t)' = f.part + 1 /\ f.part + 1 < size_in_packets(t)
      /\ Number(t, f.part)' = f.n
      /\ \A k \in 0..f.part - 1 : Number(t, k)' = Number(t, k)
  BY DEF Accepted
<1>2. ~Marked(t, sent[t]) => Present(t)'
  <2>1. SUFFICES ASSUME ~Marked(t, sent[t]), ~Cutting(t) PROVE Present(t)'
    BY DEF Present
  <2>2. Waits(t, f.part + 1)' /\ CutOff(t)' = size_in_packets(t)
    BY <2>1, WaitsOn DEF CutOff
  <2>3. f.part + 1 \in (f.part + 1)..size_in_packets(t) - 1
    BY <1>1, Sizes
  <2>4. Coming(t)' # {}
    BY <2>2, <2>3 DEF Waits
  <2> QED
    BY <2>4 DEF Present
<1>3. Marked(t, f.n) \/ f.n = sent[t]
  <2>1. /\ f.n \in 1..sent[t] /\ sent[t] \in Nat
        /\ f.n < sent[t] => \A m \in f.n..sent[t] : <<t, m>> \in overlapped
    BY BusTypes DEF WaitingOK, Coming
  <2>2. f.n = sent[t] \/ (f.n < sent[t] /\ f.n \in f.n..sent[t])
    BY <2>1
  <2> QED
    BY <2>1, <2>2 DEF Marked
<1>4. ASSUME NEW k \in 0..Valid(t)' - 1
      PROVE  Marked(t, Number(t, k))' \/ (Number(t, k)' = sent'[t] /\ Present(t)')
  <2>1. PICK v : v = Number(t, k)'
    OBVIOUS
  <2>2. Marked(t, v) \/ v = sent[t]
    <3>1. k = f.part \/ k \in 0..f.part - 1
      BY <1>1, OneMorePart
    <3>2. CASE k = f.part
      BY <1>1, <1>3, <2>1, <3>2
    <3>3. CASE k \in 0..f.part - 1
      BY <1>1, <2>1, <3>3 DEF MixedOK
    <3> QED
      BY <3>1, <3>2, <3>3
  <2>3. CASE Marked(t, v)
    <3>1. Marked(t, v)'
      BY <2>3
    <3> QED
      BY <2>1, <3>1 DEF Marked
  <2>4. CASE v = sent[t] /\ ~Marked(t, v)
    BY <1>2, <2>1, <2>4
  <2> QED
    BY <2>2, <2>3, <2>4
<1> QED
  BY <1>4 DEF MixedOK

LEMMA AloneArrives ==
  ASSUME EndsOK, WaitingOK, NEW t \in Mapped \cap Ids, AloneOK(t),
         NEW f, f.part \in Nat, f \in Coming(t), \A g \in Coming(t) : f.part <= g.part,
         Accepted(t, f) \/ Valid(t)' = 0, sent' = sent, \A n : Marked(t, n)' <=> Marked(t, n),
         Coming(t)' = Coming(t) \ {f}, CutOff(t)' = CutOff(t)
  PROVE  AloneOK(t)'
<1>1. ASSUME ~Marked(t, sent[t])
      PROVE  \E p \in 0..CutOff(t)' :
               /\ Waits(t, p)'
               /\ Valid(t)' > 0 /\ p > 0 =>
                    Valid(t)' = p /\ \A k \in 0..p - 1 : Number(t, k)' = sent'[t]
  <2>1. Waits(t, f.part + 1)' /\ f.part + 1 \in 0..CutOff(t)'
    BY <1>1, WaitsOn
  <2>2. ASSUME Accepted(t, f)
        PROVE  Valid(t)' = f.part + 1 /\ \A k \in 0..(f.part + 1) - 1 : Number(t, k)' = sent'[t]
    <3>1. /\ Valid(t) = f.part /\ Valid(t)' = f.part + 1 /\ Number(t, f.part)' = f.n
          /\ \A k \in 0..f.part - 1 : Number(t, k)' = Number(t, k)
      BY <2>2 DEF Accepted
    <3>2. /\ f.n = sent[t]
          /\ f.part > 0 => \A k \in 0..f.part - 1 : Number(t, k) = sent[t]
      BY <1>1, <3>1, NextOfPacket
    <3>3. ASSUME NEW k \in 0..(f.part + 1) - 1 PROVE Number(t, k)' = sent[t]
      <4>1. k = f.part \/ (f.part > 0 /\ k \in 0..f.part - 1)
        BY <3>3
      <4> QED
        BY <3>1, <3>2, <4>1
    <3> QED
      BY <3>1, <3>3
  <2>3. CASE Accepted(t, f)
    BY <2>1, <2>2, <2>3
  <2>4. CASE Valid(t)' = 0
    BY <2>1, <2>4
  <2> QED
    BY <2>3, <2>4
<1>2. Marked(t, sent[t])' <=> Marked(t, sent[t])
  BY DEF Marked
<1> QED
  BY <1>1, <1>2 DEF AloneOK

LEMMA BusArrives ==
  ASSUME TableOK, EndsOK, BusOK, ReceivedOK, \A u \in Mapped : BufferOK(u), Arrive
  PROVE  BusOK'
<1>1. /\ \A i, j \in DOMAIN tx' : tx'[i] = tx'[j] => i = j
      /\ \E f \in Frames : Genuine(f) /\ Arrival(f)
  BY Arrivals
<1>2. PICK f \in Frames : Genuine(f) /\ Arrival(f)
  BY <1>1
<1>3. WaitingOK
  BY DEF BusOK
<1>4. /\ WaitingOK'
      /\ \A u : /\ Coming(u)' = Coming(u) \ {f} /\ (Cutting(u)' <=> Cutting(u))
                /\ CutOff(u)' = CutOff(u) /\ (u # f.id => Coming(u)' = Coming(u))
                /\ \A n : Marked(u, n)' <=> Marked(u, n)
  BY <1>1, <1>2, <1>3, WaitingArrives
<1>5. OrderOK'
  BY <1>2, <1>4, OrderArrives
<1>6. /\ sent' = sent /\ f \in Coming(f.id) /\ f.part \in Nat
      /\ \A g \in Coming(f.id) : f.part <= g.part
      /\ Dropped(f) \/ Kept(f) \/ Passed(f)
  BY <1>2, ArrivalOfOwn DEF Arrival
<1>7. ASSUME NEW t \in Mapped \cap Ids PROVE MixedOK(t)' /\ AloneOK(t)'
  <2>1. MixedOK(t) /\ AloneOK(t)
    BY DEF BusOK
  <2>2. CASE t = f.id
    <3>1. Accepted(t, f) \/ Valid(t)' = 0
      BY <1>6, <2>2 DEF Dropped, Kept, Passed
    <3>2. f \in Coming(t) /\ \A g \in Coming(t) : f.part <= g.part
      BY <1>6, <2>2
    <3>3. AloneOK(t)'
      BY <1>3, <1>4, <1>6, <2>1, <3>1, <3>2, AloneArrives
    <3>4. MixedOK(t)'
      <4>1. CASE Accepted(t, f)
        BY <1>3, <1>4, <1>6, <2>1, <3>2, <4>1, MixedArrives
      <4>2. CASE Valid(t)' = 0
        <5>1. \A k \in 0..0 - 1 : FALSE
          OBVIOUS
        <5> QED
          BY <4>2, <5>1 DEF MixedOK
      <4> QED
        BY <3>1, <4>1, <4>2
    <3> QED
      BY <3>3, <3>4
  <2>3. CASE t # f.id
    <3>1. mapping_buffers'[t] = mapping_buffers[t] \/ Valid(t)' = 0
      BY <1>2, <2>3, ArrivalOfOthers
    <3>2. /\ Coming(t)' = Coming(t) /\ (Cutting(t)' <=> Cutting(t)) /\ CutOff(t)' = CutOff(t)
          /\ (Present(t)' <=> Present(t)) /\ sent'[t] = sent[t]
          /\ \A n : Marked(t, n) => Marked(t, n)'
      BY <1>4, <1>6, <2>3 DEF Present
    <3>3. AloneOK(t)'
      BY <2>1, <3>1, <3>2, AloneAsBefore
    <3>4. MixedOK(t)'
      <4>1. CASE mapping_buffers'[t] = mapping_buffers[t]
        BY <2>1, <3>2, <4>1, MixedAsBefore
      <4>2. CASE Valid(t)' = 0
        <5>1. \A k \in 0..0 - 1 : FALSE
          OBVIOUS
        <5> QED
          BY <4>2, <5>1 DEF MixedOK
      <4> QED
        BY <3>1, <4>1, <4>2
    <3> QED
      BY <3>3, <3>4
  <2> QED
    BY <2>2, <2>3
<1> QED
  BY <1>4, <1>5, <1>7 DEF BusOK

-----------------------------------------------------------------------------
(* The card *)

LEMMA Prefix ==
  ASSUME NEW r \in Seq(Frames), Chain(r), NEW s \in Seq(Frames), Len(s) <= Len(r),
         \A k \in 1..Len(s) : s[k] = r[k]
  PROVE  Chain(s)
<1>1. /\ Len(s) \in Nat /\ Len(r) \in Nat
      /\ DOMAIN s = 1..Len(s) /\ DOMAIN r = 1..Len(r)
  BY LenProperties
<1>2. ASSUME NEW k \in DOMAIN s
      PROVE  /\ WellFormed(s[k]) /\ (k > 1 => Follows(s[k], s[k - 1]))
             /\ \A j \in 1..k - 1 : Before(s[j], s[k]) /\ Behind(s[j], s[k], k - j)
  <2>1. k \in DOMAIN r /\ s[k] = r[k] /\ (k > 1 => k - 1 \in 1..Len(s))
    BY <1>1, <1>2
  <2>2. k > 1 => s[k - 1] = r[k - 1]
    BY <2>1
  <2>3. \A j \in 1..k - 1 : s[j] = r[j]
    BY <1>1, <1>2
  <2> QED
    BY <2>1, <2>2, <2>3 DEF Chain
<1> QED
  BY <1>2 DEF Chain

LEMMA Suffix ==
  ASSUME NEW r \in Seq(Frames), NEW s \in Seq(Frames), Chain(r \o s)
  PROVE  /\ Chain(s)
         /\ s # <<>> => r \o s # <<>> /\ (r \o s)[Len(r \o s)] = s[Len(s)]
         /\ \A k \in DOMAIN s : \E j \in DOMAIN (r \o s) : s[k] = (r \o s)[j]
<1>1. /\ r \o s \in Seq(Frames) /\ Len(r \o s) = Len(r) + Len(s)
      /\ \A k \in 1..Len(r) + Len(s) :
            (r \o s)[k] = IF k <= Len(r) THEN r[k] ELSE s[k - Len(r)]
  BY ConcatProperties
<1> DEFINE m == Len(r)
           n == Len(s)
<1>2. /\ m \in Nat /\ n \in Nat /\ DOMAIN s = 1..n /\ DOMAIN (r \o s) = 1..m + n
  BY <1>1, LenProperties
<1>3. ASSUME NEW k \in 1..n PROVE m + k \in 1..m + n /\ (r \o s)[m + k] = s[k]
  <2>1. m + k \in 1..m + n /\ ~(m + k <= m) /\ m + k - m = k
    BY <1>2
  <2> QED
    BY <1>1, <2>1
<1> HIDE DEF m, n
<1>4. PICK q : q = r \o s /\ Chain(q) /\ DOMAIN q = 1..m + n
               /\ \A k \in 1..n : m + k \in 1..m + n /\ q[m + k] = s[k]
  BY <1>2, <1>3
<1>5. ASSUME NEW k \in 1..n
      PROVE  /\ WellFormed(s[k]) /\ (k > 1 => Follows(s[k], s[k - 1]))
             /\ \A j \in 1..k - 1 : Before(s[j], s[k]) /\ Behind(s[j], s[k], k - j)
  <2>1. PICK i \in 1..m + n : i = m + k /\ q[i] = s[k]
    BY <1>4
  <2>2. /\ WellFormed(q[i]) /\ (i > 1 => Follows(q[i], q[i - 1]))
        /\ \A j \in 1..i - 1 : Before(q[j], q[i]) /\ Behind(q[j], q[i], i - j)
    BY <1>4 DEF Chain
  <2>3. ASSUME k > 1 PROVE i > 1 /\ q[i - 1] = s[k - 1]
    <3>1. k - 1 \in 1..n /\ i > 1 /\ m + (k - 1) = i - 1
      BY <1>2, <2>1, <2>3
    <3> QED
      BY <1>4, <3>1
  <2>4. ASSUME NEW j \in 1..k - 1 PROVE Before(s[j], s[k]) /\ Behind(s[j], s[k], k - j)
    <3>1. j \in 1..n /\ m + j \in 1..i - 1 /\ i - (m + j) = k - j
      <4>1. i = m + k /\ m \in Nat /\ n \in Nat
        BY <1>2, <2>1
      <4> QED
        BY <4>1
    <3>2. q[m + j] = s[j]
      BY <1>4, <3>1
    <3> QED
      BY <2>1, <2>2, <3>1, <3>2
  <2> QED
    BY <2>1, <2>2, <2>3, <2>4
<1>6. ASSUME s # <<>> PROVE r \o s # <<>> /\ (r \o s)[Len(r \o s)] = s[Len(s)]
  <2>1. n \in 1..n
    <3>1. Len(s) # 0
      BY <1>6, EmptySeq
    <3> QED
      BY <1>2, <3>1 DEF n
  <2>2. (r \o s)[m + n] = s[n] /\ Len(r \o s) = m + n
    BY <1>1, <1>3, <2>1 DEF m, n
  <2>3. Len(r \o s) # 0
    BY <1>2, <2>1, <2>2
  <2>4. r \o s # <<>>
    BY <2>3
  <2> QED
    BY <2>2, <2>4 DEF n
<1>7. \A k \in DOMAIN s : \E j \in DOMAIN (r \o s) : s[k] = (r \o s)[j]
  BY <1>2, <1>3
<1> QED
  BY <1>2, <1>5, <1>6, <1>7 DEF Chain

LEMMA Longer ==
  ASSUME NEW s \in Seq(Frames), NEW f \in Frames, Chain(s), WellFormed(f),
         s # <<>> => Follows(f, s[Len(s)]),
         \A k \in DOMAIN s : Before(s[k], f)
  PROVE  /\ Append(s, f) \in Seq(Frames) /\ Chain(Append(s, f))
         /\ Append(s, f)[Len(Append(s, f))] = f
         /\ \A k \in DOMAIN Append(s, f) : \/ k \in DOMAIN s /\ Append(s, f)[k] = s[k]
                                           \/ Append(s, f)[k] = f
<1>1. PICK r : r = Append(s, f)
  OBVIOUS
<1> DEFINE n == Len(s)
<1>2. /\ r \in Seq(Frames) /\ Len(r) = n + 1 /\ r[n + 1] = f
      /\ \A k \in 1..n : r[k] = s[k]
  BY <1>1, AppendProperties
<1>3. n \in Nat /\ DOMAIN s = 1..n /\ DOMAIN r = 1..n + 1 /\ (n > 0 => s # <<>>)
  BY <1>2, LenProperties
<1>4. n > 0 => Follows(f, s[n])
  BY <1>3
<1>5. \A k \in 1..n : s[k] \in Frames
  BY <1>3, ElementOfSeq
<1> HIDE DEF n
<1>6. ASSUME NEW j \in 1..n PROVE Behind(s[j], f, n + 1 - j)
  <2>1. SUFFICES ASSUME n + 1 - j <= f.part
                 PROVE  s[j].id = f.id /\ s[j].n = f.n /\ s[j].part = f.part - (n + 1 - j)
    BY DEF Behind
  <2>2. /\ n > 0 /\ n \in 1..n /\ f.part \in Nat /\ f.part # 0
    <3>1. f.part \in Nat
      BY FrameTypes
    <3> QED
      BY <1>3, <2>1, <3>1
  <2>3. f.id = s[n].id /\ f.n = s[n].n /\ f.part = s[n].part + 1 /\ s[n].part \in Nat
    <3>1. s[n].part \in Nat
      BY <1>5, <2>2, FrameTypes
    <3> QED
      BY <1>4, <2>2, <3>1 DEF Follows
  <2>4. CASE j = n
    BY <1>3, <2>3, <2>4
  <2>5. CASE j # n
    <3>1. j \in 1..n - 1 /\ n - j <= s[n].part /\ n - j \in Nat
      BY <1>3, <2>1, <2>2, <2>3, <2>5
    <3>2. Behind(s[j], s[n], n - j)
      BY <1>3, <2>2, <3>1 DEF Chain
    <3>3. s[j].id = s[n].id /\ s[j].n = s[n].n /\ s[j].part = s[n].part - (n - j)
      BY <3>1, <3>2 DEF Behind
    <3> QED
      BY <1>3, <2>3, <3>1, <3>3
  <2> QED
    BY <2>4, <2>5
<1>7. ASSUME NEW k \in 1..n + 1
      PROVE  /\ WellFormed(r[k]) /\ (k > 1 => Follows(r[k], r[k - 1]))
             /\ \A j \in 1..k - 1 : Before(r[j], r[k]) /\ Behind(r[j], r[k], k - j)
  <2>1. CASE k \in 1..n
    <3>1. (k > 1 => k - 1 \in 1..n) /\ \A j \in 1..k - 1 : j \in 1..n
      BY <1>3, <2>1
    <3>2. r[k] = s[k] /\ (k > 1 => r[k - 1] = s[k - 1]) /\ \A j \in 1..k - 1 : r[j] = s[j]
      BY <1>2, <2>1, <3>1 DEF n
    <3> QED
      BY <1>3, <2>1, <3>2 DEF Chain
  <2>2. CASE k = n + 1
    <3>1. (k > 1 => n \in 1..n /\ k - 1 = n /\ n > 0) /\ \A j \in 1..k - 1 : j \in 1..n
      BY <1>3, <2>2
    <3>2. r[k] = f /\ (k > 1 => r[k - 1] = s[n]) /\ \A j \in 1..k - 1 : r[j] = s[j]
      BY <1>2, <2>2, <3>1 DEF n
    <3> QED
      BY <1>3, <1>4, <1>6, <2>2, <3>1, <3>2
  <2> QED
    BY <1>3, <2>1, <2>2
<1>8. \A k \in 1..n + 1 : \/ k \in 1..n /\ r[k] = s[k]
                          \/ r[k] = f
  <2>1. \A k \in 1..n + 1 : k \in 1..n \/ k = n + 1
    BY <1>3
  <2> QED
    BY <1>2, <2>1 DEF n
<1>9. Len(r) = n + 1
  BY <1>2 DEF n
<1>10. Chain(r)
  BY <1>3, <1>7 DEF Chain
<1>11. \A k \in DOMAIN r : (k \in DOMAIN s /\ r[k] = s[k]) \/ r[k] = f
  BY <1>3, <1>8
<1> QED
  BY <1>1, <1>2, <1>10, <1>11

\* The frame to come is the same, and the end that it follows.
LEMMA EndKept ==
  ASSUME UNCHANGED <<sent, out>>, NEW e, OpenEnd' = e, Chain(e), NextFollows(e)
  PROVE  EndOK'
<1>1. NextFrame' = NextFrame
  BY DEF NextFrame
<1>2. \A k \in DOMAIN e : e[k].n <= sent'[e[k].id]
         /\ (out' # None /\ out'.id = e[k].id /\ e[k].n = sent'[e[k].id] => e[k].part < out'.i)
  BY DEF NextFollows, Given, Cutting
<1> QED
  BY <1>1, <1>2 DEF EndOK, NextFollows, Given, Cutting

\* Nothing waits that the next frame would have to follow.
LEMMA EndEmpty == ASSUME OpenEnd' = <<>> PROVE EndOK'
  BY DEF EndOK, Chain, NextFollows

LEMMA OpenEndType == CardOK => OpenEnd \in Seq(Frames)
<1>1. ASSUME CardOK, at \in {"ready", "write"} PROVE files[file_idx] \in Seq(Frames)
  BY <1>1 DEF CardOK
<1> QED
  BY <1>1, ConcatProperties DEF OpenEnd, CardOK

\* What is written is at the end of the file, and what is left of the buffer follows.
LEMMA WritesInOrder ==
  ASSUME CardOK, FilesOK, EndOK, Write \/ WriteShort \/ WriteFails
  PROVE  FilesOK' /\ EndOK'
<1>1. PICK n \in 0..Len(packet_buffer) :
         /\ Written(n) /\ at = "write" /\ UNCHANGED <<sent, out, file_idx>>
         /\ full => n = 0
         /\ \/ at' = "ready" /\ packet_buffer' = <<>> /\ full'
            \/ /\ at' = "ready" /\ packet_buffer' = <<>> /\ ~full /\ ~full'
               /\ n = Len(packet_buffer)
            \/ at' = "close" /\ packet_buffer' = packet_buffer
  <2>1. Len(packet_buffer) \in Nat
    BY DEF CardOK
  <2>2. CASE Write
    BY <2>1, <2>2 DEF Write, Flushed, vars, sender
  <2>3. CASE WriteShort
    <3>1. PICK n \in 0..Len(packet_buffer) - 1 : Written(n) /\ (full => n = 0)
      BY <2>3 DEF WriteShort
    <3>2. n \in 0..Len(packet_buffer)
      BY <2>1, <3>1
    <3> QED
      BY <2>3, <3>1, <3>2 DEF WriteShort, Flushed, vars, sender
  <2>4. CASE WriteFails
    <3>1. PICK n \in 0..(IF full THEN 0 ELSE Len(packet_buffer)) : Written(n)
      BY <2>4 DEF WriteFails
    <3>2. n \in 0..Len(packet_buffer) /\ (full => n = 0)
      BY <2>1, <3>1
    <3> QED
      BY <2>4, <3>1, <3>2 DEF WriteFails, vars, sender
  <2> QED
    BY <2>2, <2>3, <2>4
<1>2. PICK r, b, s : /\ r = files[file_idx] /\ b = packet_buffer
                     /\ s = SubSeq(packet_buffer, 1, n)
  OBVIOUS
<1>3. /\ file_idx \in DOMAIN files /\ r \in Seq(Frames) /\ b \in Seq(Frames)
      /\ Chain(r)
  BY <1>1, <1>2 DEF CardOK, FilesOK
<1>4. /\ s \in Seq(Frames) /\ Len(s) = n /\ Len(b) \in Nat /\ n \in Nat /\ n <= Len(b)
      /\ \A k \in 1..n : s[k] = b[k]
  <2>1. n \in 0..Len(b) /\ s = SubSeq(b, 1, n)
    BY <1>2
  <2>2. Len(b) \in Nat /\ n \in Int
    BY <1>3, <2>1, LenProperties
  <2> QED
    BY <1>3, <2>1, <2>2, SubSeqProperties
<1>5. /\ OpenEnd = IF full THEN b ELSE r \o b
  BY <1>1, <1>2 DEF OpenEnd
<1>6. /\ r \o s \in Seq(Frames) /\ r \o b \in Seq(Frames) /\ Len(r) \in Nat
      /\ Len(r \o s) = Len(r) + n /\ Len(r \o b) = Len(r) + Len(b)
      /\ \A k \in 1..Len(r) + n : (r \o s)[k] = IF k <= Len(r) THEN r[k] ELSE s[k - Len(r)]
      /\ \A k \in 1..Len(r) + Len(b) : (r \o b)[k] = IF k <= Len(r) THEN r[k] ELSE b[k - Len(r)]
  BY <1>3, <1>4, ConcatProperties, LenProperties
<1>7. Chain(r \o s)
  <2>1. CASE full
    <3>1. n = 0
      BY <1>1, <2>1
    <3>2. Len(r \o s) <= Len(r) /\ \A k \in 1..Len(r \o s) : (r \o s)[k] = r[k]
      BY <1>6, <3>1
    <3> QED
      BY <1>3, <1>6, <3>2, Prefix
  <2>2. CASE ~full
    <3>1. Chain(r \o b)
      BY <1>5, <2>2 DEF EndOK
    <3>2. Len(r \o s) <= Len(r \o b) /\ \A k \in 1..Len(r \o s) : (r \o s)[k] = (r \o b)[k]
      <4>1. ASSUME NEW k \in 1..Len(r) + n PROVE (r \o s)[k] = (r \o b)[k]
        <5>1. k \in 1..Len(r) + Len(b)
          BY <1>4, <1>6
        <5>2. CASE k <= Len(r)
          BY <1>6, <5>1, <5>2
        <5>3. CASE ~(k <= Len(r))
          <6>1. k - Len(r) \in 1..n
            BY <1>4, <1>6, <5>3
          <6> QED
            BY <1>4, <1>6, <5>1, <5>3, <6>1
        <5> QED
          BY <5>2, <5>3
      <4> QED
        BY <1>4, <1>6, <4>1
    <3> QED
      BY <1>6, <3>1, <3>2, Prefix
  <2> QED
    BY <2>1, <2>2
<1>8. /\ files'[file_idx] = r \o s /\ DOMAIN files' = DOMAIN files
      /\ \A j \in DOMAIN files : j # file_idx => files'[j] = files[j]
  BY <1>1, <1>2, <1>3, WrittenFile
<1>9. FilesOK'
  <2>1. \A k \in DOMAIN files' : Chain(files'[k])
    BY <1>7, <1>8 DEF FilesOK
  <2> QED
    BY <2>1 DEF FilesOK
<1>10. EndOK'
  <2>1. CASE OpenEnd' = <<>>
    BY <2>1, EndEmpty
  <2>2. CASE OpenEnd' = OpenEnd
    BY <1>1, <2>2, EndKept DEF EndOK
  <2>3. CASE OpenEnd' = b
    <3>1. CASE full
      BY <1>5, <2>2, <2>3, <3>1
    <3>2. CASE ~full
      <4>1. PICK q : q = r \o b /\ Chain(q) /\ NextFollows(q)
        BY <1>5, <3>2 DEF EndOK
      <4>2. /\ Chain(b) /\ (b # <<>> => q # <<>> /\ q[Len(q)] = b[Len(b)])
            /\ \A k \in DOMAIN b : \E j \in DOMAIN q : b[k] = q[j]
        BY <1>3, <4>1, Suffix
      <4>3. NextFollows(b)
        BY <4>1, <4>2 DEF NextFollows
      <4> QED
        BY <1>1, <2>3, <4>2, <4>3, EndKept
    <3> QED
      BY <3>1, <3>2
  <2>5. CASE at' = "ready" /\ packet_buffer' = <<>> /\ full'
    BY <2>1, <2>5 DEF OpenEnd
  <2>6. CASE at' = "ready" /\ packet_buffer' = <<>> /\ ~full /\ ~full' /\ n = Len(packet_buffer)
    <3>1. OpenEnd' = (r \o s) \o <<>>
      BY <1>1, <1>8, <2>6 DEF OpenEnd
    <3>2. s = b
      <4>1. Len(s) = Len(b) /\ \A k \in 1..Len(s) : s[k] = b[k]
        BY <1>2, <1>4, <2>6
      <4> QED
        BY <1>3, <1>4, <4>1, SeqEqual
    <3>3. (r \o s) \o <<>> = r \o s
      BY <1>6, ConcatEmptySeq
    <3>4. OpenEnd' = OpenEnd
      BY <1>5, <2>6, <3>1, <3>2, <3>3
    <3> QED
      BY <2>2, <3>4
  <2>7. CASE at' = "close" /\ packet_buffer' = packet_buffer
    <3>1. OpenEnd' = b
      BY <1>2, <2>7 DEF OpenEnd
    <3> QED
      BY <2>3, <3>1
  <2> QED
    BY <1>1, <2>5, <2>6, <2>7
<1> QED
  BY <1>9, <1>10

LEMMA OpensInOrder ==
  ASSUME CardOK, FilesOK, EndOK,
         TryInit \/ ConnectFails \/ Connect \/ Exists \/ Create \/ CreateFails
  PROVE  FilesOK' /\ EndOK'
<1>1. /\ UNCHANGED <<sent, out>> /\ packet_buffer' = packet_buffer /\ at \notin {"ready", "write"}
      /\ full' = full
  BY DEF TryInit, ConnectFails, Connect, Exists, Create, CreateFails, vars, sender, card
<1>2. OpenEnd = packet_buffer
  BY <1>1 DEF OpenEnd
<1>3. OpenEnd' = packet_buffer => EndOK'
  BY <1>1, <1>2, EndKept DEF EndOK
<1>4. CASE ~Create
  <2>1. files' = files /\ at' \notin {"ready", "write"}
    BY <1>4 DEF TryInit, ConnectFails, Connect, Exists, CreateFails, card
  <2>2. OpenEnd' = packet_buffer
    BY <1>1, <2>1 DEF OpenEnd
  <2> QED
    BY <1>3, <2>1, <2>2 DEF FilesOK
<1>5. CASE Create
  <2>1. /\ files \in Seq(Seq(Frames)) /\ <<>> \in Seq(Frames)
        /\ files' = Append(files, <<>>)
        /\ file_idx \in 1..Len(files) + 1 /\ file_idx \notin DOMAIN files
        /\ file_idx' = file_idx /\ packet_buffer \in Seq(Frames)
    BY <1>5 DEF Create, CardOK
  <2>2. /\ DOMAIN files = 1..Len(files) /\ Len(files) \in Nat
        /\ DOMAIN files' = 1..Len(files) + 1
        /\ \A k \in 1..Len(files) : files'[k] = files[k]
        /\ files'[Len(files) + 1] = <<>>
    BY <2>1, AppendProperties, LenProperties
  <2>3. file_idx = Len(files) + 1
    BY <2>1, <2>2
  <2>4. FilesOK'
    <3>1. Chain(<<>>)
      BY DEF Chain
    <3>2. \A k \in DOMAIN files' : Chain(files'[k])
      BY <2>2, <3>1 DEF FilesOK
    <3> QED
      BY <3>2 DEF FilesOK
  <2>5. OpenEnd' = packet_buffer
    <3>1. files'[file_idx'] \o packet_buffer' = packet_buffer
      BY <1>1, <2>1, <2>2, <2>3, ConcatEmptySeq
    <3> QED
      BY <1>1, <3>1 DEF OpenEnd
  <2> QED
    BY <1>3, <2>4, <2>5
<1> QED
  BY <1>4, <1>5

LEMMA ShortensInOrder ==
  ASSUME CardOK, FilesOK, EndOK, Close \/ PowerLoss
  PROVE  FilesOK' /\ EndOK'
<1>1. PICK n \in {0, unsynced} :
         IF n = 0 THEN files' = files
         ELSE files' = [files EXCEPT ![file_idx] =
                          SubSeq(files[file_idx], 1, Len(files[file_idx]) - n)]
  <2>1. CASE Close
    BY <2>1 DEF Close, Forget
  <2>2. CASE PowerLoss
    <3>1. CASE unsynced = 0
      BY <2>2, <3>1 DEF PowerLoss
    <3>2. CASE unsynced # 0
      <4>1. files' = [files EXCEPT ![file_idx] =
                        SubSeq(files[file_idx], 1, Len(files[file_idx]) - unsynced)]
        BY <2>2, <3>2 DEF PowerLoss
      <4> QED
        BY <3>2, <4>1
    <3> QED
      BY <3>1, <3>2
  <2> QED
    BY <2>1, <2>2
<1>2. FilesOK'
  <2>1. CASE n = 0
    BY <1>1, <2>1 DEF FilesOK
  <2>2. CASE n # 0
    <3>1. /\ file_idx \in DOMAIN files /\ n \in Nat /\ n <= Len(files[file_idx])
          /\ files[file_idx] \in Seq(Frames)
      BY <1>1, <2>2 DEF CardOK
    <3>2. /\ DOMAIN files' = DOMAIN files
          /\ files'[file_idx] = SubSeq(files[file_idx], 1, Len(files[file_idx]) - n)
          /\ \A j \in DOMAIN files : j # file_idx => files'[j] = files[j]
      BY <1>1, <2>2, <3>1, ShortenedFile
    <3>3. PICK r, m : r = files[file_idx] /\ m = Len(files[file_idx]) - n
      OBVIOUS
    <3>4. r \in Seq(Frames) /\ Chain(r) /\ m \in 0..Len(r)
      BY <3>1, <3>3, LenProperties DEF FilesOK
    <3>5. /\ SubSeq(r, 1, m) \in Seq(Frames) /\ Len(SubSeq(r, 1, m)) = m
          /\ \A k \in 1..m : SubSeq(r, 1, m)[k] = r[k]
      BY <3>4, SubSeqProperties, LenProperties
    <3>6. Chain(SubSeq(r, 1, m))
      <4>1. PICK q : q = SubSeq(r, 1, m)
        OBVIOUS
      <4>2. q \in Seq(Frames) /\ Len(q) <= Len(r) /\ \A k \in 1..Len(q) : q[k] = r[k]
        BY <3>4, <3>5, <4>1, LenProperties
      <4> QED
        BY <3>4, <4>1, <4>2, Prefix
    <3>7. \A k \in DOMAIN files' : Chain(files'[k])
      BY <3>2, <3>3, <3>6 DEF FilesOK
    <3> QED
      BY <3>7 DEF FilesOK
  <2> QED
    BY <2>1, <2>2
<1>3. EndOK'
  <2>1. CASE Close
    <3>1. /\ at = "close" /\ at' = "try_init" /\ packet_buffer' = packet_buffer
          /\ UNCHANGED <<sent, out>>
      BY <2>1 DEF Close, vars, sender
    <3>2. OpenEnd' = OpenEnd
      BY <3>1 DEF OpenEnd
    <3> QED
      BY <3>1, <3>2, EndKept DEF EndOK
  <2>2. CASE PowerLoss
    <3>1. OpenEnd' = <<>>
      BY <2>2 DEF PowerLoss, OpenEnd
    <3> QED
      BY <3>1, EndEmpty
  <2> QED
    BY <2>1, <2>2
<1> QED
  BY <1>2, <1>3

\* A frame that is appended follows the last one, and the next one follows it.
LEMMA AppendsInOrder ==
  ASSUME TableOK, LogTypeOK, CuttingOK, FilesOK, EndOK, AppendFrame
  PROVE  FilesOK' /\ EndOK'
<1>1. PICK g : g = NextFrame
  OBVIOUS
<1>2. /\ out # None /\ Advance /\ at = "ready" /\ at' \in {"ready", "write"}
      /\ packet_buffer' = Append(packet_buffer, g)
      /\ UNCHANGED <<sent, files, file_idx, full>>
  BY <1>1 DEF AppendFrame, card
<1>3. /\ g \in Frames /\ WellFormed(g) /\ g.id = out.id /\ g.part = out.i /\ g.n = sent[out.id]
  BY <1>1, <1>2, NextOK DEF LogTypeOK
<1>4. FilesOK'
  BY <1>2 DEF FilesOK
<1>5. OpenEnd \in Seq(Frames) /\ OpenEnd' = Append(OpenEnd, g)
  <2>1. OpenEnd \in Seq(Frames)
    BY OpenEndType DEF LogTypeOK
  <2>2. CASE full
    BY <1>2, <2>1, <2>2 DEF OpenEnd
  <2>3. CASE ~full
    <3>1. PICK r, b : r = files[file_idx] /\ b = packet_buffer
      OBVIOUS
    <3>2. r \in Seq(Frames) /\ b \in Seq(Frames)
      BY <1>2, <3>1 DEF LogTypeOK, CardOK
    <3>3. OpenEnd = r \o b /\ OpenEnd' = r \o Append(b, g)
      BY <1>2, <2>3, <3>1 DEF OpenEnd
    <3>4. r \o Append(b, g) = Append(r \o b, g)
      <4>1. /\ Append(b, g) = b \o <<g>> /\ Append(r \o b, g) = (r \o b) \o <<g>>
            /\ <<g>> \in Seq(Frames)
        BY <1>3, <3>2, AppendIsConcat, ConcatProperties
      <4> QED
        BY <3>2, <4>1, ConcatAssociative
    <3> QED
      BY <2>1, <3>3, <3>4
  <2> QED
    BY <2>2, <2>3
<1>6. PICK e : e = OpenEnd
  OBVIOUS
<1>7. /\ e \in Seq(Frames) /\ Chain(e) /\ (e # <<>> => Follows(g, e[Len(e)]))
      /\ \A k \in DOMAIN e : Given(e[k])
  BY <1>1, <1>2, <1>5, <1>6 DEF EndOK, NextFollows
<1>8. \A k \in DOMAIN e : Before(e[k], g)
  <2>1. SUFFICES ASSUME NEW k \in DOMAIN e, e[k].id = g.id
                 PROVE  e[k].n < g.n \/ (e[k].n = g.n /\ e[k].part < g.part)
    BY DEF Before
  <2>2. e[k].n \in Nat /\ g.n \in Nat
    <3>1. e[k] \in Frames
      BY <1>7, ElementOfSeq, LenProperties
    <3> QED
      BY <1>3, <3>1, FrameTypes
  <2>3. e[k].n <= g.n /\ (e[k].n = g.n => e[k].part < g.part)
    BY <1>2, <1>3, <1>7, <2>1 DEF Given, Cutting
  <2> QED
    BY <2>2, <2>3
<1>9. PICK r : r = Append(e, g)
  OBVIOUS
<1>10. /\ Chain(r) /\ r[Len(r)] = g
       /\ \A k \in DOMAIN r : (k \in DOMAIN e /\ r[k] = e[k]) \/ r[k] = g
  BY <1>3, <1>7, <1>8, <1>9, Longer
<1>11. out.i \in Nat /\ out.id \in Ids
  BY <1>2 DEF LogTypeOK, EndsOK, OutOK, Outgoing, MAX_SEQNO
<1>12. IF out' = None THEN LastPart(g) ELSE Follows(NextFrame', g)
  <2>1. CASE GoesOn
    <3>1. out' # None /\ out'.id = out.id /\ out'.i = out.i + 1 /\ out'.n = out.n
          /\ out.n = sent[out.id]
      BY <1>2, <2>1 DEF GoesOn, CuttingOK
    <3>2. /\ NextFrame'.id = out'.id /\ NextFrame'.n = out'.n /\ NextFrame'.part = out'.i
      BY DEF NextFrame
    <3>3. out'.i # 0
      BY <1>11, <3>1
    <3> QED
      BY <1>3, <3>1, <3>2, <3>3 DEF Follows
  <2>2. CASE WasLast
    <3>1. IsWrapped(out.id) => out.i = 0 /\ out.id \notin Mapped
      BY <1>2 DEF CuttingOK, TableOK
    <3>2. ~IsWrapped(out.id) => out.id \in Mapped
      BY <1>2 DEF LogTypeOK, EndsOK, OutOK
    <3>3. out.i + 1 = Parts(out.id)
      BY <2>2, <3>1, <3>2 DEF WasLast, Parts
    <3> QED
      BY <1>3, <2>2, <3>3 DEF WasLast, LastPart
  <2> QED
    BY <1>2, <2>1, <2>2, Turns DEF LogTypeOK
<1>13. ASSUME NEW f, f \in {g} \cup {e[k] : k \in DOMAIN e}
       PROVE  /\ f.n <= sent'[f.id]
              /\ out' # None /\ out'.id = f.id /\ f.n = sent'[f.id] => f.part < out'.i
  <2>1. Given(f) \/ f = g
    BY <1>7, <1>13
  <2>2. f.n <= sent[f.id]
    <3>1. sent[g.id] \in Nat
      BY <1>3, <1>11, BoundAssumption DEF LogTypeOK, EndsOK
    <3> QED
      BY <1>3, <2>1, <3>1 DEF Given
  <2>3. ASSUME out' # None, out'.id = f.id, f.n = sent[f.id] PROVE f.part < out'.i
    <3>1. GoesOn
      BY <1>2, <2>3, Turns DEF LogTypeOK, WasLast
    <3>2. out'.i = out.i + 1 /\ out'.id = out.id
      BY <3>1 DEF GoesOn
    <3>3. f.part <= out.i /\ f.part \in Nat
      <4>1. f.part \in Nat
        <5>1. \A k \in DOMAIN e : e[k] \in Frames
          BY <1>7, ElementOfSeq, LenProperties
        <5>2. f \in Frames
          BY <1>3, <1>13, <5>1
        <5> QED
          BY <5>2, FrameTypes
      <4>2. f = g \/ f.part < out.i
        BY <1>2, <2>1, <2>3, <3>2 DEF Given, Cutting
      <4> QED
        BY <1>3, <1>11, <4>1, <4>2
    <3> QED
      BY <1>11, <3>2, <3>3
  <2> QED
    BY <1>2, <2>2, <2>3
<1>14. EndOK'
  <2>1. OpenEnd' = r
    BY <1>5, <1>6, <1>9
  <2>2. \A k \in DOMAIN r : r[k] \in {g} \cup {e[j] : j \in DOMAIN e}
    BY <1>10
  <2>3. \A k \in DOMAIN r :
           /\ r[k].n <= sent'[r[k].id]
           /\ out' # None /\ out'.id = r[k].id /\ r[k].n = sent'[r[k].id] => r[k].part < out'.i
    BY <1>13, <2>2
  <2>4. NextFollows(r)'
    <3>1. \A k \in DOMAIN r : Given(r[k])'
      BY <2>3 DEF Given, Cutting
    <3>2. IF out' = None THEN LastPart(r[Len(r)]) ELSE Follows(NextFrame', r[Len(r)])
      BY <1>10, <1>12
    <3> QED
      BY <3>1, <3>2 DEF NextFollows
  <2> QED
    BY <1>10, <2>1, <2>4 DEF EndOK, NextFollows, Given, Cutting
<1> QED
  BY <1>4, <1>14

\* A packet begins when the one before it has been cut up.
LEMMA BeginsInOrder ==
  ASSUME LogTypeOK, EndOK, out = None, NEW p \in Packets, Begins(p), OpenEnd' = OpenEnd
  PROVE  EndOK'
<1>1. PICK e : e = OpenEnd /\ e \in Seq(Frames)
  BY OpenEndType DEF LogTypeOK
<1>2. /\ Chain(e) /\ (e # <<>> => LastPart(e[Len(e)])) /\ \A k \in DOMAIN e : Given(e[k])
  BY <1>1 DEF EndOK, NextFollows
<1>3. e # <<>> => Follows(NextFrame', e[Len(e)])
  BY <1>2 DEF Begins, NextFrame, Follows
<1>4. ASSUME NEW k \in DOMAIN e
      PROVE  /\ e[k].n <= sent'[e[k].id]
             /\ out' # None /\ out'.id = e[k].id => e[k].n # sent'[e[k].id]
  <2>1. e[k].id \in Ids /\ e[k].n \in Nat
    <3>1. e[k] \in Frames
      BY <1>1, ElementOfSeq, LenProperties
    <3> QED
      BY <3>1, FrameTypes
  <2>2. sent[e[k].id] \in Nat /\ sent \in [Ids -> Nat]
    BY <2>1, BoundAssumption DEF LogTypeOK, EndsOK
  <2>3. e[k].n <= sent[e[k].id]
    BY <1>2 DEF Given
  <2>4. sent'[e[k].id] = IF e[k].id = p.id THEN sent[e[k].id] + 1 ELSE sent[e[k].id]
    BY <2>1, <2>2 DEF Begins
  <2> QED
    BY <2>1, <2>2, <2>3, <2>4 DEF Begins
<1>5. out' # None
  BY DEF Begins
<1> QED
  BY <1>1, <1>2, <1>3, <1>4, <1>5 DEF EndOK, NextFollows, Given, Cutting

\* No frame comes onto the card or into the buffer but by can_send.
LEMMA CardWrites ==
  ASSUME CardOK, Write \/ WriteShort \/ WriteFails
  PROVE  OnCard' \subseteq OnCard
<1>1. PICK n \in 0..Len(packet_buffer) : Written(n) /\ file_idx \in DOMAIN files
  <2>1. Len(packet_buffer) \in Nat
    BY DEF CardOK
  <2>2. at = "write" => file_idx \in DOMAIN files
    BY DEF CardOK
  <2>3. CASE Write
    BY <2>1, <2>2, <2>3 DEF Write
  <2>4. CASE WriteShort
    <3>1. PICK n \in 0..Len(packet_buffer) - 1 : Written(n)
      BY <2>4 DEF WriteShort
    <3>2. n \in 0..Len(packet_buffer)
      BY <2>1, <3>1
    <3> QED
      BY <2>2, <2>4, <3>1, <3>2 DEF WriteShort
  <2>5. CASE WriteFails
    <3>1. PICK n \in 0..(IF full THEN 0 ELSE Len(packet_buffer)) : Written(n)
      BY <2>5 DEF WriteFails
    <3>2. n \in 0..Len(packet_buffer)
      BY <2>1, <3>1
    <3> QED
      BY <2>2, <2>5, <3>1, <3>2 DEF WriteFails
  <2> QED
    BY <2>3, <2>4, <2>5
<1>2. InSeq(packet_buffer)' \subseteq InSeq(packet_buffer)
  <2>1. packet_buffer' = packet_buffer \/ packet_buffer' = <<>>
    BY DEF Write, WriteShort, WriteFails, Flushed
  <2> QED
    BY <2>1 DEF InSeq
<1>3. /\ DOMAIN files' = DOMAIN files
      /\ InSeq(files'[file_idx])
           = InSeq(files[file_idx]) \cup InSeq(SubSeq(packet_buffer, 1, n))
      /\ \A j \in DOMAIN files : j # file_idx => files'[j] = files[j]
  BY <1>1, WrittenFile
<1>4. InSeq(SubSeq(packet_buffer, 1, n)) \subseteq InSeq(packet_buffer)
  BY <1>1, Pieces DEF CardOK
<1>5. ASSUME NEW j \in DOMAIN files PROVE InSeq(files'[j]) \subseteq OnCard
  <2>1. CASE j = file_idx
    BY <1>3, <1>4, <1>5, <2>1 DEF OnCard
  <2>2. CASE j # file_idx
    BY <1>3, <1>5, <2>2 DEF OnCard
  <2> QED
    BY <2>1, <2>2
<1>6. InSeq(packet_buffer)' \subseteq OnCard
  BY <1>2 DEF OnCard
<1>7. ASSUME NEW f \in OnCard' PROVE f \in OnCard
  <2>1. f \in InSeq(packet_buffer)' \/ \E j \in DOMAIN files' : f \in InSeq(files'[j])
    BY DEF OnCard, InSeq
  <2> QED
    BY <1>3, <1>5, <1>6, <2>1
<1> QED
  BY <1>7

LEMMA CardShortens ==
  ASSUME CardOK, Close \/ PowerLoss
  PROVE  OnCard' \subseteq OnCard
<1>1. PICK n \in {0, unsynced} :
         IF n = 0 THEN files' = files
         ELSE files' = [files EXCEPT ![file_idx] =
                          SubSeq(files[file_idx], 1, Len(files[file_idx]) - n)]
  <2>1. CASE Close
    BY <2>1 DEF Close, Forget
  <2>2. CASE PowerLoss
    <3>1. CASE unsynced = 0
      BY <2>2, <3>1 DEF PowerLoss
    <3>2. CASE unsynced # 0
      <4>1. files' = [files EXCEPT ![file_idx] =
                        SubSeq(files[file_idx], 1, Len(files[file_idx]) - unsynced)]
        BY <2>2, <3>2 DEF PowerLoss
      <4> QED
        BY <3>2, <4>1
    <3> QED
      BY <3>1, <3>2
  <2> QED
    BY <2>1, <2>2
<1>2. InSeq(packet_buffer)' \subseteq InSeq(packet_buffer)
  <2>1. packet_buffer' = packet_buffer \/ packet_buffer' = <<>>
    BY DEF Close, PowerLoss
  <2> QED
    BY <2>1 DEF InSeq
<1>3. DOMAIN files' = DOMAIN files /\ \A j \in DOMAIN files : InSeq(files'[j]) \subseteq InSeq(files[j])
  <2>1. CASE n = 0
    BY <1>1, <2>1
  <2>2. CASE n # 0
    <3>1. /\ file_idx \in DOMAIN files /\ n \in Nat /\ n <= Len(files[file_idx])
      BY <1>1, <2>2 DEF CardOK
    <3> QED
      BY <1>1, <2>2, <3>1, ShortenedFile
  <2> QED
    BY <2>1, <2>2
<1>4. ASSUME NEW f \in OnCard' PROVE f \in OnCard
  <2>1. f \in InSeq(packet_buffer)' \/ \E j \in DOMAIN files' : f \in InSeq(files'[j])
    BY DEF OnCard, InSeq
  <2> QED
    BY <1>2, <1>3, <2>1 DEF OnCard
<1> QED
  BY <1>4

LEMMA CardOpens ==
  ASSUME CardOK, TryInit \/ ConnectFails \/ Connect \/ Exists \/ Create \/ CreateFails
  PROVE  OnCard' \subseteq OnCard
<1>1. packet_buffer' = packet_buffer
  BY DEF TryInit, ConnectFails, Connect, Exists, Create, CreateFails
<1>2. CASE files' = files
  BY <1>1, <1>2 DEF OnCard, InSeq
<1>3. CASE Create
  <2>1. files' = Append(files, <<>>) /\ files \in Seq(Seq(Frames)) /\ <<>> \in Seq(Frames)
    BY <1>3 DEF Create, CardOK
  <2>2. /\ DOMAIN files = 1..Len(files) /\ Len(files) \in Nat
        /\ DOMAIN files' = 1..Len(files) + 1
        /\ \A k \in 1..Len(files) : files'[k] = files[k]
        /\ files'[Len(files) + 1] = <<>>
    BY <2>1, AppendProperties, LenProperties
  <2>3. ASSUME NEW f \in OnCard' PROVE f \in OnCard
    <3>1. f \in InSeq(packet_buffer) \/ \E j \in DOMAIN files' : f \in InSeq(files'[j])
      BY <1>1 DEF OnCard, InSeq
    <3>2. ASSUME NEW j \in DOMAIN files', f \in InSeq(files'[j]) PROVE j \in 1..Len(files)
      <4>1. j # Len(files) + 1
        BY <2>2, <3>2 DEF InSeq
      <4> QED
        BY <2>2, <4>1
    <3> QED
      BY <2>2, <3>1, <3>2 DEF OnCard
  <2> QED
    BY <2>3
<1> QED
  BY <1>2, <1>3 DEF TryInit, ConnectFails, Connect, Exists, Create, CreateFails, card

LEMMA CardAppends ==
  ASSUME LogTypeOK, AppendFrame
  PROVE  OnCard' \subseteq OnCard \cup {NextFrame}
<1>1. /\ packet_buffer' = Append(packet_buffer, NextFrame) /\ files' = files /\ out # None
  BY DEF AppendFrame, card
<1>2. packet_buffer \in Seq(Frames) /\ NextFrame \in Frames
  BY <1>1, NextIsFrame DEF LogTypeOK, CardOK
<1>3. PICK s, g : s = packet_buffer /\ g = NextFrame
  OBVIOUS
<1>4. /\ DOMAIN s = 1..Len(s) /\ Len(s) \in Nat /\ DOMAIN packet_buffer' = 1..Len(s) + 1
      /\ \A k \in 1..Len(s) : packet_buffer'[k] = s[k]
      /\ packet_buffer'[Len(s) + 1] = g
  BY <1>1, <1>2, <1>3, AppendProperties, LenProperties
<1>5. InSeq(packet_buffer)' \subseteq InSeq(packet_buffer) \cup {g}
  <2>1. ASSUME NEW k \in DOMAIN packet_buffer'
        PROVE  packet_buffer'[k] \in InSeq(packet_buffer) \cup {g}
    <3>1. k \in 1..Len(s) \/ k = Len(s) + 1
      BY <1>4
    <3> QED
      BY <1>3, <1>4, <3>1 DEF InSeq
  <2> QED
    BY <2>1 DEF InSeq
<1> QED
  BY <1>1, <1>3, <1>5 DEF OnCard, InSeq

\* The frames of the card were sent, and stay so.
LEMMA StillSent ==
  ASSUME LogTypeOK, SentOK, OnCard' \subseteq OnCard,
         \A id \in Ids : sent[id] \in Nat /\ sent'[id] \in Nat /\ sent[id] <= sent'[id]
  PROVE  SentOK'
<1>1. OnCard \subseteq Frames
  <2>1. ASSUME NEW s \in Seq(Frames) PROVE InSeq(s) \subseteq Frames
    <3>1. \A k \in DOMAIN s : s[k] \in Frames
      BY ElementOfSeq, LenProperties
    <3> QED
      BY <3>1 DEF InSeq
  <2>2. packet_buffer \in Seq(Frames) /\ \A k \in DOMAIN files : files[k] \in Seq(Frames)
    BY DEF LogTypeOK, CardOK
  <2> QED
    BY <2>1, <2>2 DEF OnCard
<1>2. ASSUME NEW f \in OnCard' PROVE f.n \in 1..sent'[f.id]
  <2>1. f \in OnCard
    OBVIOUS
  <2>2. f.n \in 1..sent[f.id] /\ f.id \in Ids
    BY <1>1, <2>1 DEF SentOK, Frames
  <2> QED
    BY <2>2
<1> QED
  BY <1>2 DEF SentOK

LEMMA AppendsSent ==
  ASSUME TableOK, LogTypeOK, CuttingOK, SentOK, AppendFrame
  PROVE  SentOK'
<1>1. OnCard' \subseteq OnCard \cup {NextFrame} /\ sent' = sent /\ out # None
  BY CardAppends DEF AppendFrame
<1>2. NextFrame.n = sent[NextFrame.id] /\ sent[NextFrame.id] \in Nat \ {0}
  <2>1. NextFrame.id = out.id /\ NextFrame.n = sent[out.id]
    BY <1>1, NextOK DEF LogTypeOK
  <2>2. out.id \in Ids /\ sent[out.id] > 0
    BY <1>1, BusTypes DEF LogTypeOK, CuttingOK
  <2> QED
    BY <2>1, <2>2, BusTypes DEF LogTypeOK
<1>3. NextFrame.n \in 1..sent[NextFrame.id]
  BY <1>2
<1> QED
  BY <1>1, <1>3 DEF SentOK

\* The record that is read belongs where its mapping's buffer would take it.
LEMMA ReadsInPlace ==
  ASSUME TableOK, LogTypeOK, CuttingOK, \A u \in Mapped : BufferOK(u), FilesOK, SentOK, ReadOK,
         damaged = {}, overlapped = {}, ~EmptyFile, ReadRecord \/ ReadEnd
  PROVE  /\ \E f \in Frames :
              /\ Genuine(f) /\ Continues(f) /\ can_interface_receive(f)
              /\ ReadRecord => f = files[playing][record]
              /\ ReadEnd => record # 1 /\ f = files[playing][record - 1]
         /\ ReadOK'
<1>1. /\ Reading /\ playing \in DOMAIN files /\ files[playing] \in Seq(Frames)
      /\ record \in Nat \ {0} /\ Len(files[playing]) \in Nat
      /\ playing' = playing /\ files' = files /\ record' = record + 1
      /\ UNCHANGED <<sent, damaged, overlapped>>
  <2>1. /\ Reading /\ playing' = playing /\ files' = files /\ record' = record + 1
        /\ UNCHANGED <<sent, damaged, overlapped>>
    BY DEF ReadRecord, ReadEnd, card, sender, lossy
  <2> QED
    BY <2>1 DEF LogTypeOK, CardOK
<1>2. PICK file : file = files[playing]
  OBVIOUS
<1>3. /\ file \in Seq(Frames) /\ Len(file) \in Nat /\ DOMAIN file = 1..Len(file)
      /\ Chain(file) /\ file # <<>>
  BY <1>1, <1>2, LenProperties DEF FilesOK, EmptyFile
<1>4. ASSUME record <= Len(file) + 1, NEW t \in Mapped, Valid(t) > 0
      PROVE  /\ record > 1
             /\ file[record - 1].id = t =>
                  file[record - 1].part = Valid(t) - 1 /\ file[record - 1].n = Number(t, 0)
  BY <1>1, <1>2, <1>4 DEF ReadOK
<1>5. ASSUME NEW k \in DOMAIN file PROVE file[k] \in Frames /\ Genuine(file[k])
  <2>1. file[k] \in Frames /\ WellFormed(file[k])
    BY <1>3, ElementOfSeq DEF Chain
  <2>2. file[k] \in OnCard
    BY <1>1, <1>2 DEF OnCard, InSeq
  <2> QED
    BY <2>1, <2>2 DEF SentOK, Genuine
<1>6. ASSUME NEW t \in Mapped, NEW k \in 0..Valid(t) - 1, Valid(t) \in Nat
      PROVE  Number(t, k) = Number(t, 0)
  <2>1. 0 \in 0..Valid(t) - 1
    BY <1>6
  <2>2. Together(t, Number(t, 0), Number(t, k))
    BY <2>1 DEF BufferOK
  <2> QED
    BY <2>2 DEF Together, Marked
<1>7. CASE ReadRecord
  <2>1. record \in 1..Len(file) /\ can_interface_receive(file[record])
    BY <1>1, <1>2, <1>7 DEF ReadRecord
  <2>2. PICK f, last : f = file[record] /\ last = file[record - 1]
    OBVIOUS
  <2>3. /\ f \in Frames /\ Genuine(f) /\ can_interface_receive(f) /\ f.part \in Nat
        /\ record > 1 => Follows(f, last)
    BY <1>3, <1>5, <2>1, <2>2, FrameTypes DEF Chain
  <2>4. Continues(f)
    <3>1. SUFFICES ASSUME ~IsWrapped(f.id), Valid(f.id) = f.part, NEW k \in 0..f.part - 1
                   PROVE  Together(f.id, Number(f.id, k), f.n)
      BY DEF Continues
    <3>2. f.id \in Mapped /\ record <= Len(file) + 1 /\ f.part # 0 /\ f.part > 0
      BY <1>3, <2>1, <2>3, <3>1, MappedFrame DEF Genuine
    <3>3. record > 1 /\ (last.id = f.id => last.n = Number(f.id, 0))
      BY <1>4, <2>2, <3>1, <3>2
    <3>4. f.n = Number(f.id, 0)
      BY <2>3, <3>2, <3>3 DEF Follows
    <3>5. Number(f.id, k) = Number(f.id, 0)
      BY <1>6, <2>3, <3>1, <3>2
    <3> QED
      BY <3>4, <3>5 DEF Together
  <2>5. \/ \E t \in Mapped : Accepted(t, f) \/ Completed(t, f) \/ Restarted(t, f)
        \/ PassedOn(f)
    BY <1>1, <2>3, <2>4, Outcomes DEF LogTypeOK
  <2>6. ASSUME NEW t \in Mapped, Valid(t)' > 0, f.id = t
        PROVE  f.part = Valid(t)' - 1 /\ f.n = Number(t, 0)'
    <3>1. ~IsWrapped(t) /\ ~(Valid(t)' = 0)
      BY <2>6 DEF TableOK
    <3>2. Accepted(t, f)
      BY <2>5, <2>6, <3>1 DEF Accepted, Completed, Restarted, PassedOn
    <3>3. f.part = Valid(t)' - 1
      BY <2>3, <3>2 DEF Accepted
    <3>4. CASE f.part = 0
      BY <3>2, <3>3, <3>4 DEF Accepted
    <3>5. CASE f.part # 0
      <4>1. 0 \in 0..f.part - 1
        BY <2>3, <3>5
      <4>2. Number(t, 0)' = Number(t, 0)
        BY <3>2, <4>1 DEF Accepted
      <4>3. Together(t, Number(t, 0), f.n)
        BY <2>4, <2>6, <3>1, <3>2, <4>1 DEF Continues, Accepted
      <4> QED
        BY <3>3, <4>2, <4>3 DEF Together, Marked
    <3> QED
      BY <3>4, <3>5
  <2>7. record' > 1 /\ files'[playing'][record' - 1] = f
    BY <1>1, <1>2, <2>2
  <2>8. ReadOK'
    BY <2>6, <2>7 DEF ReadOK
  <2>9. ~ReadEnd
    BY <1>1, <1>2, <1>3, <2>1 DEF ReadEnd
  <2> QED
    BY <1>2, <2>2, <2>3, <2>4, <2>8, <2>9
<1>8. CASE ReadEnd
  <2>1. record = Len(file) + 1 /\ ~(record' <= Len(file) + 1) /\ ~ReadRecord
    BY <1>1, <1>2, <1>8 DEF ReadEnd, ReadRecord
  <2>2. ReadOK'
    BY <1>1, <1>2, <2>1 DEF ReadOK
  <2>3. Len(file) # 0 /\ record # 1 /\ record - 1 \in 1..Len(file)
    <3>1. Len(file) # 0
      BY <1>3, EmptySeq
    <3> QED
      BY <1>3, <2>1, <3>1
  <2>4. PICK f : f = file[record - 1] /\ can_interface_receive(f)
    BY <1>2, <1>8, <2>3 DEF ReadEnd
  <2>5. f \in Frames /\ Genuine(f) /\ f.part \in Nat
    BY <1>3, <1>5, <2>3, <2>4, FrameTypes
  <2>6. Continues(f)
    <3>1. SUFFICES ASSUME ~IsWrapped(f.id), Valid(f.id) = f.part, NEW k \in 0..f.part - 1
                   PROVE  FALSE
      BY DEF Continues
    <3>2. f.id \in Mapped /\ record <= Len(file) + 1 /\ f.part > 0
      BY <1>3, <2>1, <2>5, <3>1, MappedFrame DEF Genuine
    <3>3. f.part = f.part - 1
      BY <1>4, <2>4, <3>1, <3>2
    <3> QED
      BY <2>5, <3>3
  <2> QED
    BY <1>2, <2>1, <2>2, <2>3, <2>4, <2>5, <2>6
<1> QED
  BY <1>7, <1>8

\* Of an empty file there is only the record that the stack holds.
LEMMA EmptyIsRead ==
  ASSUME LogTypeOK, EmptyFile, ReadRecord \/ ReadEnd
  PROVE  EmptyFile' /\ ReadOK'
<1>1. /\ Reading /\ playing' = playing /\ files' = files /\ record' = record + 1
      /\ files[playing] = <<>>
  BY DEF ReadRecord, ReadEnd, card, EmptyFile
<1>2. record \in Nat \ {0}
  BY <1>1 DEF LogTypeOK, CardOK
<1>3. ~(record' <= Len(files[playing]) + 1)
  BY <1>1, <1>2
<1> QED
  BY <1>1, <1>3 DEF EmptyFile, ReadOK, Reading

-----------------------------------------------------------------------------
(* The invariant *)

WholeInv == PacketsInv /\ medium \in {"bus", "log"}

LEMMA WholeInit == LogInit => WholeInv
<1> SUFFICES ASSUME LogInit PROVE WholeInv
  OBVIOUS
<1>1. /\ out = None /\ tx = <<>> /\ files = <<>> /\ packet_buffer = <<>>
      /\ received = [id \in ReceivedIds |-> <<>>]
      /\ mapping_buffers = [t \in Mapped |-> EmptyBuffer]
      /\ damaged = {} /\ overlapped = {}
      /\ playing = None /\ medium \in {"bus", "log"}
      /\ at = IF medium = "log" THEN "try_init" ELSE "off"
  BY DEF LogInit, Init
<1>2. \A t \in Mapped : Valid(t) = 0
  BY <1>1 DEF EmptyBuffer, Valid
<1>3. ReceivedOK
  <2>1. <<>> \in Seq(Seq(Parted \cup {None}))
    OBVIOUS
  <2> QED
    BY <1>1, <2>1 DEF ReceivedOK
<1>4. DOMAIN received = ReceivedIds /\ \A id \in ReceivedIds : received[id] = <<>>
  BY <1>1
<1>5. Assembled /\ DeliveredInOrder /\ OthersNotThere
  BY <1>2, <1>4 DEF Assembled, DeliveredInOrder, OthersNotThere
<1>6. 0..0 - 1 = {}
  OBVIOUS
<1>7. PacketsWhole
  <2>1. \A t \in Mapped : BufferOK(t)
    <3>1. \A t \in Mapped : 0 < size_in_packets(t)
      BY Sizes
    <3> QED
      BY <1>2, <1>6, <3>1 DEF BufferOK
  <2> QED
    BY <1>1, <1>3, <1>5, <2>1 DEF PacketsWhole, CuttingOK
<1>8. InSeq(tx) = {} /\ \A id : Coming(id) = {} /\ ~Cutting(id) /\ ~Present(id)
  BY <1>1 DEF InSeq, Coming, Cutting, Present
<1>9. BusOK
  <2>1. WaitingOK
    BY <1>1, <1>8 DEF WaitingOK
  <2>2. ASSUME NEW id \in Ids PROVE BegunOK(id) /\ NextInOrder(id)
    <3>1. received[id] = <<>> /\ (id \in Mapped => ~(Valid(id) > 0))
      BY <1>2, <1>4, OwnIds
    <3>2. Begun(id) = {}
      BY <3>1 DEF Begun
    <3> QED
      BY <3>1, <3>2 DEF BegunOK, NextInOrder
  <2>3. \A t \in Mapped : MixedOK(t) /\ AloneOK(t)
    BY <1>2, <1>6, <1>8 DEF MixedOK, AloneOK
  <2> QED
    BY <1>5, <2>1, <2>2, <2>3 DEF BusOK, OrderOK
<1>10. BusInv
  BY <1>1, <1>9 DEF BusInv
<1>11. CardInv
  <2>1. FilesOK
    BY <1>1 DEF FilesOK
  <2>2. medium = "log" => OpenEnd = <<>>
    BY <1>1 DEF OpenEnd
  <2>3. medium = "log" => EndOK
    BY <2>2 DEF EndOK, Chain, NextFollows
  <2>4. OnCard = {}
    BY <1>1 DEF OnCard, InSeq
  <2> QED
    BY <1>1, <1>2, <2>1, <2>3, <2>4 DEF CardInv, UnreadOK, ReadOK, Reading, SentOK
<1> QED
  BY <1>1, <1>7, <1>10, <1>11 DEF WholeInv, PacketsInv

\* A step that hands nothing on, while packets are sent and marked
LEMMA PacketsCut ==
  ASSUME EndsOK, EndsOK', PacketsWhole, UNCHANGED <<mapping_buffers, received>>,
         EmptyFile => EmptyFile', \A id \in Ids : sent[id] <= sent'[id],
         damaged \subseteq damaged', overlapped \subseteq overlapped', CuttingOK'
  PROVE  PacketsWhole'
<1>1. CASE EmptyFile'
  BY <1>1 DEF PacketsWhole
<1>2. CASE ~EmptyFile'
  <2>1. ReceivedOK /\ Assembled /\ \A t \in Mapped : BufferOK(t)
    BY <1>2 DEF PacketsWhole
  <2>2. ReceivedOK' /\ Assembled'
    BY <2>1, AssembledStays DEF ReceivedOK
  <2>3. ASSUME NEW t \in Mapped PROVE BufferOK(t)'
    BY <2>1, BufferLeft
  <2> QED
    BY <2>2, <2>3 DEF PacketsWhole
<1> QED
  BY <1>1, <1>2

LEMMA PacketsSame ==
  ASSUME EndsOK, EndsOK', PacketsWhole, EmptyFile => EmptyFile',
         UNCHANGED <<sent, out, mapping_buffers, received, damaged, overlapped>>
  PROVE  PacketsWhole'
<1>1. CuttingOK'
  BY DEF PacketsWhole, CuttingOK
<1>2. \A id \in Ids : sent[id] <= sent'[id]
  BY DEF EndsOK
<1> QED
  BY <1>1, <1>2, PacketsCut

\* While the thread runs nobody reads.
LEMMA Unread ==
  ASSUME CardOK, UnreadOK, at # "off", UNCHANGED <<playing, mapping_buffers>>
  PROVE  UnreadOK' /\ ReadOK' /\ ~EmptyFile
<1>1. ~Reading /\ ~(Reading')
  BY DEF CardOK, Reading
<1> QED
  BY <1>1 DEF UnreadOK, ReadOK, Valid, EmptyFile

\* The bus
LEMMA WholeOnBus ==
  ASSUME TableOK, LogTypeOK, LogTypeOK', WholeInv, medium = "bus", Next, UNCHANGED logVars
  PROVE  WholeInv'
<1>1. /\ PacketsWhole /\ CuttingOK /\ BusOK /\ EndsOK /\ EndsOK'
      /\ at = "off" /\ playing = None
  BY DEF WholeInv, PacketsInv, PacketsWhole, BusInv, LogTypeOK
<1>2. medium' = "bus" /\ at' = "off" /\ playing' = None /\ ~EmptyFile /\ ~(EmptyFile')
  BY <1>1 DEF logVars, replay, EmptyFile, Reading
<1>3. ReceivedOK /\ Assembled /\ \A u \in Mapped : BufferOK(u)
  BY <1>1, <1>2 DEF PacketsWhole
<1>4. ASSUME UNCHANGED <<sent, mapping_buffers, received, overlapped>>, damaged \subseteq damaged',
             CuttingOK'
      PROVE  PacketsWhole'
  <2>1. \A id \in Ids : sent[id] <= sent'[id]
    BY <1>1, <1>4 DEF EndsOK
  <2> QED
    BY <1>1, <1>2, <1>4, <2>1, PacketsCut
<1>5. PacketsWhole' /\ BusOK'
  <2>1. ASSUME NEW p \in Packets, StartSend(p) PROVE PacketsWhole' /\ BusOK'
    <3>1. /\ overlapped \subseteq overlapped' /\ damaged' = damaged
          /\ UNCHANGED <<tx, mapping_buffers, received>>
          /\ CuttingOK' /\ (Begins(p) \/ UNCHANGED <<sent, out>>)
      BY <1>1, <2>1, Overlaps, Starts
    <3>2. \A id \in Ids : sent[id] <= sent'[id]
      BY <1>1, <3>1 DEF EndsOK, Begins
    <3>3. PacketsWhole'
      BY <1>1, <1>2, <3>1, <3>2, PacketsCut
    <3> QED
      BY <1>1, <2>1, <3>3, BusStarts
  <2>2. CASE SendFrame
    <3>1. /\ CuttingOK' /\ UNCHANGED <<sent, mapping_buffers, received, overlapped, damaged>>
      BY <1>1, <2>2, Turns DEF SendFrame, receiver, lossy
    <3> QED
      BY <1>1, <1>4, <2>2, <3>1, BusSends
  <2>3. CASE LoseFrame
    <3>1. /\ CuttingOK' /\ UNCHANGED <<sent, mapping_buffers, received, overlapped>>
          /\ damaged \subseteq damaged'
      BY <1>1, <2>3, Turns DEF LoseFrame, receiver
    <3> QED
      BY <1>1, <1>4, <2>3, <3>1, BusLoses
  <2>4. CASE Arrive
    <3>1. PICK f \in Frames : /\ Genuine(f) /\ Continues(f) /\ can_interface_receive(f)
                              /\ UNCHANGED <<sent, out, damaged, overlapped>>
      BY <1>1, <1>3, <2>4, Arrivals
    <3>2. ReceivedOK' /\ Assembled' /\ \A u \in Mapped : BufferOK(u)'
      BY <1>1, <1>3, <3>1, PacketsKept
    <3>3. CuttingOK'
      BY <1>1, <3>1 DEF CuttingOK
    <3> QED
      BY <1>1, <1>3, <2>4, <3>2, <3>3, BusArrives DEF PacketsWhole
  <2> QED
    BY <2>1, <2>2, <2>3, <2>4 DEF Next
<1> QED
  BY <1>2, <1>5 DEF WholeInv, PacketsInv, BusInv, CardInv

\* The card
LEMMA CardStep ==
  ASSUME WholeInv, medium = "log", medium' = medium, tx' = tx, UNCHANGED <<damaged, overlapped>>,
         PacketsWhole', FilesOK', EndOK', SentOK', UnreadOK', ReadOK'
  PROVE  WholeInv'
BY DEF WholeInv, PacketsInv, BusInv, CardInv

LEMMA WholeLogged ==
  ASSUME TableOK, LogTypeOK, LogTypeOK', WholeInv, NEW p \in Packets, LogPacket(p)
  PROVE  WholeInv'
<1>1. /\ medium = "log" /\ at = "ready" /\ StartSend(p)
      /\ UNCHANGED <<medium, at, full, files, file_idx, packet_buffer, playing, record>>
  BY DEF LogPacket, logVars, card, replay
<1>2. /\ PacketsWhole /\ CuttingOK /\ EndsOK /\ EndsOK' /\ CardOK
      /\ tx = <<>> /\ FilesOK /\ EndOK /\ SentOK /\ UnreadOK /\ ReadOK
  BY <1>1 DEF WholeInv, PacketsInv, PacketsWhole, CardInv, LogTypeOK
<1>3. /\ damaged' = damaged /\ overlapped \subseteq overlapped'
      /\ UNCHANGED <<tx, mapping_buffers, received>>
      /\ out = None /\ CuttingOK' /\ (Begins(p) \/ UNCHANGED <<sent, out>>)
  BY <1>1, <1>2, Overlaps, Starts
<1>4. overlapped' = overlapped
  <2>1. 1..Len(tx) = {}
    BY <1>2
  <2>2. WaitingOf(p.id) = {}
    BY <2>1 DEF WaitingOf
  <2> QED
    BY <1>1, <2>2 DEF StartSend
<1>5. \A id \in Ids : sent[id] \in Nat /\ sent'[id] \in Nat /\ sent[id] <= sent'[id]
  BY <1>2, <1>3 DEF EndsOK, Begins
<1>6. UnreadOK' /\ ReadOK' /\ ~EmptyFile
  BY <1>1, <1>2, <1>3, Unread
<1>7. PacketsWhole'
  BY <1>2, <1>3, <1>4, <1>5, <1>6, PacketsCut
<1>8. OnCard' \subseteq OnCard
  BY <1>1 DEF OnCard, InSeq
<1>9. FilesOK' /\ SentOK'
  BY <1>1, <1>2, <1>5, <1>8, StillSent DEF FilesOK
<1>10. EndOK'
  <2>1. OpenEnd' = OpenEnd
    BY <1>1 DEF OpenEnd
  <2>2. CASE Begins(p)
    BY <1>2, <1>3, <2>1, <2>2, BeginsInOrder
  <2>3. CASE UNCHANGED <<sent, out>>
    BY <1>2, <2>1, <2>3, EndKept DEF EndOK
  <2> QED
    BY <1>3, <2>2, <2>3
<1> QED
  BY <1>1, <1>3, <1>4, <1>6, <1>7, <1>9, <1>10, CardStep

LEMMA WholeCollected ==
  ASSUME TableOK, LogTypeOK, LogTypeOK', WholeInv, AppendFrame
  PROVE  WholeInv'
<1>1. /\ medium = "log" /\ medium' = medium /\ at = "ready" /\ tx' = tx
      /\ out # None /\ Advance
      /\ UNCHANGED <<sent, mapping_buffers, received, playing, damaged, overlapped>>
  BY DEF AppendFrame, receiver, replay, lossy
<1>2. /\ PacketsWhole /\ CuttingOK /\ EndsOK /\ EndsOK' /\ CardOK
      /\ FilesOK /\ EndOK /\ SentOK /\ UnreadOK /\ ReadOK
  BY <1>1 DEF WholeInv, PacketsInv, PacketsWhole, CardInv, LogTypeOK
<1>3. CuttingOK'
  BY <1>1, <1>2, Turns
<1>4. FilesOK' /\ EndOK' /\ SentOK'
  BY <1>2, AppendsInOrder, AppendsSent
<1>5. UnreadOK' /\ ReadOK' /\ ~EmptyFile
  BY <1>1, <1>2, Unread
<1>6. \A id \in Ids : sent[id] <= sent'[id]
  BY <1>1, <1>2 DEF EndsOK
<1>7. PacketsWhole'
  BY <1>1, <1>2, <1>3, <1>5, <1>6, PacketsCut
<1> QED
  BY <1>1, <1>4, <1>5, <1>7, CardStep

LEMMA WholeWritten ==
  ASSUME TableOK, LogTypeOK, LogTypeOK', WholeInv, LogThread
  PROVE  WholeInv'
<1>1. /\ UNCHANGED vars /\ at # "off" /\ UNCHANGED <<medium, playing>>
  BY DEF LogThread, TryInit, ConnectFails, Connect, Exists, Create, CreateFails,
         Write, WriteShort, WriteFails, Close, replay
<1>2. medium = "log" /\ UNCHANGED <<sent, out, tx, mapping_buffers, received, damaged, overlapped>>
  BY <1>1 DEF WholeInv, PacketsInv, BusInv, vars, sender, receiver, lossy
<1>3. /\ PacketsWhole /\ EndsOK /\ EndsOK' /\ CardOK
      /\ FilesOK /\ EndOK /\ SentOK /\ UnreadOK /\ ReadOK
  BY <1>2 DEF WholeInv, PacketsInv, CardInv, LogTypeOK
<1>4. FilesOK' /\ EndOK'
  BY <1>3, OpensInOrder, WritesInOrder, ShortensInOrder DEF LogThread
<1>5. OnCard' \subseteq OnCard
  BY <1>3, CardOpens, CardWrites, CardShortens DEF LogThread
<1>6. SentOK'
  <2>1. \A id \in Ids : sent[id] \in Nat /\ sent'[id] \in Nat /\ sent[id] <= sent'[id]
    BY <1>2, <1>3 DEF EndsOK
  <2> QED
    BY <1>3, <1>5, <2>1, StillSent
<1>7. UnreadOK' /\ ReadOK' /\ ~EmptyFile
  BY <1>1, <1>2, <1>3, Unread
<1>8. PacketsWhole'
  BY <1>2, <1>3, <1>7, PacketsSame
<1> QED
  BY <1>1, <1>2, <1>4, <1>6, <1>7, <1>8, CardStep

LEMMA WholeCutOff ==
  ASSUME TableOK, LogTypeOK, LogTypeOK', WholeInv, PowerLoss
  PROVE  WholeInv'
<1>1. /\ medium = "log" /\ medium' = medium /\ at # "off" /\ tx' = tx /\ out' = None
      /\ UNCHANGED <<sent, mapping_buffers, received, playing, damaged, overlapped>>
  BY DEF PowerLoss, receiver, replay, lossy
<1>2. /\ PacketsWhole /\ EndsOK /\ EndsOK' /\ CardOK
      /\ FilesOK /\ EndOK /\ SentOK /\ UnreadOK /\ ReadOK
  BY <1>1 DEF WholeInv, PacketsInv, CardInv, LogTypeOK
<1>3. CuttingOK'
  BY <1>1 DEF CuttingOK
<1>4. FilesOK' /\ EndOK' /\ OnCard' \subseteq OnCard
  BY <1>2, ShortensInOrder, CardShortens
<1>5. UnreadOK' /\ ReadOK' /\ ~EmptyFile
  BY <1>1, <1>2, Unread
<1>6. \A id \in Ids : sent[id] \in Nat /\ sent'[id] \in Nat /\ sent[id] <= sent'[id]
  BY <1>1, <1>2 DEF EndsOK
<1>7. PacketsWhole' /\ SentOK'
  BY <1>1, <1>2, <1>3, <1>4, <1>5, <1>6, PacketsCut, StillSent
<1> QED
  BY <1>1, <1>4, <1>5, <1>7, CardStep

LEMMA WholeStarts ==
  ASSUME TableOK, LogTypeOK, LogTypeOK', WholeInv, StartReplay
  PROVE  WholeInv'
<1>1. /\ medium = "log" /\ medium' = medium /\ at = "off" /\ playing = None
      /\ UNCHANGED <<sent, out, tx, mapping_buffers, received, damaged, overlapped,
                     at, full, files, file_idx, packet_buffer>>
  BY DEF StartReplay, vars, sender, receiver, lossy, card
<1>2. /\ PacketsWhole /\ EndsOK /\ EndsOK'
      /\ FilesOK /\ EndOK /\ SentOK /\ UnreadOK
  BY <1>1 DEF WholeInv, PacketsInv, CardInv, LogTypeOK
<1>3. FilesOK' /\ EndOK'
  <2>1. OpenEnd' = OpenEnd
    BY <1>1 DEF OpenEnd
  <2> QED
    BY <1>1, <1>2, <2>1, EndKept DEF FilesOK, EndOK
<1>4. SentOK'
  BY <1>1, <1>2 DEF SentOK, OnCard, InSeq
<1>5. \A t \in Mapped : Valid(t)' = 0
  BY <1>1, <1>2 DEF UnreadOK, Reading, Valid
<1>6. UnreadOK' /\ ReadOK'
  <2>1. \A t \in Mapped : ~(Valid(t)' > 0)
    BY <1>5
  <2> QED
    BY <1>5, <2>1 DEF UnreadOK, ReadOK
<1>7. PacketsWhole'
  BY <1>1, <1>2, PacketsSame DEF EmptyFile, Reading
<1> QED
  BY <1>1, <1>3, <1>4, <1>6, <1>7, CardStep

LEMMA WholeRead ==
  ASSUME TableOK, LogTypeOK, LogTypeOK', WholeInv, ReadRecord \/ ReadEnd
  PROVE  WholeInv'
<1>1. /\ Reading /\ UNCHANGED <<medium, sent, out, tx, damaged, overlapped, at, full, files,
                                file_idx, packet_buffer, playing>>
  BY DEF ReadRecord, ReadEnd, sender, card, lossy
<1>2. medium = "log"
  BY <1>1 DEF WholeInv, PacketsInv, BusInv, Reading
<1>3. /\ PacketsWhole /\ CuttingOK /\ EndsOK /\ EndsOK' /\ damaged = {} /\ overlapped = {}
      /\ FilesOK /\ EndOK /\ SentOK /\ UnreadOK /\ ReadOK
  BY <1>2 DEF WholeInv, PacketsInv, PacketsWhole, CardInv, LogTypeOK
<1>4. CuttingOK'
  BY <1>1, <1>3 DEF CuttingOK
<1>5. FilesOK' /\ EndOK'
  <2>1. OpenEnd' = OpenEnd
    BY <1>1 DEF OpenEnd
  <2> QED
    BY <1>1, <1>3, <2>1, EndKept DEF FilesOK, EndOK
<1>6. SentOK'
  BY <1>1, <1>3 DEF SentOK, OnCard, InSeq
<1>7. UnreadOK'
  BY <1>1 DEF UnreadOK, Reading
<1>8. PacketsWhole' /\ ReadOK'
  <2>1. CASE EmptyFile
    BY <1>4, <2>1, EmptyIsRead DEF PacketsWhole
  <2>2. CASE ~EmptyFile
    <3>1. ReceivedOK /\ Assembled /\ \A u \in Mapped : BufferOK(u)
      BY <1>3, <2>2 DEF PacketsWhole
    <3>2. ReadOK' /\ \E f \in Frames : Genuine(f) /\ Continues(f) /\ can_interface_receive(f)
      BY <1>3, <2>2, <3>1, ReadsInPlace
    <3>3. ReceivedOK' /\ Assembled' /\ \A u \in Mapped : BufferOK(u)'
      BY <1>1, <1>3, <3>1, <3>2, PacketsKept
    <3> QED
      BY <1>4, <3>2, <3>3 DEF PacketsWhole
  <2> QED
    BY <2>1, <2>2
<1> QED
  BY <1>1, <1>2, <1>5, <1>6, <1>7, <1>8, CardStep

LEMMA WholeStutters ==
  ASSUME TableOK, LogTypeOK, LogTypeOK', WholeInv, UNCHANGED allVars
  PROVE  WholeInv'
<1>1. UNCHANGED <<sent, out, tx, mapping_buffers, received, damaged, overlapped, medium, at, full,
                  files, file_idx, packet_buffer, playing, record>>
  BY DEF allVars, vars, sender, receiver, lossy, logVars, card, replay
<1>2. PacketsWhole'
  BY <1>1, PacketsSame DEF EmptyFile, Reading, WholeInv, PacketsInv, LogTypeOK
<1>3. BusInv'
  BY <1>1, Unmoved DEF BusInv, WholeInv, PacketsInv
<1>4. CardInv'
  <2>1. OpenEnd' = OpenEnd
    BY <1>1 DEF OpenEnd
  <2>2. medium = "log" => EndOK'
    BY <1>1, <2>1, EndKept DEF EndOK, WholeInv, PacketsInv, CardInv
  <2>3. (\A t \in Mapped : Valid(t)' = Valid(t)) /\ \A t, k : Number(t, k)' = Number(t, k)
    BY <1>1 DEF Valid, Number
  <2>4. medium = "log" => FilesOK' /\ SentOK' /\ UnreadOK' /\ ReadOK'
    BY <1>1, <2>3 DEF WholeInv, PacketsInv, CardInv, FilesOK, SentOK, OnCard, InSeq, UnreadOK,
                      ReadOK, Reading
  <2> QED
    BY <1>1, <2>2, <2>4 DEF WholeInv, PacketsInv, CardInv
<1> QED
  BY <1>1, <1>2, <1>3, <1>4 DEF WholeInv, PacketsInv

LEMMA WholeKept ==
  ASSUME TableOK, LogTypeOK, WholeInv, [LogNext]_allVars
  PROVE  WholeInv'
<1>1. LogTypeOK'
  BY LogTypeKept
<1> QED
  BY <1>1, WholeOnBus, WholeLogged, WholeCollected, WholeWritten, WholeCutOff, WholeStarts,
     WholeRead, WholeStutters DEF LogNext

LEMMA WholeInvariant == ASSUME TableOK PROVE LogSpec => []WholeInv
<1>1. LogTypeOK /\ WholeInv /\ [LogNext]_allVars => WholeInv'
  BY WholeKept
<1>2. LogSpec => []LogTypeOK
  BY LogInvariant, PTL
<1> QED
  BY <1>1, <1>2, WholeInit, PTL DEF LogSpec

\* can_interface_receive: every part of a packet that is handed on is in its place and of a
\* packet with its id that can_interface_send was given; all are of one packet, unless each
\* of those they are of had lost frames or waited in the controller with another.  It does
\* not matter which frames were lost and which file was read, if it was not empty.
THEOREM PacketsAreWhole ==
  ASSUME TableOK
  PROVE  LogSpec => []WholeMessages
<1>1. WholeInv => WholeMessages
  BY DEF WholeInv, PacketsInv, PacketsWhole, WholeMessages, EmptyFile
<1> QED
  BY <1>1, WholeInvariant, PTL

\* Packets of one id come off the bus in the order in which can_interface_send was given
\* them, and each once; only two that each waited in the controller with another may have
\* changed places.
THEOREM PacketsInOrder ==
  ASSUME TableOK
  PROVE  LogSpec => []BusDeliversInOrder
<1>1. WholeInv => BusDeliversInOrder
  BY DEF WholeInv, PacketsInv, BusInv, BusOK, OrderOK, BusDeliversInOrder
<1> QED
  BY <1>1, WholeInvariant, PTL

-----------------------------------------------------------------------------
(* The bus: what a lost frame costs *)

\* Once a packet that lost nothing has gone its way, nothing is left in the buffer: the
\* last frame that leaves is a last part.
EndsInTurn(t) ==
    /\ ~Cutting(t)
    /\ sent[t] > 0 => <<t, sent[t]>> \notin damaged
    => IF Coming(t) = {} THEN Valid(t) = 0 ELSE \E f \in Coming(t) : LastPart(f)

\* The packet that ResyncAfterOne promises: its parts wait that are not in the buffer.
Unbroken(t) ==
    /\ Present(t) /\ Undisturbed(t)
    /\ ~Marked(t, sent[t]) /\ (sent[t] > 1 => <<t, sent[t] - 1>> \notin damaged)
    => /\ Waits(t, Valid(t)) /\ Valid(t) \in 0..CutOff(t)
       /\ \A k \in 0..Valid(t) - 1 : Number(t, k) = sent[t]

ResyncInv ==
    /\ ResyncAfterOne
    /\ \A t \in Mapped \cap Ids : EndsInTurn(t) /\ Unbroken(t)

LEMMA SettledFrames ==
  EndsOK => \A id, n : Settled(id, n) <=>
      /\ n <= sent[id]
      /\ out = None \/ out.id # id \/ out.n # n
      /\ \A f \in InSeq(tx) : f.id # id \/ f.n # n
<1>1. EndsOK => DOMAIN tx = 1..Len(tx)
  BY DEF EndsOK
<1> QED
  BY <1>1 DEF Settled, InSeq

\* SettledFrames after a step.
LEMMA SettledFramesNext ==
  (EndsOK => \A id, n : Settled(id, n) <=>
      /\ n <= sent[id]
      /\ out = None \/ out.id # id \/ out.n # n
      /\ \A f \in InSeq(tx) : f.id # id \/ f.n # n)'
  BY SettledFrames, PTL

\* A step that settles no packet but damaged ones and hands nothing on
LEMMA PromiseStays ==
  ASSUME ResyncAfterOne, received' = received, unallocated' = unallocated,
         damaged \subseteq damaged', overlapped \subseteq overlapped',
         \A u \in Ids : \A n \in 1..sent'[u] :
            Settled(u, n)' /\ <<u, n>> \notin damaged' => n \in 1..sent[u] /\ Settled(u, n)
  PROVE  ResyncAfterOne'
<1>1. ASSUME NEW u \in Ids, NEW n \in 1..sent'[u],
             Carried(u), Settled(u, n)', <<u, n>> \notin damaged' \cup unallocated',
             u \in Mapped /\ size_in_packets(u) > 1 =>
               /\ Undisturbed(u) /\ <<u, n>> \notin overlapped'
               /\ n > 1 => <<u, n - 1>> \notin damaged'
      PROVE  Arrived(u, n)'
  <2>1. n \in 1..sent[u] /\ Settled(u, n)
    BY <1>1
  <2>2. Arrived(u, n)
    BY <1>1, <2>1 DEF ResyncAfterOne
  <2> QED
    BY <2>2 DEF Arrived
<1> QED
  BY <1>1 DEF ResyncAfterOne, Carried, Collides, Undisturbed

\* What an id shows of the bus is left as it is.
LEMMA ResyncElsewhere ==
  ASSUME NEW t \in Mapped \cap Ids, EndsInTurn(t), Unbroken(t),
         Cutting(t)' <=> Cutting(t), CutOff(t)' = CutOff(t), Coming(t)' = Coming(t),
         sent'[t] = sent[t],
         \/ mapping_buffers'[t] = mapping_buffers[t]
         \/ Valid(t)' = 0 /\ ~Undisturbed(t),
         \A n : <<t, n>> \in damaged' <=> <<t, n>> \in damaged,
         \A n : Marked(t, n) => Marked(t, n)'
  PROVE  EndsInTurn(t)' /\ Unbroken(t)'
<1>1. mapping_buffers'[t] = mapping_buffers[t] =>
         Valid(t)' = Valid(t) /\ \A k : Number(t, k)' = Number(t, k)
  BY DEF Valid, Number
<1>2. EndsInTurn(t)'
  BY <1>1 DEF EndsInTurn
<1>3. Present(t)' <=> Present(t)
  BY DEF Present
<1>4. CASE ~Undisturbed(t)
  <2>1. ~(Undisturbed(t)')
    BY <1>4 DEF Undisturbed
  <2> QED
    BY <1>2, <2>1 DEF Unbroken
<1>5. CASE mapping_buffers'[t] = mapping_buffers[t]
  <2> SUFFICES Unbroken(t)'
    BY <1>2
  <2>0. Undisturbed(t)' <=> Undisturbed(t)
    BY DEF Undisturbed
  <2>1. SUFFICES ASSUME Present(t)', Undisturbed(t), ~(Marked(t, sent[t])'),
                        sent'[t] > 1 => <<t, sent'[t] - 1>> \notin damaged'
                 PROVE  /\ Waits(t, Valid(t))' /\ Valid(t)' \in 0..CutOff(t)'
                        /\ \A k \in 0..Valid(t)' - 1 : Number(t, k)' = sent'[t]
    BY <2>0 DEF Unbroken
  <2>2. /\ Present(t) /\ ~Marked(t, sent[t])
        /\ sent[t] > 1 => <<t, sent[t] - 1>> \notin damaged
    <3>1. Marked(t, sent[t]) => Marked(t, sent[t])'
      BY DEF Marked
    <3> QED
      BY <1>3, <2>1, <3>1
  <2>3. /\ Waits(t, Valid(t)) /\ Valid(t) \in 0..CutOff(t)
        /\ \A k \in 0..Valid(t) - 1 : Number(t, k) = sent[t]
    BY <2>1, <2>2 DEF Unbroken
  <2>4. Waits(t, Valid(t))'
    BY <1>1, <1>5, <2>3 DEF Waits
  <2> QED
    BY <1>1, <1>5, <2>3, <2>4
<1> QED
  BY <1>2, <1>4, <1>5

LEMMA ResyncStarts ==
  ASSUME TableOK, EndsOK, EndsOK', ResyncInv, NEW p \in Packets, StartSend(p), CuttingOK'
  PROVE  ResyncInv'
<1>1. PICK id : id = p.id
  OBVIOUS
<1>2. /\ out = None /\ id \in Ids
      /\ overlapped \subseteq overlapped' /\ damaged' = damaged /\ unallocated' = unallocated
      /\ tx' = tx /\ mapping_buffers' = mapping_buffers /\ received' = received
  BY <1>1, Starts, Overlaps, PacketTypes DEF StartSend, receiver
<1>3. ResyncAfterOne /\ \A t \in Mapped \cap Ids : EndsInTurn(t) /\ Unbroken(t)
  BY DEF ResyncInv
<1>4. InSeq(tx)' = InSeq(tx) /\ \A u : Coming(u)' = Coming(u) /\ ~Cutting(u)
  BY <1>2 DEF Coming, Cutting, InSeq
<1>5. \A u, n : Marked(u, n) => Marked(u, n)'
  BY <1>2 DEF Marked
<1>6. \A u \in Ids : sent[u] \in Nat /\ sent'[u] \in Nat
  BY DEF EndsOK
<1>7. CASE UNCHANGED <<sent, out>>
  <2>1. \A u : (Cutting(u)' <=> Cutting(u)) /\ CutOff(u)' = CutOff(u)
    BY <1>7 DEF Cutting, CutOff
  <2>2. ResyncAfterOne'
    <3>1. ASSUME NEW u \in Ids, NEW n \in 1..sent'[u], Settled(u, n)' PROVE Settled(u, n)
      BY <1>4, <1>7, <3>1, SettledFrames, SettledFramesNext
    <3> QED
      BY <1>2, <1>3, <1>7, <3>1, PromiseStays
  <2>3. ASSUME NEW t \in Mapped \cap Ids PROVE EndsInTurn(t)' /\ Unbroken(t)'
    BY <1>2, <1>3, <1>4, <1>5, <1>7, <2>1, ResyncElsewhere
  <2> QED
    BY <2>2, <2>3 DEF ResyncInv
<1>8. CASE Begins(p)
  <2>1. /\ out' # None /\ out'.id = id /\ out'.i = 0 /\ out'.n = sent'[id]
        /\ \A u \in Ids : sent'[u] = IF u = id THEN sent[id] + 1 ELSE sent[u]
        /\ \A f \in Coming(id) : <<id, f.n>> \in overlapped' /\ <<id, sent'[id]>> \in overlapped'
    BY <1>1, <1>2, <1>8, Overlaps DEF Begins, CuttingOK, EndsOK
  <2>2. \A u : (Cutting(u)' <=> u = id)
    BY <2>1 DEF Cutting
  <2>3. ResyncAfterOne'
    <3>1. ASSUME NEW u \in Ids, NEW n \in 1..sent'[u], Settled(u, n)'
          PROVE  n \in 1..sent[u] /\ Settled(u, n)
      <4>1. /\ out'.id # u \/ out'.n # n
            /\ \A f \in InSeq(tx) : f.id # u \/ f.n # n
        BY <1>4, <2>1, <3>1, SettledFramesNext
      <4>2. n \in 1..sent[u]
        BY <1>6, <2>1, <3>1, <4>1
      <4> QED
        BY <1>2, <1>6, <4>1, <4>2, SettledFrames
    <3> QED
      BY <1>2, <1>3, <3>1, PromiseStays
  <2>4. ASSUME NEW t \in Mapped \cap Ids PROVE EndsInTurn(t)' /\ Unbroken(t)'
    <3>1. CASE t # id
      <4>1. (Cutting(t)' <=> Cutting(t)) /\ CutOff(t)' = CutOff(t)
        BY <1>4, <2>2, <3>1 DEF CutOff
      <4> QED
        BY <1>2, <1>3, <1>4, <1>5, <2>1, <3>1, <4>1, ResyncElsewhere
    <3>2. CASE t = id
      <4>1. EndsInTurn(t)'
        BY <2>2, <3>2 DEF EndsInTurn
      <4>2. ASSUME ~(Marked(t, sent[t])'), sent'[t] > 1 => <<t, sent'[t] - 1>> \notin damaged'
            PROVE  /\ Waits(t, Valid(t))' /\ Valid(t)' \in 0..CutOff(t)'
                   /\ \A k \in 0..Valid(t)' - 1 : Number(t, k)' = sent'[t]
        <5>1. Coming(t) = {}
          BY <2>1, <3>2, <4>2 DEF Marked
        <5>2. sent[t] > 0 => <<t, sent[t]>> \notin damaged
          BY <1>2, <1>6, <2>1, <3>2, <4>2
        <5>3. Valid(t)' = 0
          BY <1>2, <1>3, <1>4, <5>1, <5>2 DEF EndsInTurn, Valid
        <5>4. CutOff(t)' = 0
          BY <2>1, <2>2, <3>2 DEF CutOff
        <5>5. Waits(t, Valid(t))'
          BY <1>4, <5>1, <5>3, <5>4 DEF Waits
        <5> QED
          BY <5>3, <5>4, <5>5
      <4> QED
        BY <4>1, <4>2 DEF Unbroken
    <3> QED
      BY <3>1, <3>2
  <2> QED
    BY <2>3, <2>4 DEF ResyncInv
<1> QED
  BY <1>7, <1>8, Starts

LEMMA ResyncSends ==
  ASSUME TableOK, EndsOK, EndsOK', CuttingOK, ResyncInv, SendFrame
  PROVE  ResyncInv'
<1>1. /\ out # None /\ tx' = Append(tx, NextFrame) /\ Advance
      /\ UNCHANGED <<sent, mapping_buffers, received, unallocated, damaged, overlapped>>
  BY DEF SendFrame, receiver, lossy
<1>2. PICK id, i, g : id = out.id /\ i = out.i /\ g = NextFrame
  OBVIOUS
<1>3. /\ g \in Frames /\ g.id = id /\ g.part = i /\ g.n = sent[id]
      /\ id \in Ids /\ i \in Nat /\ out.n = sent[id]
  BY <1>1, <1>2, NextOK, NextTurns DEF CuttingOK
<1>4. InSeq(tx)' = InSeq(tx) \cup {g}
  <2>1. tx \in Seq(Frames) /\ tx' = Append(tx, g)
    BY <1>1, <1>2 DEF EndsOK
  <2>2. /\ DOMAIN tx = 1..Len(tx) /\ Len(tx) \in Nat /\ DOMAIN tx' = 1..Len(tx) + 1
        /\ \A k \in 1..Len(tx) : tx'[k] = tx[k]
        /\ tx'[Len(tx) + 1] = g
    BY <1>3, <2>1, AppendProperties, LenProperties
  <2> QED
    BY <2>2 DEF InSeq
<1>5. /\ \A u : Coming(u)' = IF u = id THEN Coming(u) \cup {g} ELSE Coming(u)
      /\ Cutting(id)
  BY <1>1, <1>2, <1>3, <1>4 DEF Coming, Cutting
<1>6. /\ \A u : Cutting(u)' => u = id
      /\ id \in Mapped => CutOff(id)' = i + 1 /\ CutOff(id) = i
  BY <1>1, <1>2, NextTurns
<1>7. ResyncAfterOne /\ \A t \in Mapped \cap Ids : EndsInTurn(t) /\ Unbroken(t)
  BY DEF ResyncInv
<1>8. ResyncAfterOne'
  <2>1. ASSUME NEW u \in Ids, NEW n \in 1..sent'[u], Settled(u, n)' PROVE Settled(u, n)
    <3>1. /\ \A f \in InSeq(tx) : f.id # u \/ f.n # n
          /\ g.id # u \/ g.n # n
          /\ n <= sent[u]
      BY <1>1, <1>4, <2>1, SettledFramesNext
    <3>2. out.id # u \/ out.n # n
      BY <1>2, <1>3, <3>1
    <3> QED
      BY <3>1, <3>2, SettledFrames
  <2> QED
    BY <1>1, <1>7, <2>1, PromiseStays
<1>9. ASSUME NEW t \in Mapped \cap Ids PROVE EndsInTurn(t)' /\ Unbroken(t)'
  <2>1. EndsInTurn(t) /\ Unbroken(t) /\ ~IsWrapped(t)
    BY <1>7 DEF TableOK
  <2>2. CASE t # id
    <3>1. (Cutting(t)' <=> Cutting(t)) /\ CutOff(t)' = CutOff(t) /\ Coming(t)' = Coming(t)
      BY <1>1, <1>2, <1>5, <1>6, <2>2, OthersCut
    <3>2. \A n : Marked(t, n) => Marked(t, n)'
      BY <1>1 DEF Marked
    <3> QED
      BY <1>1, <2>1, <3>1, <3>2, ResyncElsewhere
  <2>3. CASE t = id
    <3>1. CutOff(t)' = i + 1 /\ CutOff(t) = i /\ Present(t) /\ Coming(t)' = Coming(t) \cup {g}
      BY <1>5, <1>6, <2>3 DEF Present
    <3>2. Valid(t)' = Valid(t) /\ \A k : Number(t, k)' = Number(t, k)
      BY <1>1 DEF Valid, Number
    <3>3. EndsInTurn(t)'
      <4>1. ~(Cutting(t)') => LastPart(g)
        <5>1. ~(Cutting(t)') => WasLast
          BY <1>1, <1>2, <2>3, Turns DEF GoesOn, Cutting
        <5>2. WasLast => i + 1 = size_in_packets(t)
          BY <1>2, <2>1, <2>3 DEF WasLast
        <5> QED
          BY <1>3, <2>3, <5>1, <5>2 DEF LastPart, Parts
      <4>2. g \in Coming(t)'
        BY <3>1
      <4> QED
        BY <4>1, <4>2 DEF EndsInTurn
    <3>4. ASSUME ~(Marked(t, sent[t])'), Undisturbed(t),
                 sent'[t] > 1 => <<t, sent'[t] - 1>> \notin damaged'
          PROVE  /\ Waits(t, Valid(t))' /\ Valid(t)' \in 0..CutOff(t)'
                 /\ \A k \in 0..Valid(t)' - 1 : Number(t, k)' = sent'[t]
      <4>1. /\ Waits(t, Valid(t)) /\ Valid(t) \in 0..i
            /\ \A k \in 0..Valid(t) - 1 : Number(t, k) = sent[t]
        BY <1>1, <2>1, <3>1, <3>4 DEF Unbroken, Marked
      <4>2. PICK v \in 0..i : v = Valid(t)
        BY <4>1
      <4>3. v \in 0..i + 1 /\ v..(i + 1) - 1 = v..i - 1 \cup {i}
        BY <1>3, <4>2
      <4>4. {f.part : f \in Coming(t)'} = {f.part : f \in Coming(t)} \cup {i}
        BY <1>3, <3>1
      <4>5. Waits(t, Valid(t))'
        BY <3>1, <3>2, <4>1, <4>2, <4>3, <4>4 DEF Waits
      <4> QED
        BY <1>1, <3>1, <3>2, <4>1, <4>2, <4>3, <4>5
    <3>5. Unbroken(t)'
      BY <3>4 DEF Unbroken, Undisturbed
    <3> QED
      BY <3>3, <3>5
  <2> QED
    BY <2>2, <2>3
<1> QED
  BY <1>8, <1>9 DEF ResyncInv

LEMMA ResyncLoses ==
  ASSUME TableOK, EndsOK, EndsOK', CuttingOK, ResyncInv, LoseFrame
  PROVE  ResyncInv'
<1>1. /\ out # None /\ Advance /\ damaged' = damaged \cup {<<out.id, out.n>>}
      /\ UNCHANGED <<sent, tx, mapping_buffers, received, unallocated, overlapped>>
  BY DEF LoseFrame, receiver
<1>2. PICK id : id = out.id
  OBVIOUS
<1>3. id \in Ids /\ sent[id] \in Nat \ {0} /\ out.n = sent[id] /\ \A u : Cutting(u)' => u = id
  BY <1>1, <1>2, NextTurns DEF CuttingOK
<1>4. InSeq(tx)' = InSeq(tx) /\ \A u : Coming(u)' = Coming(u)
  BY <1>1 DEF InSeq, Coming
<1>5. ResyncAfterOne /\ \A t \in Mapped \cap Ids : EndsInTurn(t) /\ Unbroken(t)
  BY DEF ResyncInv
<1>6. ResyncAfterOne'
  <2>1. ASSUME NEW u \in Ids, NEW n \in 1..sent'[u], Settled(u, n)', <<u, n>> \notin damaged'
        PROVE  Settled(u, n)
    <3>1. /\ \A f \in InSeq(tx) : f.id # u \/ f.n # n
          /\ n <= sent[u]
      BY <1>1, <1>4, <2>1, SettledFramesNext
    <3>2. out.id # u \/ out.n # n
      BY <1>1, <2>1
    <3> QED
      BY <3>1, <3>2, SettledFrames
  <2> QED
    BY <1>1, <1>5, <2>1, PromiseStays
<1>7. ASSUME NEW t \in Mapped \cap Ids PROVE EndsInTurn(t)' /\ Unbroken(t)'
  <2>1. CASE t # id
    <3>1. \A n : <<t, n>> \in damaged' <=> <<t, n>> \in damaged
      BY <1>1, <1>2, <2>1
    <3>2. (Cutting(t)' <=> Cutting(t)) /\ CutOff(t)' = CutOff(t)
      BY <1>1, <1>2, <1>3, <2>1, OthersCut
    <3>3. \A n : Marked(t, n) => Marked(t, n)'
      BY <1>1 DEF Marked
    <3> QED
      BY <1>1, <1>4, <1>5, <3>1, <3>2, <3>3, ResyncElsewhere
  <2>2. CASE t = id
    <3>1. <<t, sent'[t]>> \in damaged' /\ sent'[t] > 0
      BY <1>1, <1>2, <1>3, <2>2
    <3> QED
      BY <3>1 DEF EndsInTurn, Unbroken, Marked
  <2> QED
    BY <2>1, <2>2
<1> QED
  BY <1>6, <1>7 DEF ResyncInv

-----------------------------------------------------------------------------
(* The bus: what comes out *)

LEMMA DoneArrives ==
  ASSUME ReceivedOK, NEW f, f.id \in ReceivedIds, Done(f),
         \A j \in 0..f.part - 1 : Number(f.id, j) = f.n
  PROVE  Arrived(f.id, f.n)' \/ <<f.id, f.n>> \in unallocated'
<1>1. CASE Handed(f)
  <2>1. PICK m \in Nat : m = Len(received[f.id])
    BY <1>1, OneMore
  <2>2. /\ Len(received'[f.id]) = m + 1
        /\ Packed(f, received'[f.id][m + 1])
    BY <1>1, <2>1, OneMore
  <2>3. \A k \in 1..Len(received'[f.id][m + 1]) : received'[f.id][m + 1][k].n = f.n
    BY <2>2 DEF Packed
  <2>4. m + 1 \in 1..Len(received'[f.id])
    BY <2>1, <2>2
  <2> QED
    BY <2>3, <2>4 DEF Arrived
<1> QED
  BY <1>1 DEF Done

\* What came out stays, and so does the want of memory.
LEMMA ArrivedStays ==
  ASSUME TableOK, ReceivedOK, NEW f, Arrival(f), can_interface_receive(f)
  PROVE  /\ unallocated \subseteq unallocated'
         /\ \A u \in Ids : \A n : Arrived(u, n) => Arrived(u, n)'
<1>1. unallocated \subseteq unallocated'
  BY DEF can_interface_receive, handleUnrecognisedPacket, OutOfSequence, RejectFrame,
         AcceptFrame, handleFullPacket, receiver
<1>2. received' = received \/ Handed(f)
  BY DEF Arrival, Accepted, Completed, Restarted, PassedOn, Done
<1>3. f.id \in ReceivedIds
  BY OwnIds DEF Arrival, Frames
<1>4. ASSUME NEW u \in Ids, NEW n, Arrived(u, n) PROVE Arrived(u, n)'
  <2>1. CASE received' = received
    BY <1>4, <2>1 DEF Arrived
  <2>2. CASE Handed(f)
    <3>1. PICK j \in 1..Len(received[u]) :
             \A k \in 1..Len(received[u][j]) : received[u][j][k].n = n
      BY <1>4 DEF Arrived
    <3>2. j \in 1..Len(received'[u]) /\ received'[u][j] = received[u][j]
      <4>1. CASE u = f.id
        BY <1>3, <2>2, <3>1, <4>1, OneMore
      <4>2. CASE u # f.id
        BY <1>3, <2>2, <3>1, <4>2, OwnIds, OneMore
      <4> QED
        BY <4>1, <4>2
    <3> QED
      BY <3>1, <3>2 DEF Arrived
  <2> QED
    BY <1>2, <2>1, <2>2
<1> QED
  BY <1>1, <1>4

\* A packet of one frame that can_interface_receive recognises comes out at once.
LEMMA SingleArrives ==
  ASSUME TableOK, EndsOK, ReceivedOK, \A u \in Mapped : BufferOK(u),
         NEW f, Arrival(f), Carried(f.id), f.id \in Mapped => size_in_packets(f.id) = 1
  PROVE  Arrived(f.id, f.n)' \/ <<f.id, f.n>> \in unallocated'
<1>1. PICK id : id = f.id
  OBVIOUS
<1>2. f \in Frames /\ WellFormed(f) /\ id \in Ids /\ id \in ReceivedIds /\ f.part \in Nat
  BY <1>1, OwnIds DEF Arrival, Genuine, Frames, MAX_SEQNO
<1>3. f.part = 0
  BY <1>1, <1>2 DEF WellFormed
<1>4. Done(f)
  <2>1. CASE IsWrapped(id)
    <3>1. id \notin Mapped /\ f.sid = id - ts_m3_can /\ WrappedLen(id, f.len)
      BY <1>1, <1>2, <2>1 DEF WellFormed, TableOK
    <3>2. f.len # 0 /\ getMappingForCanID(f.sid) = {}
      BY <1>1, <2>1, <3>1 DEF Carried, Collides, WrappedLen
    <3>3. PassedOn(f)
      BY <1>1, <2>1, <3>1, <3>2 DEF Arrival, Accepted, Completed, Restarted
    <3> QED
      BY <3>2, <3>3 DEF PassedOn
  <2>2. CASE ~IsWrapped(id)
    <3>1. id \in Mapped /\ size_in_packets(id) = 1
      BY <1>1, <1>2, <2>2 DEF WellFormed
    <3>2. Valid(id) = 0
      BY <3>1, BusTypes DEF BufferOK
    <3>3. Completed(id, f)
      BY <1>1, <1>3, <2>2, <3>1, <3>2 DEF Arrival, Accepted, Completed, Restarted, PassedOn
    <3> QED
      BY <3>3 DEF Completed
  <2> QED
    BY <2>1, <2>2
<1>5. \A j \in 0..f.part - 1 : FALSE
  BY <1>3
<1> QED
  BY <1>1, <1>2, <1>4, <1>5, DoneArrives

\* The buffer of a packet that is not broken takes its frame.
LEMMA UnbrokenTakes ==
  ASSUME TableOK, EndsOK, WaitingOK, NEW f, Arrival(f), NEW t \in Mapped \cap Ids, t = f.id,
         AloneOK(t), Unbroken(t), Undisturbed(t),
         ~Marked(t, sent[t]), sent[t] > 1 => <<t, sent[t] - 1>> \notin damaged
  PROVE  /\ f.n = sent[t] /\ Valid(t) = f.part /\ f.part \in Nat
         /\ \A k \in 0..f.part - 1 : Number(t, k) = sent[t]
         /\ Accepted(t, f) \/ Completed(t, f)
<1>1. f \in Coming(t) /\ \A g \in Coming(t) : f.part <= g.part
  BY DEF Arrival
<1>2. /\ \A g \in Coming(t) : g.n = sent[t]
      /\ Waits(t, f.part) /\ f.part \in 0..CutOff(t) - 1 /\ CutOff(t) \in Nat
  BY <1>1, NextOfPacket
<1>3. /\ Waits(t, Valid(t)) /\ Valid(t) \in 0..CutOff(t)
      /\ \A k \in 0..Valid(t) - 1 : Number(t, k) = sent[t]
  BY <1>1 DEF Unbroken, Present
<1>4. PICK c \in Nat, p \in Nat, v \in Nat :
         c = CutOff(t) /\ p = f.part /\ v = Valid(t) /\ p < c /\ v <= c
  BY <1>2, <1>3
<1>5. v..c - 1 = p..c - 1
  BY <1>2, <1>3, <1>4 DEF Waits
<1>6. v = p
  <2>1. p \in v..c - 1
    BY <1>4, <1>5
  <2>2. v \in p..c - 1
    BY <1>4, <1>5, <2>1
  <2> QED
    BY <1>4, <2>1, <2>2
<1>7. ~IsWrapped(t)
  BY DEF TableOK
<1>8. Accepted(t, f) \/ Completed(t, f)
  BY <1>4, <1>6, <1>7 DEF Arrival, Accepted, Completed, Restarted, PassedOn
<1> QED
  BY <1>1, <1>2, <1>3, <1>4, <1>6, <1>8

LEMMA TurnArrives ==
  ASSUME TableOK, EndsOK, WaitingOK, NEW f, Arrival(f), NEW t \in Mapped \cap Ids, t = f.id,
         EndsInTurn(t), Coming(t)' = Coming(t) \ {f}, Cutting(t)' <=> Cutting(t)
  PROVE  EndsInTurn(t)'
<1>1. SUFFICES ASSUME ~Cutting(t), sent[t] > 0 => <<t, sent[t]>> \notin damaged
               PROVE  IF Coming(t)' = {} THEN Valid(t)' = 0
                      ELSE \E g \in Coming(t)' : LastPart(g)
  BY DEF EndsInTurn, Arrival
<1>2. /\ f \in Coming(t) /\ \A g \in Coming(t) : f.part <= g.part
      /\ ~IsWrapped(t) /\ size_in_packets(t) \in Nat /\ f.part \in Nat
  BY BusTypes, Sizes DEF Arrival, TableOK
<1>3. PICK h \in Coming(t) : LastPart(h)
  BY <1>1, <1>2 DEF EndsInTurn
<1>4. CASE h # f
  BY <1>3, <1>4
<1>5. CASE h = f
  <2>1. f.part + 1 = size_in_packets(t)
    BY <1>3, <1>5 DEF LastPart, Parts
  <2>2. Valid(t)' = 0
    BY <1>2, <2>1 DEF Arrival, Accepted, Completed, Restarted, PassedOn
  <2>3. ASSUME NEW g \in Coming(t)' PROVE LastPart(g)
    <3>1. g \in Coming(t) /\ g.id = t /\ g.part \in Nat /\ WellFormed(g)
      BY <2>3, BusTypes DEF Coming, WaitingOK
    <3>2. f.part <= g.part /\ g.part < size_in_packets(t)
      BY <1>2, <3>1 DEF WellFormed
    <3>3. g.part + 1 = size_in_packets(t)
      BY <1>2, <2>1, <3>1, <3>2
    <3> QED
      BY <3>1, <3>3 DEF LastPart, Parts
  <2> QED
    BY <2>2, <2>3
<1> QED
  BY <1>4, <1>5

LEMMA PacketGoesOn ==
  ASSUME TableOK, EndsOK, CuttingOK, WaitingOK, NEW f, Arrival(f),
         NEW t \in Mapped \cap Ids, t = f.id, AloneOK(t), Unbroken(t),
         \A n : Marked(t, n)' <=> Marked(t, n),
         Coming(t)' = Coming(t) \ {f}, CutOff(t)' = CutOff(t), Cutting(t)' <=> Cutting(t)
  PROVE  Unbroken(t)'
<1>0. PICK s : s = sent[t] /\ s = sent'[t] /\ damaged' = damaged
  BY DEF Arrival
<1>1. SUFFICES ASSUME Present(t)', Undisturbed(t), ~Marked(t, s),
                      s > 1 => <<t, s - 1>> \notin damaged
               PROVE  /\ Waits(t, Valid(t))' /\ Valid(t)' \in 0..CutOff(t)'
                      /\ \A k \in 0..Valid(t)' - 1 : Number(t, k)' = s
  <2>1. Undisturbed(t)' <=> Undisturbed(t)
    BY DEF Undisturbed
  <2>2. Marked(t, sent[t])' <=> Marked(t, s)
    BY <1>0 DEF Marked
  <2> QED
    BY <1>0, <2>1, <2>2 DEF Unbroken
<1>2. /\ f.n = s /\ Valid(t) = f.part /\ f.part \in Nat
      /\ \A k \in 0..f.part - 1 : Number(t, k) = s
      /\ Accepted(t, f) \/ Completed(t, f)
  BY <1>0, <1>1, UnbrokenTakes
<1>3. /\ Waits(t, f.part + 1)' /\ f.part + 1 \in 0..CutOff(t) /\ CutOff(t) \in Nat
  BY <1>0, <1>1, WaitsOn DEF Arrival
<1>4. Accepted(t, f)
  <2>1. SUFFICES ASSUME f.part + 1 = size_in_packets(t) PROVE FALSE
    BY <1>2, <2>1 DEF Completed
  <2>2. size_in_packets(t) \in Nat /\ ~IsWrapped(t)
    BY Sizes DEF TableOK
  <2>3. CASE Cutting(t)
    <3>1. out.i \in Nat /\ out.i < size_in_packets(t) /\ CutOff(t) = out.i
      BY <2>2, <2>3, BusTypes DEF Cutting, CuttingOK, CutOff
    <3> QED
      BY <1>3, <2>1, <2>2, <3>1
  <2>4. CASE ~Cutting(t)
    <3>1. CutOff(t)' = size_in_packets(t)
      BY <2>4 DEF CutOff
    <3>2. (f.part + 1)..size_in_packets(t) - 1 = {}
      BY <2>1, <2>2
    <3>3. Coming(t)' = {}
      BY <1>3, <3>1, <3>2 DEF Waits
    <3> QED
      BY <1>1, <2>4, <3>3 DEF Present
  <2> QED
    BY <2>3, <2>4
<1>5. PICK v : v = Valid(t)'
  OBVIOUS
<1>6. v = f.part + 1 /\ v \in 0..CutOff(t)' /\ Waits(t, v)'
  BY <1>3, <1>4, <1>5 DEF Accepted
<1>7. ASSUME NEW k \in 0..v - 1 PROVE Number(t, k)' = s
  <2>1. k = f.part \/ k \in 0..f.part - 1
    BY <1>2, <1>6, <1>7, OneMorePart
  <2> QED
    BY <1>2, <1>4, <2>1 DEF Accepted
<1>8. Waits(t, Valid(t))'
  BY <1>5, <1>6 DEF Waits
<1> QED
  BY <1>5, <1>6, <1>7, <1>8

\* The last frame of a packet that was promised completes it.
LEMMA PromiseKept ==
  ASSUME TableOK, EndsOK, CuttingOK, WaitingOK, ReceivedOK, \A u \in Mapped : BufferOK(u),
         NEW f, Arrival(f), NEW t \in Mapped \cap Ids, t = f.id,
         AloneOK(t), Unbroken(t), EndsInTurn(t), Undisturbed(t),
         ~Marked(t, sent[t]), sent[t] > 1 => <<t, sent[t] - 1>> \notin damaged,
         ~Cutting(t), Coming(t) \subseteq {f}
  PROVE  Arrived(t, f.n)' \/ <<t, f.n>> \in unallocated'
<1>1. /\ f.n = sent[t] /\ Valid(t) = f.part /\ f.part \in Nat
      /\ \A k \in 0..f.part - 1 : Number(t, k) = sent[t]
      /\ Accepted(t, f) \/ Completed(t, f)
  BY UnbrokenTakes
<1>2. f \in Coming(t)
  BY DEF Arrival
<1>3. LastPart(f)
  BY <1>2 DEF EndsInTurn, Marked
<1>4. f.part + 1 = size_in_packets(t)
  BY <1>3 DEF LastPart, Parts
<1>5. Completed(t, f)
  BY <1>1, <1>4, Sizes DEF Accepted
<1>6. Done(f) /\ f.id \in ReceivedIds
  BY <1>5, OwnIds DEF Completed
<1> QED
  BY <1>1, <1>6, DoneArrives

LEMMA ResyncArrives ==
  ASSUME TableOK, EndsOK, EndsOK', CuttingOK, ReceivedOK,
         \A u \in Mapped : BufferOK(u), BusOK, ResyncInv, Arrive
  PROVE  ResyncInv'
<1>1. PICK f \in Frames : Genuine(f) /\ Arrival(f) /\ can_interface_receive(f)
  BY Arrivals
<1>2. \A i, j \in DOMAIN tx' : tx'[i] = tx'[j] => i = j
  BY Arrivals
<1>3. WaitingOK
  BY DEF BusOK
<1>4. \A u : /\ Coming(u)' = Coming(u) \ {f} /\ (Cutting(u)' <=> Cutting(u))
             /\ CutOff(u)' = CutOff(u) /\ (u # f.id => Coming(u)' = Coming(u))
             /\ \A n : Marked(u, n)' <=> Marked(u, n)
  BY <1>1, <1>2, <1>3, WaitingArrives
<1>5. /\ UNCHANGED <<sent, out, damaged, overlapped>> /\ InSeq(tx)' = InSeq(tx) \ {f}
      /\ f.id \in Ids /\ f \in Coming(f.id)
  BY <1>1 DEF Arrival, Frames
<1>6. ResyncAfterOne /\ \A t \in Mapped \cap Ids : EndsInTurn(t) /\ Unbroken(t)
  BY DEF ResyncInv
<1>7. /\ unallocated \subseteq unallocated'
      /\ \A u \in Ids : \A n : Arrived(u, n) => Arrived(u, n)'
  BY <1>1, ArrivedStays
<1>8. ResyncAfterOne'
  <2>1. ASSUME NEW u \in Ids, NEW n \in 1..sent[u],
               Carried(u), Settled(u, n)', <<u, n>> \notin damaged \cup unallocated',
               u \in Mapped /\ size_in_packets(u) > 1 =>
                 /\ Undisturbed(u) /\ <<u, n>> \notin overlapped
                 /\ n > 1 => <<u, n - 1>> \notin damaged
        PROVE  Arrived(u, n)'
    <3>1. /\ n <= sent[u]
          /\ out = None \/ out.id # u \/ out.n # n
          /\ \A g \in InSeq(tx) \ {f} : g.id # u \/ g.n # n
      BY <1>5, <2>1, SettledFramesNext
    <3>2. CASE Settled(u, n)
      BY <1>6, <1>7, <2>1, <3>2 DEF ResyncAfterOne
    <3>3. CASE ~Settled(u, n)
      <4>1. u = f.id /\ n = f.n
        BY <3>1, <3>3, SettledFrames
      <4>2. CASE u \notin Mapped \/ size_in_packets(u) = 1
        BY <1>1, <2>1, <4>1, <4>2, SingleArrives
      <4>3. CASE u \in Mapped /\ size_in_packets(u) # 1
        <5>1. size_in_packets(u) > 1
          BY <4>3, Sizes
        <5>2. n = sent[u]
          <6>1. f.n \in Nat /\ sent[u] \in Nat /\ n \in n..sent[u]
                /\ (f.n < sent[u] => \A m \in f.n..sent[u] : <<u, m>> \in overlapped)
            BY <1>1, <1>3, <2>1, <4>1, BusTypes DEF WaitingOK, Arrival
          <6> QED
            BY <2>1, <4>1, <4>3, <5>1, <6>1
        <5>3. ~Marked(u, sent[u]) /\ (sent[u] > 1 => <<u, sent[u] - 1>> \notin damaged)
          BY <2>1, <4>3, <5>1, <5>2 DEF Marked
        <5>4. ~Cutting(u)
          BY <3>1, <5>2 DEF Cutting, CuttingOK
        <5>5. Coming(u) \subseteq {f}
          <6>1. ASSUME NEW g \in Coming(u), g # f PROVE FALSE
            <7>1. g \in InSeq(tx) \ {f} /\ g.id = u /\ g.n # n
              BY <3>1, <6>1 DEF Coming
            <7>2. /\ g.n \in 1..sent[u] /\ sent[u] \in Nat
                  /\ g.n < sent[u] => \A m \in g.n..sent[u] : <<u, m>> \in overlapped
              BY <1>3, <7>1, BusTypes DEF WaitingOK
            <7>3. g.n < sent[u] /\ sent[u] \in g.n..sent[u]
              BY <5>2, <7>1, <7>2
            <7> QED
              BY <5>3, <7>2, <7>3 DEF Marked
          <6> QED
            BY <6>1
        <5>6. Undisturbed(u) /\ u \in Mapped \cap Ids /\ AloneOK(u)
          BY <2>1, <4>3, <5>1 DEF BusOK
        <5> QED
          BY <1>1, <1>3, <1>6, <2>1, <4>1, <5>3, <5>4, <5>5, <5>6, PromiseKept
      <4> QED
        BY <4>2, <4>3
    <3> QED
      BY <3>2, <3>3
  <2>2. \A u : (Carried(u)' <=> Carried(u)) /\ (Undisturbed(u)' <=> Undisturbed(u))
    BY DEF Carried, Collides, Undisturbed
  <2> QED
    BY <1>5, <2>1, <2>2 DEF ResyncAfterOne
<1>9. ASSUME NEW t \in Mapped \cap Ids PROVE EndsInTurn(t)' /\ Unbroken(t)'
  <2>1. EndsInTurn(t) /\ Unbroken(t) /\ AloneOK(t)
    BY <1>6 DEF BusOK
  <2>2. CASE t = f.id
    <3>1. EndsInTurn(t)'
      BY <1>1, <1>3, <1>4, <2>1, <2>2, TurnArrives
    <3>2. Unbroken(t)'
      BY <1>1, <1>3, <1>4, <2>1, <2>2, PacketGoesOn
    <3> QED
      BY <3>1, <3>2
  <2>3. CASE t # f.id
    <3>1. mapping_buffers'[t] = mapping_buffers[t] \/ (Valid(t)' = 0 /\ ~Undisturbed(t))
      <4>1. ASSUME Restarted(t, f) PROVE ~Undisturbed(t)
        <5>1. IsWrapped(f.id) /\ t \in getMappingForCanID(f.sid) /\ WellFormed(f)
          BY <1>1, <2>3, <4>1 DEF Restarted, Genuine
        <5>2. f.sid = f.id - ts_m3_can /\ Belongs(f.sid, t)
          BY <5>1 DEF WellFormed, getMappingForCanID
        <5>3. \E p \in Packets : p.id = f.id
          BY <1>5 DEF Ids
        <5> QED
          BY <5>1, <5>2, <5>3 DEF Undisturbed
      <4>2. ASSUME NEW u \in Mapped, Accepted(u, f) \/ Completed(u, f) \/ Restarted(u, f)
            PROVE  mapping_buffers'[t] = mapping_buffers[t] \/ (Valid(t)' = 0 /\ ~Undisturbed(t))
        <5>1. CASE u = t
          <6>1. Restarted(t, f)
            BY <2>3, <4>2, <5>1 DEF Accepted, Completed
          <6> QED
            BY <4>1, <6>1 DEF Restarted
        <5>2. CASE u # t
          BY <4>2, <5>2 DEF Accepted, Completed, Restarted, OthersKept
        <5> QED
          BY <5>1, <5>2
      <4>3. PassedOn(f) => mapping_buffers' = mapping_buffers
        BY DEF PassedOn
      <4> QED
        BY <1>1, <4>2, <4>3 DEF Arrival
    <3>2. \A n : Marked(t, n) => Marked(t, n)'
      BY <1>4
    <3> QED
      BY <1>4, <1>5, <2>1, <2>3, <3>1, <3>2, ResyncElsewhere
  <2> QED
    BY <2>2, <2>3
<1> QED
  BY <1>8, <1>9 DEF ResyncInv

BusResyncInv == medium = "bus" => ResyncInv

LEMMA ResyncInit == LogInit => BusResyncInv
<1> SUFFICES ASSUME LogInit PROVE ResyncInv
  BY DEF BusResyncInv
<1>1. /\ sent = [id \in Ids |-> 0] /\ out = None /\ tx = <<>>
      /\ mapping_buffers = [t \in Mapped |-> EmptyBuffer]
  BY DEF LogInit, Init
<1>2. \A id \in Ids : sent[id] = 0 /\ Coming(id) = {} /\ ~Cutting(id)
  BY <1>1 DEF Coming, InSeq, Cutting
<1>3. \A t \in Mapped : Valid(t) = 0
  BY <1>1 DEF EmptyBuffer, Valid
<1>4. ResyncAfterOne
  BY <1>2 DEF ResyncAfterOne
<1>5. \A t \in Mapped \cap Ids : EndsInTurn(t) /\ Unbroken(t)
  BY <1>2, <1>3 DEF EndsInTurn, Unbroken, Present
<1> QED
  BY <1>4, <1>5 DEF ResyncInv

LEMMA ResyncStutters ==
  ASSUME EndsOK, ResyncInv,
         UNCHANGED <<sent, out, tx, mapping_buffers, received, unallocated, damaged, overlapped>>
  PROVE  ResyncInv'
<1>1. InSeq(tx)' = InSeq(tx)
  BY DEF InSeq
<1>2. \A id : Coming(id)' = Coming(id) /\ (Cutting(id)' <=> Cutting(id)) /\ CutOff(id)' = CutOff(id)
  BY <1>1 DEF Coming, Cutting, CutOff
<1>3. ResyncAfterOne'
  <2>1. \A u, n : Settled(u, n)' <=> Settled(u, n)
    BY DEF Settled
  <2> QED
    BY <2>1, PromiseStays DEF ResyncInv
<1>4. ASSUME NEW t \in Mapped \cap Ids PROVE EndsInTurn(t)' /\ Unbroken(t)'
  <2>1. EndsInTurn(t) /\ Unbroken(t) /\ \A n : Marked(t, n) => Marked(t, n)'
    BY DEF ResyncInv, Marked
  <2> QED
    BY <1>2, <2>1, ResyncElsewhere
<1> QED
  BY <1>3, <1>4 DEF ResyncInv

LEMMA ResyncKept ==
  ASSUME TableOK, LogTypeOK, WholeInv, BusResyncInv, [LogNext]_allVars
  PROVE  BusResyncInv'
<1>1. LogTypeOK' /\ WholeInv'
  BY LogTypeKept, WholeKept
<1>2. EndsOK /\ EndsOK' /\ CuttingOK /\ CuttingOK'
  BY <1>1 DEF WholeInv, PacketsInv, PacketsWhole, LogTypeOK
<1>3. ASSUME medium = "bus"
      PROVE  /\ ReceivedOK /\ BusOK /\ (\A u \in Mapped : BufferOK(u)) /\ ResyncInv
             /\ at = "off" /\ playing = None
  <2>1. BusInv /\ PacketsWhole
    BY DEF WholeInv, PacketsInv
  <2> QED
    BY <1>3, <2>1 DEF BusInv, PacketsWhole, EmptyFile, Reading, BusResyncInv
<1>4. CASE medium = "bus" /\ Next
  <2>1. ASSUME NEW p \in Packets, StartSend(p) PROVE ResyncInv'
    BY <1>2, <1>3, <1>4, <2>1, ResyncStarts
  <2>2. CASE SendFrame
    BY <1>2, <1>3, <1>4, <2>2, ResyncSends DEF BusResyncInv
  <2>3. CASE LoseFrame
    BY <1>2, <1>3, <1>4, <2>3, ResyncLoses DEF BusResyncInv
  <2>4. CASE Arrive
    BY <1>2, <1>3, <1>4, <2>4, ResyncArrives DEF BusResyncInv
  <2> QED
    BY <1>4, <2>1, <2>2, <2>3, <2>4 DEF Next, BusResyncInv
<1>5. CASE medium # "bus" /\ medium' = medium
  BY <1>5 DEF BusResyncInv
<1>6. ASSUME NEW p \in Packets, LogPacket(p) PROVE BusResyncInv'
  BY <1>5, <1>6 DEF LogPacket, logVars
<1>7. CASE AppendFrame \/ PowerLoss \/ StartReplay
  BY <1>5, <1>7 DEF AppendFrame, PowerLoss, StartReplay
<1>8. CASE LogThread
  <2>1. at # "off" /\ medium' = medium
    BY <1>8 DEF LogThread, TryInit, ConnectFails, Connect, Exists, Create, CreateFails,
                Write, WriteShort, WriteFails, Close
  <2> QED
    BY <1>3, <1>5, <2>1
<1>9. CASE ReadRecord \/ ReadEnd
  <2>1. Reading /\ medium' = medium
    BY <1>9 DEF ReadRecord, ReadEnd
  <2> QED
    BY <1>3, <1>5, <2>1 DEF Reading
<1>10. CASE UNCHANGED allVars
  <2>1. /\ UNCHANGED <<sent, out, tx, mapping_buffers, received, damaged, unallocated, overlapped>>
        /\ medium' = medium
    BY <1>10 DEF allVars, vars, sender, receiver, lossy, logVars
  <2> QED
    BY <1>2, <1>3, <1>5, <2>1, ResyncStutters DEF BusResyncInv
<1> QED
  BY <1>4, <1>6, <1>7, <1>8, <1>9, <1>10 DEF LogNext

\* A frame that is lost costs its packet, and of several frames also the next one, whose
\* first frame only resets the buffer of can_interface_receive.  A packet that lost nothing
\* comes out if it is of one frame; if it is of several, it follows one that lost nothing
\* and no other of its id waited in the controller with it.
THEOREM LossesCostOneMore ==
  ASSUME TableOK
  PROVE  LogSpec => []BusResyncsAfterOne
<1>1. LogTypeOK /\ WholeInv /\ BusResyncInv /\ [LogNext]_allVars => BusResyncInv'
  BY ResyncKept
<1>2. LogSpec => [](LogTypeOK /\ WholeInv)
  BY LogInvariant, WholeInvariant, PTL
<1>3. BusResyncInv => BusResyncsAfterOne
  BY DEF BusResyncInv, ResyncInv, BusResyncsAfterOne
<1> QED
  BY <1>1, <1>2, <1>3, ResyncInit, PTL DEF LogSpec

-----------------------------------------------------------------------------
(* Reading a file back *)

\* The buffers, and what came out, when m records of file r have been read: a packet that
\* the file does not have from its first frame is never begun.
Filled(r, m, t) ==
    IF m > 0 /\ r[m].id = t /\ ~LastPart(r[m]) /\ r[m].part < m THEN r[m].part + 1 ELSE 0
Complete(r, k) == LastPart(r[k]) /\ r[k].part < k
Ended(r, m, id) == {r[k].n : k \in {i \in 1..m : r[i].id = id /\ Complete(r, i)}}

Rising(n) == \A j, k \in DOMAIN n : j < k => n[j] < n[k]
CameOut(r, m, id) == InSeq(Replayed(id)) = Ended(r, m, id) /\ Rising(Replayed(id))

\* handleFullPacket with a packet whose last frame is f
Ends(f) == Done(f) /\ Leader(f) = f.n

Played(r, m) ==
    /\ \A t \in Mapped : Valid(t) = Filled(r, m, t)
    /\ unallocated = {} => \A id \in ReceivedIds : Carried(id) => CameOut(r, m, id)

ReplayInv ==
    /\ Reading => medium = "log"
    /\ medium = "log" =>
        /\ ~Reading => \A id \in ReceivedIds : received[id] = <<>>
        /\ Reading /\ record <= Len(files[playing]) + 1 => Played(files[playing], record - 1)
    /\ ReplayFaithful

\* A frame of a file, its own packet and the one before it
LEMMA FrameOf ==
  ASSUME NEW r \in Seq(Frames), Chain(r), NEW k \in 1..Len(r)
  PROVE  /\ r[k] \in Frames /\ WellFormed(r[k]) /\ r[k].part \in Nat /\ r[k].n \in Nat
         /\ k > 1 => Follows(r[k], r[k - 1])
         /\ \A j \in 1..k - 1 : Before(r[j], r[k]) /\ Behind(r[j], r[k], k - j)
<1>1. k \in DOMAIN r /\ r[k] \in Frames
  BY LenProperties, ElementOfSeq
<1> QED
  BY <1>1, FrameTypes DEF Chain

\* A frame as many places back as its part is lower.
LEMMA StepsBack ==
  ASSUME NEW k \in Int, NEW p \in Nat, NEW i \in Nat, NEW j \in Int, j = k - (p - i)
  PROVE  k - j <= p /\ p - (k - j) = i
OBVIOUS

\* A file has the packets that are complete in it, and no others, as a whole.
LEMMA CompleteIsWhole ==
  ASSUME TableOK, NEW r \in Seq(Frames), Chain(r), NEW id
  PROVE  Ended(r, Len(r), id) = Recorded(id, r)
<1> DEFINE P == Parts(id)
<1>1. P \in Nat \ {0}
  BY Sizes DEF Parts
<1> HIDE DEF P
<1>2. Len(r) \in Nat /\ DOMAIN r = 1..Len(r)
  BY LenProperties
<1>3. ASSUME NEW k \in 1..Len(r), r[k].id = id, Complete(r, k) PROVE r[k].n \in Recorded(id, r)
  <2>1. /\ r[k].part \in Nat /\ \A j \in 1..k - 1 : Behind(r[j], r[k], k - j)
    BY FrameOf
  <2>2. r[k].part + 1 = P /\ r[k].part < k
    BY <1>3 DEF Complete, LastPart, P
  <2>3. ASSUME NEW i \in 0..P - 1
        PROVE  \E j \in 1..Len(r) : r[j].id = id /\ r[j].n = r[k].n /\ r[j].part = i
    <3>1. CASE i = r[k].part
      BY <1>3, <3>1
    <3>2. CASE i # r[k].part
      <4>1. PICK p \in Nat : p = r[k].part /\ p + 1 = P /\ p < k
        BY <2>1, <2>2
      <4>2. PICK j \in 1..k - 1 : j = k - (p - i)
        BY <1>1, <3>2, <4>1
      <4>3. k - j <= p /\ p - (k - j) = i /\ j \in 1..Len(r)
        <5>1. k \in Int /\ i \in Nat /\ j \in Int /\ j \in 1..Len(r)
          BY <1>1, <1>2, <4>2
        <5>2. k - j <= p /\ p - (k - j) = i
          BY <4>1, <4>2, <5>1, StepsBack
        <5> QED
          BY <5>1, <5>2
      <4>4. Behind(r[j], r[k], k - j)
        BY <2>1
      <4> QED
        BY <1>3, <4>1, <4>3, <4>4 DEF Behind
    <3> QED
      BY <3>1, <3>2
  <2> QED
    BY <1>2, <2>3 DEF Recorded, InSeq, P
<1>4. ASSUME NEW n \in Recorded(id, r)
      PROVE  \E k \in 1..Len(r) : r[k].id = id /\ Complete(r, k) /\ r[k].n = n
  <2>1. \A i \in 0..P - 1 : \E k \in 1..Len(r) : r[k].id = id /\ r[k].n = n /\ r[k].part = i
    BY <1>2 DEF Recorded, InSeq, P
  <2>0. P - 1 \in 0..P - 1
    BY <1>1
  <2>2. PICK k \in 1..Len(r) : r[k].id = id /\ r[k].n = n /\ r[k].part = P - 1
    BY <2>0, <2>1
  <2>3. PICK j \in 1..Len(r) : r[j].id = id /\ r[j].n = n /\ r[j].part = 0
    BY <1>1, <2>1
  <2>4. LastPart(r[k])
    BY <1>1, <2>2 DEF LastPart, P
  <2>5. ASSUME ~(r[k].part < k) PROVE FALSE
    <3>1. CASE j < k
      <4>1. j \in 1..k - 1 /\ k - j <= r[k].part /\ r[k].part - (k - j) # 0
        BY <1>1, <2>2, <2>5, <3>1
      <4>2. Behind(r[j], r[k], k - j)
        BY <4>1, FrameOf
      <4> QED
        BY <2>3, <4>1, <4>2 DEF Behind
    <3>2. CASE j = k
      BY <1>2, <2>3, <2>5, <3>2
    <3>3. CASE j > k
      <4>1. k \in 1..j - 1
        BY <1>2, <3>3
      <4>2. Before(r[k], r[j]) /\ r[k].n \in Nat
        BY <4>1, FrameOf
      <4> QED
        BY <1>1, <2>2, <2>3, <4>2 DEF Before
    <3> QED
      BY <1>2, <3>1, <3>2, <3>3
  <2> QED
    BY <2>2, <2>4, <2>5 DEF Complete
<1> QED
  BY <1>3, <1>4 DEF Ended

\* The packets that were complete before the last frame of another one are older than it.
LEMMA EndsLater ==
  ASSUME NEW r \in Seq(Frames), Chain(r), NEW k \in 1..Len(r), LastPart(r[k])
  PROVE  \A n \in Ended(r, k - 1, r[k].id) : n < r[k].n
<1> SUFFICES ASSUME NEW j \in 1..k - 1, r[j].id = r[k].id, LastPart(r[j])
             PROVE  r[j].n < r[k].n
  BY DEF Ended, Complete
<1>1. Before(r[j], r[k])
  BY FrameOf
<1>2. r[j].part \in Nat /\ r[k].part \in Nat
  <2>1. j \in 1..Len(r)
    BY LenProperties
  <2> QED
    BY <2>1, FrameOf
<1>3. r[j].part = r[k].part
  <2>1. PICK p \in Nat, q \in Nat : p = r[j].part /\ q = r[k].part
    BY <1>2
  <2>2. p + 1 = q + 1
    BY <2>1 DEF LastPart
  <2> QED
    BY <2>1, <2>2
<1> QED
  BY <1>1, <1>2, <1>3 DEF Before

\* One record more: the packet it completes, or nothing
LEMMA EndsOneMore ==
  ASSUME NEW r, NEW k \in Nat \ {0}, NEW id
  PROVE  Ended(r, k, id) = IF r[k].id = id /\ Complete(r, k)
                           THEN Ended(r, k - 1, id) \cup {r[k].n} ELSE Ended(r, k - 1, id)
<1>1. 1..k = (1..k - 1) \cup {k}
  OBVIOUS
<1> QED
  BY <1>1 DEF Ended
\* No buffer but that of the record's own mapping is in use, and that one only if the
\* record continues what is in it.
LEMMA OthersEmpty ==
  ASSUME TableOK, NEW r \in Seq(Frames), Chain(r), NEW m \in 0..Len(r) - 1, NEW t \in Mapped,
         t # r[m + 1].id
  PROVE  Filled(r, m, t) = 0 /\ Filled(r, m + 1, t) = 0
<1>1. m \in Nat /\ m + 1 \in 1..Len(r) /\ m + 1 - 1 = m
  BY LenProperties
<1>2. Filled(r, m + 1, t) = 0
  BY DEF Filled
<1>3. ASSUME m > 0, r[m].id = t PROVE LastPart(r[m])
  <2>1. Follows(r[m + 1], r[m])
    <3>1. m + 1 > 1
      BY <1>1, <1>3
    <3> QED
      BY <1>1, <3>1, FrameOf
  <2> QED
    BY <1>3, <2>1 DEF Follows
<1> QED
  BY <1>2, <1>3 DEF Filled

\* The buffer of the record's mapping takes it if the file has the packet from its first
\* frame.
LEMMA TakenFromFirst ==
  ASSUME TableOK, NEW r \in Seq(Frames), Chain(r), NEW m \in 0..Len(r) - 1,
         ~IsWrapped(r[m + 1].id)
  PROVE  Filled(r, m, r[m + 1].id) = r[m + 1].part <=> r[m + 1].part < m + 1
<1>1. PICK f : f = r[m + 1]
  OBVIOUS
<1>2. m \in Nat /\ m + 1 \in 1..Len(r) /\ m + 1 - 1 = m
  BY LenProperties
<1>3. /\ f \in Frames /\ WellFormed(f) /\ f.part \in Nat
      /\ m > 0 => Follows(f, r[m])
  <2>1. m > 0 => m + 1 > 1
    BY <1>2
  <2> QED
    BY <1>1, <1>2, <2>1, FrameOf
<1>4. f.id \in Mapped /\ f.part < size_in_packets(f.id) /\ Parts(f.id) = size_in_packets(f.id)
  BY <1>1, <1>3, MappedFrame DEF Parts
<1>5. CASE m = 0
  BY <1>1, <1>3, <1>5 DEF Filled
<1>6. CASE m > 0 /\ f.part = 0
  <2>1. LastPart(r[m])
    BY <1>3, <1>6 DEF Follows
  <2> QED
    BY <1>1, <1>2, <1>6, <2>1 DEF Filled
<1>7. CASE m > 0 /\ f.part # 0
  <2>1. PICK g : g = r[m] /\ g.id = f.id /\ f.part = g.part + 1 /\ g.part \in Nat
    <3>1. m \in 1..Len(r)
      BY <1>2, <1>7, LenProperties
    <3> QED
      BY <1>3, <1>7, <3>1, FrameOf DEF Follows
  <2>2. ~LastPart(g)
    <3>1. f.part # Parts(f.id)
      BY <1>3, <1>4, Sizes
    <3> QED
      BY <2>1, <3>1 DEF LastPart
  <2>3. Filled(r, m, f.id) = IF g.part < m THEN f.part ELSE 0
    BY <1>7, <2>1, <2>2 DEF Filled
  <2>4. g.part < m <=> f.part < m + 1
    BY <1>2, <2>1
  <2> QED
    BY <1>1, <1>7, <2>3, <2>4
<1> QED
  BY <1>2, <1>5, <1>6, <1>7

\* A wrapped frame that is carried is handed on.
LEMMA CarriedWrapped ==
  ASSUME TableOK, NEW f \in Frames, WellFormed(f), IsWrapped(f.id), Carried(f.id), PassedOn(f)
  PROVE  Done(f)
<1>1. f.sid = f.id - ts_m3_can /\ WrappedLen(f.id, f.len)
  BY DEF WellFormed
<1>2. getMappingForCanID(f.sid) = {}
  BY <1>1 DEF Carried, Collides
<1>3. f.len # 0
  <2>1. \A p \in Packets : p.id = f.id => p.length # 0
    BY PacketTypes DEF Carried
  <2> QED
    BY <1>1, <2>1 DEF WrappedLen
<1> QED
  BY <1>2, <1>3 DEF PassedOn

\* Without losses what a packet is put together from is one packet.
LEMMA HeadIsOwn ==
  ASSUME damaged = {}, overlapped = {}, NEW f, f.part \in Nat, Continues(f),
         f.part = 0 \/ (~IsWrapped(f.id) /\ Valid(f.id) = f.part)
  PROVE  Leader(f) = f.n
<1>1. ASSUME f.part # 0 PROVE Number(f.id, 0) = f.n
  <2>1. 0 \in 0..f.part - 1
    BY <1>1
  <2>2. Together(f.id, Number(f.id, 0), f.n)
    BY <1>1, <2>1 DEF Continues
  <2> QED
    BY <2>2 DEF Together, Marked
<1> QED
  BY <1>1 DEF Leader

\* A record that is read: it completes its packet, or nothing comes out.
LEMMA RecordRead ==
  ASSUME TableOK, EndsOK, \A u \in Mapped : BufferOK(u), damaged = {}, overlapped = {},
         UNCHANGED <<sent, damaged, overlapped>>,
         NEW r \in Seq(Frames), Chain(r), NEW m \in 0..Len(r) - 1,
         \A t \in Mapped : Valid(t) = Filled(r, m, t),
         NEW f, f = r[m + 1], Genuine(f), Continues(f), can_interface_receive(f)
  PROVE  /\ \A t \in Mapped : Valid(t)' = Filled(r, m + 1, t)
         /\ received' = received \/ Ends(f)
         /\ ~Complete(r, m + 1) => received' = received
         /\ Complete(r, m + 1) /\ Carried(f.id) => Ends(f)
<1>1. m \in Nat /\ m + 1 \in 1..Len(r)
  BY LenProperties
<1>2. f \in Frames /\ WellFormed(f) /\ f.part \in Nat /\ f.id \in Ids
  BY <1>1, FrameOf, FrameTypes
<1>3. \/ \E t \in Mapped : Accepted(t, f) \/ Completed(t, f) \/ Restarted(t, f)
      \/ PassedOn(f)
  BY <1>2, Outcomes
<1>4. \A t \in Mapped : t # f.id => Filled(r, m, t) = 0 /\ Filled(r, m + 1, t) = 0
  BY OthersEmpty
<1>5. CASE ~IsWrapped(f.id)
  <2>1. PICK t \in Mapped : Accepted(t, f) \/ Completed(t, f) \/ Restarted(t, f)
    BY <1>3, <1>5 DEF PassedOn
  <2>2. t = f.id
    BY <1>5, <2>1 DEF Accepted, Completed, Restarted
  <2>3. Valid(t) = f.part <=> f.part < m + 1
    BY <1>5, <2>2, TakenFromFirst
  <2>4. LastPart(f) <=> f.part + 1 = size_in_packets(t)
    BY <2>2 DEF LastPart, Parts
  <2>5. Filled(r, m + 1, t) = IF ~LastPart(f) /\ f.part < m + 1 THEN f.part + 1 ELSE 0
    BY <1>1, <2>2 DEF Filled
  <2>6. Complete(r, m + 1) <=> LastPart(f) /\ f.part < m + 1
    BY DEF Complete
  <2>7. \A u \in Mapped : u # t => Valid(u)' = Filled(r, m + 1, u)
    BY <1>4, <2>1, <2>2 DEF Accepted, Completed, Restarted, OthersKept, Valid
  <2>8. CASE Accepted(t, f)
    <3>1. /\ Valid(t)' = f.part + 1 /\ received' = received
          /\ f.part < m + 1 /\ f.part + 1 < size_in_packets(t)
      BY <2>3, <2>8 DEF Accepted
    <3>2. ~LastPart(f)
      BY <1>2, <2>4, <3>1, Sizes
    <3> QED
      BY <2>2, <2>5, <2>6, <2>7, <3>1, <3>2
  <2>9. CASE Completed(t, f)
    <3>1. /\ Valid(t)' = 0 /\ Ends(f)
          /\ f.part < m + 1 /\ LastPart(f)
      BY <1>2, <1>5, <2>2, <2>3, <2>4, <2>9, HeadIsOwn DEF Completed, Ends
    <3> QED
      BY <2>2, <2>5, <2>6, <2>7, <3>1
  <2>10. CASE Restarted(t, f)
    <3>1. /\ Valid(t)' = 0 /\ received' = received
          /\ ~(f.part < m + 1)
      BY <1>5, <2>3, <2>10 DEF Restarted
    <3> QED
      BY <2>2, <2>5, <2>6, <2>7, <3>1
  <2> QED
    BY <2>1, <2>8, <2>9, <2>10
<1>6. CASE IsWrapped(f.id)
  <2>1. f.id \notin Mapped /\ f.part = 0
    BY <1>2, <1>6, WrappedFrame
  <2>2. Complete(r, m + 1)
    BY <1>1, <2>1 DEF Complete, LastPart, Parts
  <2>3. Leader(f) = f.n
    BY <2>1, HeadIsOwn
  <2>4. PassedOn(f) \/ (received' = received /\ ~PassedOn(f) /\ ~Carried(f.id))
    <3>1. ASSUME NEW t \in Mapped, Restarted(t, f) PROVE received' = received /\ ~Carried(f.id)
      <4>1. t \in getMappingForCanID(f.sid) /\ f.sid = f.id - ts_m3_can
        BY <1>2, <1>6, <3>1 DEF Restarted, WellFormed
      <4> QED
        BY <1>6, <3>1, <4>1 DEF Restarted, Carried, Collides
    <3> QED
      BY <1>3, <2>1, <3>1 DEF Accepted, Completed
  <2>5. received' = received \/ Ends(f)
    BY <2>3, <2>4 DEF PassedOn, Ends
  <2>6. \A t \in Mapped : Valid(t)' = 0
    <3>1. \A t \in Mapped : Valid(t) = 0
      BY <1>4, <2>1
    <3>2. PassedOn(f) => \A t \in Mapped : Valid(t)' = 0
      BY <3>1 DEF PassedOn, Valid
    <3>3. ASSUME NEW t \in Mapped, Restarted(t, f), NEW u \in Mapped PROVE Valid(u)' = 0
      BY <3>1, <3>3 DEF Restarted, OthersKept, Valid
    <3> QED
      BY <1>3, <2>1, <3>2, <3>3 DEF Accepted, Completed
  <2>7. Carried(f.id) => Ends(f)
    BY <1>2, <1>6, <2>3, <2>4, CarriedWrapped DEF Ends
  <2> QED
    BY <1>4, <2>1, <2>2, <2>5, <2>6, <2>7
<1> QED
  BY <1>5, <1>6

\* The last record again: only a packet of one frame comes out once more.
LEMMA LastRecordAgain ==
  ASSUME TableOK, EndsOK, \A u \in Mapped : BufferOK(u), damaged = {}, overlapped = {},
         UNCHANGED <<sent, damaged, overlapped>>,
         NEW r \in Seq(Frames), Chain(r), r # <<>>,
         \A t \in Mapped : Valid(t) = Filled(r, Len(r), t),
         NEW f, f = r[Len(r)], Genuine(f), Continues(f), can_interface_receive(f)
  PROVE  /\ received' = received \/ Ends(f)
         /\ Parts(f.id) # 1 => received' = received
         /\ Parts(f.id) = 1 /\ Carried(f.id) => Ends(f)
<1>1. PICK m \in Nat \ {0} : m = Len(r)
  BY LenProperties, EmptySeq
<1>2. f \in Frames /\ WellFormed(f) /\ f.part \in Nat /\ f.id \in Ids
  BY <1>1, FrameOf, FrameTypes
<1>3. \/ \E t \in Mapped : Accepted(t, f) \/ Completed(t, f) \/ Restarted(t, f)
      \/ PassedOn(f)
  BY <1>2, Outcomes
<1>4. CASE ~IsWrapped(f.id)
  <2>1. PICK t \in Mapped : Accepted(t, f) \/ Completed(t, f) \/ Restarted(t, f)
    BY <1>3, <1>4 DEF PassedOn
  <2>2. t = f.id /\ Parts(f.id) = size_in_packets(t)
    BY <1>4, <2>1 DEF Accepted, Completed, Restarted, Parts
  <2>3. PICK v : v = Valid(t)
                 /\ v = IF ~LastPart(f) /\ f.part < m THEN f.part + 1 ELSE 0
    BY <1>1, <2>2 DEF Filled
  <2>4. PICK size \in Nat \ {0} : /\ size = size_in_packets(t) /\ f.part < size
                                  /\ LastPart(f) <=> f.part + 1 = size
    BY <1>2, <1>4, <2>2, MappedFrame, Sizes DEF LastPart
  <2>5. v = f.part <=> size = 1
    BY <1>1, <1>2, <2>3, <2>4
  <2>6. CASE size = 1
    <3>1. Completed(t, f) /\ f.part = 0
      BY <2>1, <2>2, <2>3, <2>4, <2>5, <2>6, <1>2, <1>4 DEF Accepted, Restarted
    <3>2. Ends(f)
      BY <3>1, HeadIsOwn DEF Completed, Ends
    <3>3. Parts(f.id) = 1
      BY <2>2, <2>4, <2>6
    <3> QED
      BY <3>2, <3>3
  <2>7. CASE size # 1
    BY <2>1, <2>2, <2>3, <2>4, <2>5, <2>7, <1>4 DEF Accepted, Completed, Restarted
  <2> QED
    BY <2>6, <2>7
<1>5. CASE IsWrapped(f.id)
  <2>1. f.id \notin Mapped
    BY <1>2, <1>5, WrappedFrame
  <2>2. f.part = 0 /\ Leader(f) = f.n
    BY <1>2, <1>5, HeadIsOwn, WrappedFrame
  <2>3. PassedOn(f) \/ (received' = received /\ ~Carried(f.id))
    <3>1. ASSUME NEW t \in Mapped, Restarted(t, f) PROVE received' = received /\ ~Carried(f.id)
      <4>1. t \in getMappingForCanID(f.sid) /\ f.sid = f.id - ts_m3_can
        BY <1>2, <1>5, <3>1 DEF Restarted, WellFormed
      <4> QED
        BY <1>5, <3>1, <4>1 DEF Restarted, Carried, Collides
    <3> QED
      BY <1>3, <2>1, <3>1 DEF Accepted, Completed
  <2>4. received' = received \/ Ends(f)
    BY <2>2, <2>3 DEF PassedOn, Ends
  <2>5. Carried(f.id) => Ends(f)
    BY <1>2, <1>5, <2>2, <2>3, CarriedWrapped DEF Ends
  <2> QED
    BY <2>1, <2>4, <2>5 DEF Parts
<1> QED
  BY <1>4, <1>5
\* A packet that comes out is the last of its id.
LEMMA ReplayedOneMore ==
  ASSUME ReceivedOK, NEW f, f.id \in ReceivedIds, Ends(f), unallocated' = {}
  PROVE  /\ \A u \in ReceivedIds : u # f.id => received'[u] = received[u]
         /\ Len(Replayed(f.id)) \in Nat /\ DOMAIN Replayed(f.id) = 1..Len(Replayed(f.id))
         /\ DOMAIN Replayed(f.id)' = 1..Len(Replayed(f.id)) + 1
         /\ Len(Replayed(f.id)') = Len(Replayed(f.id)) + 1
         /\ \A j \in 1..Len(Replayed(f.id)) : Replayed(f.id)'[j] = Replayed(f.id)[j]
         /\ Replayed(f.id)'[Len(Replayed(f.id)) + 1] = f.n
<1>1. Handed(f) /\ Leader(f) = f.n
  BY DEF Ends, Done
<1>2. PICK id : id = f.id
  OBVIOUS
<1>3. PICK k \in Nat : k = Len(received[id])
  BY <1>1, <1>2, OneMore
<1>4. /\ \A u \in ReceivedIds : u # id => received'[u] = received[u]
      /\ DOMAIN received[id] = 1..k /\ DOMAIN received'[id] = 1..k + 1
      /\ \A j \in 1..k : received'[id][j] = received[id][j]
      /\ received'[id][k + 1][1].n = f.n
  BY <1>1, <1>2, <1>3, OneMore DEF Packed
<1>5. PICK q : q = [j \in 1..k |-> received[id][j][1].n]
  OBVIOUS
<1>6. PICK p : p = [j \in 1..k + 1 |-> received'[id][j][1].n]
  OBVIOUS
<1>7. Replayed(f.id) = q /\ Replayed(f.id)' = p
  BY <1>2, <1>4, <1>5, <1>6 DEF Replayed
<1>8. /\ Len(q) = k /\ DOMAIN q = 1..k /\ Len(p) = k + 1 /\ DOMAIN p = 1..k + 1
  BY <1>5, <1>6
<1>9. \A j \in 1..k : p[j] = q[j]
  <2>1. \A j \in 1..k : j \in 1..k + 1
    OBVIOUS
  <2> QED
    BY <1>4, <1>5, <1>6, <2>1
<1>10. p[k + 1] = f.n
  BY <1>4, <1>6
<1> QED
  BY <1>2, <1>3, <1>4, <1>7, <1>8, <1>9, <1>10

\* What came out before is what is there without the last packet.
LEMMA RisesByOne ==
  ASSUME NEW q, NEW k \in Nat, DOMAIN q = 1..k, NEW p, DOMAIN p = 1..k + 1, NEW n,
         \A j \in 1..k : p[j] = q[j], p[k + 1] = n
  PROVE  /\ InSeq(p) = InSeq(q) \cup {n}
         /\ Rising(q) /\ (\A i \in InSeq(q) : i < n) => Rising(p)
<1>1. 1..k + 1 = (1..k) \cup {k + 1}
  OBVIOUS
<1>2. InSeq(p) = InSeq(q) \cup {n}
  BY <1>1 DEF InSeq
<1>3. ASSUME Rising(q), \A i \in InSeq(q) : i < n, NEW i \in 1..k + 1, NEW j \in 1..k + 1, i < j
      PROVE  p[i] < p[j]
  <2>1. i \in 1..k
    BY <1>3
  <2>2. CASE j \in 1..k
    BY <1>3, <2>1, <2>2 DEF Rising
  <2>3. CASE j = k + 1
    BY <1>3, <2>1, <2>3 DEF InSeq
  <2> QED
    BY <1>1, <2>2, <2>3
<1> QED
  BY <1>2, <1>3 DEF Rising

\* A record more of the file has been read.
LEMMA PlaysOn ==
  ASSUME TableOK, EndsOK, ReceivedOK, \A u \in Mapped : BufferOK(u),
         damaged = {}, overlapped = {}, UNCHANGED <<sent, damaged, overlapped>>,
         NEW r \in Seq(Frames), Chain(r), NEW m \in 0..Len(r) - 1, Played(r, m),
         NEW f, f = r[m + 1], Genuine(f), Continues(f), can_interface_receive(f),
         unallocated \subseteq unallocated'
  PROVE  Played(r, m + 1)'
<1>1. m \in Nat /\ m + 1 \in 1..Len(r) /\ m + 1 - 1 = m
  BY LenProperties
<1>2. f \in Frames /\ f.id \in ReceivedIds
  BY <1>1, FrameOf, FrameTypes, OwnIds
<1>3. /\ \A t \in Mapped : Valid(t)' = Filled(r, m + 1, t)
      /\ received' = received \/ Ends(f)
      /\ ~Complete(r, m + 1) => received' = received
      /\ Complete(r, m + 1) /\ Carried(f.id) => Ends(f)
  BY RecordRead DEF Played
<1>4. ASSUME unallocated' = {}, NEW id \in ReceivedIds, Carried(id)
      PROVE  CameOut(r, m + 1, id)'
  <2>1. InSeq(Replayed(id)) = Ended(r, m, id) /\ Rising(Replayed(id))
    BY <1>4 DEF Played, CameOut
  <2>2. CASE f.id = id /\ Complete(r, m + 1)
    <3>1. Ends(f) /\ f.id = id
      BY <1>3, <1>4, <2>2
    <3>2. PICK q, p : q = Replayed(id) /\ p = Replayed(id)'
      OBVIOUS
    <3>3. PICK k \in Nat : /\ k = Len(q) /\ DOMAIN q = 1..k /\ DOMAIN p = 1..k + 1
                           /\ \A j \in 1..k : p[j] = q[j]
                           /\ p[k + 1] = f.n
      BY <1>2, <1>4, <3>1, <3>2, ReplayedOneMore
    <3>4. \A i \in InSeq(q) : i < f.n
      BY <1>1, <2>1, <2>2, <3>2, EndsLater DEF Complete
    <3>5. InSeq(p) = Ended(r, m, id) \cup {f.n} /\ Rising(p)
      <4>1. InSeq(q) = Ended(r, m, id) /\ Rising(q)
        BY <2>1, <3>2
      <4>2. InSeq(p) = InSeq(q) \cup {f.n} /\ Rising(p)
        BY <3>3, <3>4, <4>1, RisesByOne
      <4> QED
        BY <4>1, <4>2
    <3>6. Ended(r, m + 1, id) = Ended(r, m, id) \cup {f.n}
      BY <1>1, <2>2, EndsOneMore
    <3> QED
      BY <3>2, <3>5, <3>6 DEF CameOut
  <2>3. CASE ~(f.id = id /\ Complete(r, m + 1))
    <3>1. received'[id] = received[id]
      BY <1>2, <1>3, <1>4, <2>3, ReplayedOneMore
    <3>2. Replayed(id)' = Replayed(id)
      BY <3>1 DEF Replayed
    <3>3. Ended(r, m + 1, id) = Ended(r, m, id)
      BY <1>1, <2>3, EndsOneMore
    <3> QED
      BY <2>1, <3>2, <3>3 DEF CameOut
  <2> QED
    BY <2>2, <2>3
<1> QED
  BY <1>3, <1>4 DEF Played

\* The end of the file has been read.
LEMMA PlayedToEnd ==
  ASSUME TableOK, EndsOK, ReceivedOK, \A u \in Mapped : BufferOK(u),
         damaged = {}, overlapped = {}, UNCHANGED <<sent, damaged, overlapped>>,
         NEW r \in Seq(Frames), Chain(r), r # <<>>, Played(r, Len(r)),
         NEW f, f = r[Len(r)], Genuine(f), Continues(f), can_interface_receive(f),
         unallocated \subseteq unallocated', unallocated' = {},
         NEW id \in ReceivedIds, Carried(id)
  PROVE  CameOutOf(r, id)'
<1> SUFFICES ASSUME NEW n, n = Replayed(id)',
                    NEW repeated, repeated = (f.id = id /\ Parts(id) = 1),
                    NEW first, first = 1..Len(n) - (IF repeated THEN 1 ELSE 0)
             PROVE  /\ {n[j] : j \in first} = Recorded(id, r)
                    /\ \A j, k \in first : j < k => n[j] < n[k]
                    /\ repeated => n # <<>> /\ n[Len(n)] = f.n
  BY DEF CameOutOf
<1>1. InSeq(Replayed(id)) = Recorded(id, r) /\ Rising(Replayed(id))
  BY CompleteIsWhole DEF Played, CameOut
<1>2. /\ received' = received \/ Ends(f)
      /\ Parts(f.id) # 1 => received' = received
      /\ Parts(f.id) = 1 /\ Carried(f.id) => Ends(f)
  BY LastRecordAgain DEF Played
<1>3. f.id \in ReceivedIds
  <2>1. Len(r) \in 1..Len(r)
    BY LenProperties, EmptySeq
  <2> QED
    BY <2>1, FrameOf, FrameTypes, OwnIds
<1>4. PICK q : q = Replayed(id)
  OBVIOUS
<1>5. CASE repeated
  <2>1. Ends(f) /\ f.id = id
    BY <1>2, <1>5
  <2>2. PICK k \in Nat : /\ k = Len(q) /\ DOMAIN q = 1..k /\ Len(n) = k + 1
                         /\ DOMAIN n = 1..k + 1
                         /\ \A j \in 1..k : n[j] = q[j]
                         /\ n[k + 1] = f.n
    BY <1>3, <1>4, <2>1, ReplayedOneMore
  <2>3. first = 1..k /\ n # <<>>
    BY <1>5, <2>2
  <2>4. {n[j] : j \in 1..k} = {q[j] : j \in 1..k}
    BY <2>2
  <2>5. {n[j] : j \in 1..k} = Recorded(id, r)
    BY <1>1, <1>4, <2>2, <2>4 DEF InSeq
  <2>6. \A i, j \in 1..k : i < j => n[i] < n[j]
    <3>1. \A i, j \in 1..k : i < j => q[i] < q[j]
      BY <1>1, <1>4, <2>2 DEF Rising
    <3> QED
      BY <2>2, <3>1
  <2> QED
    BY <2>2, <2>3, <2>5, <2>6
<1>6. CASE ~repeated
  <2>1. received'[id] = received[id]
    BY <1>2, <1>3, <1>6, ReplayedOneMore
  <2>2. n = q
    BY <1>4, <2>1 DEF Replayed
  <2>3. DOMAIN q = 1..Len(q) /\ Len(q) \in Nat
    <3>1. received[id] \in Seq(Seq(Parted \cup {None}))
      BY DEF ReceivedOK
    <3>2. DOMAIN received[id] = 1..Len(received[id]) /\ Len(received[id]) \in Nat
      BY <3>1, LenProperties
    <3>3. PICK k \in Nat : q = [j \in 1..k |-> received[id][j][1].n]
      BY <1>4, <3>2 DEF Replayed
    <3> QED
      BY <3>3
  <2>4. first = 1..Len(q)
    BY <1>6, <2>2, <2>3
  <2> QED
    BY <1>1, <1>4, <1>6, <2>2, <2>3, <2>4 DEF InSeq, Rising
<1> QED
  BY <1>5, <1>6
\* As long as no file is played, nothing comes out of one.
LEMMA ReplayElsewhere ==
  ASSUME ReplayInv, ~Reading, UNCHANGED <<medium, playing>>, medium = "log" => received' = received
  PROVE  ReplayInv'
BY DEF ReplayInv, Reading, ReplayFaithful

LEMMA ReplayInit == LogInit => ReplayInv
BY DEF LogInit, Init, ReplayInv, Reading, ReplayFaithful

LEMMA ReplayStarts ==
  ASSUME LogTypeOK, UnreadOK, ReplayInv, StartReplay
  PROVE  ReplayInv'
<1>1. /\ medium = "log" /\ ~Reading /\ record' = 1 /\ playing' \in DOMAIN files
      /\ UNCHANGED <<medium, received, files, mapping_buffers, unallocated>>
  BY DEF StartReplay, Reading, vars, receiver, card
<1>2. PICK r : r = files'[playing']
  OBVIOUS
<1>3. r \in Seq(Frames) /\ Len(r) \in Nat
  <2>1. files \in Seq(Seq(Frames))
    BY DEF LogTypeOK, CardOK
  <2> QED
    BY <1>1, <1>2, <2>1, ElementOfSeq, LenProperties
<1>4. \A t \in Mapped : Valid(t)' = Filled(r, 0, t)
  BY <1>1 DEF UnreadOK, Filled, Valid
<1>5. ASSUME NEW id \in ReceivedIds PROVE CameOut(r, 0, id)'
  <2>1. received'[id] = <<>>
    BY <1>1 DEF ReplayInv
  <2>2. DOMAIN Replayed(id)' = {}
    BY <2>1 DEF Replayed
  <2>3. Ended(r, 0, id) = {}
    BY DEF Ended
  <2> QED
    BY <2>2, <2>3 DEF CameOut, InSeq, Rising
<1>6. Played(r, 0)'
  BY <1>4, <1>5 DEF Played
<1>7. ReplayFaithful'
  BY <1>1, <1>2, <1>3 DEF ReplayFaithful
<1>8. Played(files[playing], record - 1)'
  BY <1>1, <1>2, <1>6 DEF Played, CameOut, Replayed
<1>9. \A id \in ReceivedIds : received'[id] = <<>>
  BY <1>1 DEF ReplayInv
<1> QED
  BY <1>1, <1>7, <1>8, <1>9 DEF ReplayInv

\* A record is handed to can_interface_receive, or the last one once more.
LEMMA ReplayReads ==
  ASSUME TableOK, LogTypeOK, WholeInv, ReplayInv, ReadRecord \/ ReadEnd, medium = "log"
  PROVE  ReplayInv'
<1>1. /\ ~EmptyFile => ReceivedOK /\ Assembled /\ \A u \in Mapped : BufferOK(u)
      /\ EndsOK /\ EndsOK' /\ CardOK /\ FilesOK /\ SentOK /\ ReadOK /\ CuttingOK
      /\ damaged = {} /\ overlapped = {}
  BY LogTypeKept DEF WholeInv, PacketsInv, PacketsWhole, CardInv, LogTypeOK, LogNext
<1>2. /\ Reading /\ UNCHANGED <<medium, playing, files>> /\ record' = record + 1
      /\ Reading' /\ record \in Nat \ {0} /\ UNCHANGED <<sent, damaged, overlapped>>
  BY <1>1 DEF ReadRecord, ReadEnd, card, Reading, CardOK, sender, lossy
<1>3. PICK r, m : r = files[playing] /\ m = record - 1
  OBVIOUS
<1>4. r \in Seq(Frames) /\ Chain(r) /\ Len(r) \in Nat /\ m \in Nat
  <2>1. playing \in DOMAIN files /\ files \in Seq(Seq(Frames))
    BY <1>1, <1>2 DEF CardOK
  <2>2. r \in Seq(Frames) /\ Chain(r)
    BY <1>1, <1>3, <2>1, ElementOfSeq, LenProperties DEF FilesOK
  <2> QED
    BY <1>2, <1>3, <2>2, LenProperties
<1> DEFINE Read(f) == /\ Genuine(f) /\ Continues(f) /\ can_interface_receive(f)
                      /\ ReadRecord => f = files[playing][record]
                      /\ ReadEnd => record # 1 /\ f = files[playing][record - 1]
<1>5. CASE EmptyFile
  <2>1. r = <<>> /\ Len(r) = 0
    BY <1>3, <1>5 DEF EmptyFile
  <2>2. files'[playing'] = <<>> /\ Len(files'[playing']) = 0 /\ record' > 1
    BY <1>2, <1>3, <2>1
  <2>3. ReplayFaithful'
    BY <2>2 DEF ReplayFaithful
  <2>4. ~(record' <= Len(files'[playing']) + 1)
    BY <1>2, <2>2
  <2> QED
    BY <1>2, <2>3, <2>4 DEF ReplayInv
<1>6. ASSUME ~EmptyFile
      PROVE  /\ ReceivedOK /\ Assembled /\ \A u \in Mapped : BufferOK(u)
             /\ \E f \in Frames : Read(f) /\ unallocated \subseteq unallocated'
  <2>1. ReceivedOK /\ Assembled /\ \A u \in Mapped : BufferOK(u)
    BY <1>1, <1>6
  <2>2. \E f \in Frames : Read(f)
    BY <1>1, <1>6, <2>1, ReadsInPlace
  <2>3. \A f : Read(f) => unallocated \subseteq unallocated'
    BY DEF can_interface_receive, handleUnrecognisedPacket, OutOfSequence, RejectFrame,
           AcceptFrame, handleFullPacket, receiver
  <2> QED
    BY <2>1, <2>2, <2>3
<1> SUFFICES ASSUME ~EmptyFile PROVE ReplayInv'
  BY <1>5
<1>9. PICK f \in Frames : Read(f) /\ unallocated \subseteq unallocated'
  BY <1>6
<1>10. ReceivedOK /\ Assembled /\ \A u \in Mapped : BufferOK(u)
  BY <1>6
<1>7. CASE ReadRecord
  <2>1. record <= Len(r) /\ f = r[m + 1] /\ m \in 0..Len(r) - 1 /\ m + 1 = record
    BY <1>2, <1>3, <1>4, <1>7, <1>9 DEF ReadRecord
  <2>2. Played(r, m)
    BY <1>2, <1>3, <1>4, <2>1 DEF ReplayInv
  <2>3. Played(r, m + 1)'
    BY <1>1, <1>2, <1>4, <1>9, <1>10, <2>1, <2>2, PlaysOn
  <2>4. Played(files[playing], record - 1)'
    <3>1. files'[playing'] = r /\ record' - 1 = m + 1
      BY <1>2, <1>3
    <3> QED
      BY <2>3, <3>1 DEF Played, CameOut, Replayed
  <2>5. ReplayFaithful'
    <3>1. files'[playing'] = r /\ record' # Len(r) + 2
      BY <1>2, <1>3, <1>4, <2>1
    <3> QED
      BY <3>1 DEF ReplayFaithful
  <2> QED
    BY <1>2, <2>4, <2>5 DEF ReplayInv
<1>8. CASE ReadEnd
  <2>1. record = Len(r) + 1 /\ m = Len(r) /\ (r # <<>> => f = r[Len(r)])
    <3>1. record = Len(r) + 1 /\ m = Len(r)
      BY <1>2, <1>3, <1>4, <1>8 DEF ReadEnd
    <3>2. r # <<>> => record # 1
      BY <1>4, <3>1, EmptySeq
    <3> QED
      BY <1>3, <1>8, <1>9, <3>1, <3>2
  <2>2. Played(r, Len(r))
    BY <1>2, <1>3, <1>4, <2>1 DEF ReplayInv
  <2>3. ~(record' <= Len(files'[playing']) + 1)
    BY <1>2, <1>3, <1>4, <2>1
  <2>4. ReplayFaithful'
    <3>1. DOMAIN received' = ReceivedIds
      <4>1. ReceivedOK'
        BY <1>1, <1>2, <1>9, <1>10, PacketsKept
      <4> QED
        BY <4>1 DEF ReceivedOK
    <3>2. ASSUME unallocated' = {}, r # <<>>, NEW id \in ReceivedIds, Carried(id)
          PROVE  CameOutOf(r, id)'
      <4>1. /\ EndsOK /\ ReceivedOK /\ (\A u \in Mapped : BufferOK(u))
            /\ damaged = {} /\ overlapped = {} /\ UNCHANGED <<sent, damaged, overlapped>>
        BY <1>1, <1>2, <1>10
      <4>2. /\ f = r[Len(r)] /\ Genuine(f) /\ Continues(f) /\ can_interface_receive(f)
            /\ unallocated \subseteq unallocated'
        BY <1>9, <2>1, <3>2
      <4>3. r \in Seq(Frames) /\ Chain(r)
        BY <1>4
      <4> QED
        BY <2>2, <3>2, <4>1, <4>2, <4>3, PlayedToEnd
    <3>3. files'[playing'] = r
      BY <1>2, <1>3
    <3>4. ASSUME NEW id \in {i \in DOMAIN received' : Carried(i)}, unallocated' = {}, r # <<>>
          PROVE  CameOutOf(files[playing], id)'
      BY <3>1, <3>2, <3>3, <3>4 DEF CameOutOf, Replayed
    <3> QED
      BY <3>3, <3>4 DEF ReplayFaithful
  <2> QED
    BY <1>2, <2>3, <2>4 DEF ReplayInv
<1> QED
  BY <1>7, <1>8

LEMMA ReplayKept ==
  ASSUME TableOK, LogTypeOK, WholeInv, ReplayInv, [LogNext]_allVars
  PROVE  ReplayInv'
<1>1. ASSUME Reading PROVE medium = "log"
  BY <1>1 DEF ReplayInv
<1>2. ASSUME at # "off", UNCHANGED <<medium, received, playing>> PROVE ReplayInv'
  BY <1>2, ReplayElsewhere DEF LogTypeOK, CardOK, Reading
<1>3. CASE medium = "bus" /\ Next /\ UNCHANGED logVars
  BY <1>1, <1>3, ReplayElsewhere DEF logVars, replay
<1>4. ASSUME NEW p \in Packets, LogPacket(p) PROVE ReplayInv'
  BY <1>2, <1>4 DEF LogPacket, logVars, replay, StartSend, receiver
<1>5. CASE AppendFrame
  BY <1>2, <1>5 DEF AppendFrame, receiver, replay
<1>6. CASE LogThread
  BY <1>2, <1>6 DEF LogThread, TryInit, ConnectFails, Connect, Exists, Create, CreateFails,
                    Write, WriteShort, WriteFails, Close, replay, vars, receiver
<1>7. CASE PowerLoss
  BY <1>2, <1>7 DEF PowerLoss, receiver, replay
<1>8. CASE StartReplay
  BY <1>8, ReplayStarts DEF StartReplay, WholeInv, PacketsInv, CardInv
<1>9. CASE ReadRecord \/ ReadEnd
  <2>1. Reading
    BY <1>9 DEF ReadRecord, ReadEnd
  <2> QED
    BY <1>1, <1>9, <2>1, ReplayReads
<1>10. CASE UNCHANGED allVars
  <2>1. UNCHANGED <<medium, received, unallocated, mapping_buffers, files, playing, record>>
    BY <1>10 DEF allVars, vars, receiver, logVars, card, replay
  <2>2. (Reading' <=> Reading) /\ (ReplayFaithful' <=> ReplayFaithful)
    BY <2>1 DEF Reading, ReplayFaithful, CameOutOf, Replayed
  <2>3. Played(files[playing], record - 1)' <=> Played(files[playing], record - 1)
    BY <2>1 DEF Played, CameOut, Replayed, Valid
  <2> QED
    BY <2>1, <2>2, <2>3 DEF ReplayInv
<1> QED
  BY <1>3, <1>4, <1>5, <1>6, <1>7, <1>8, <1>9, <1>10 DEF LogNext

\* M3InputFileDriver.cpp after m3teloutput.c: the packets that a file of the log has from
\* the first frame to the last come out of it in order, each once, and no others, wherever
\* a failed write, a full card or a loss of power made the file begin and end; only the last
\* record comes out twice, and of it only a packet of one frame.
THEOREM ReplayIsFaithful ==
  ASSUME TableOK
  PROVE  LogSpec => []ReplayFaithful
<1>1. LogTypeOK /\ WholeInv /\ ReplayInv /\ [LogNext]_allVars => ReplayInv'
  BY ReplayKept
<1>2. ReplayInv => ReplayFaithful
  BY DEF ReplayInv
<1>3. LogSpec => [](LogTypeOK /\ WholeInv)
  BY LogInvariant, WholeInvariant, PTL
<1> QED
  BY <1>1, <1>2, <1>3, ReplayInit, PTL DEF LogSpec
=============================================================================
