------------------------ MODULE SerialInterfaceProofs ------------------------
(***************************************************************************)
(* Theorems about SerialInterface, for packets, queues, buffers and heaps  *)
(* of every size and any number of frames and of lost bytes.               *)
(***************************************************************************)
EXTENDS SerialInterface, FiniteSetTheorems, WellFoundedInduction, SequenceTheorems, TLAPS

-----------------------------------------------------------------------------
(* Stuffing *)

\* What is stuffed: bytes, and a length of any size.
Plain == {<<n>> : n \in Nat}

\* Among the intervals that end in T one has no other below it.
LEMMA Least == ASSUME NEW T \in SUBSET Nat, T # {} PROVE \E x \in T : \A y \in T : x <= y
<1> DEFINE C == {0..k : k \in T}
<1>1. PICK R : R = StrictSubsetOrdering(Nat)
  OBVIOUS
<1>2. PICK S : S = FiniteSubsetsOf(Nat)
  OBVIOUS
<1>3. IsWellFoundedOn(R, S)
  BY <1>1, <1>2, FS_StrictSubsetOrderingWellFounded
<1>4. C \subseteq S /\ C # {}
  <2>1. ASSUME NEW k \in T PROVE 0..k \in SUBSET Nat /\ IsFiniteSet(0..k)
    BY FS_Interval
  <2> QED
    BY <1>2, <2>1 DEF FiniteSubsetsOf
<1>5. \E x \in C : \A y \in C : ~ (<<y, x>> \in R)
  BY <1>3, <1>4, WFMin
<1>6. PICK x \in T : \A y \in T : ~ (<<0..y, 0..x>> \in R)
  BY <1>5
<1>7. ASSUME NEW y \in T, y < x PROVE FALSE
  <2>1. 0..y \subseteq 0..x /\ x \in 0..x /\ x \notin 0..y
    BY <1>7
  <2>2. <<0..y, 0..x>> \in R
    BY <1>1, <2>1 DEF StrictSubsetOrdering
  <2> QED
    BY <1>6, <2>2
<1> QED
  BY <1>7

\* Induction up to n.
LEMMA Climbs ==
  ASSUME NEW n \in Nat, NEW T, 0 \in T, \A m \in 1..n : m - 1 \in T => m \in T
  PROVE  \A m \in 0..n : m \in T
<1>1. PICK U : U = {m \in 0..n : m \notin T}
  OBVIOUS
<1>0. U \in SUBSET Nat
  BY <1>1
<1> SUFFICES ASSUME U # {} PROVE FALSE
  BY <1>1
<1>2. PICK m \in U : \A y \in U : m <= y
  BY <1>0, Least
<1>3. m \in 1..n /\ m - 1 \in 0..n /\ m - 1 \notin U
  BY <1>1, <1>2
<1> QED
  BY <1>1, <1>3

\* A symbol is a byte or one of the two checksums, and a byte is none of them.
LEMMA Symbols ==
  ASSUME NEW x, NEW y, NEW n \in Nat
  PROVE  /\ <<16, x>> # <<32, y>> /\ <<16, x>> # <<n>> /\ <<32, x>> # <<n>>
         /\ (<<16, x>> = <<16, y>> => x = y) /\ (<<32, x>> = <<32, y>> => x = y)
OBVIOUS

\* The bytes that are stuffed, what they become, and back.
LEMMA StuffedTwo ==
  /\ DOMAIN Stuffed = {Delimiter, Escape} /\ Delimiter # Escape
  /\ \A b \in DOMAIN Stuffed : /\ b \in Plain /\ Stuffed[b] \in Plain
                               /\ Stuffed[b] \notin {Delimiter, Escape}
                               /\ Stuffed[b] \in DOMAIN Unstuffed /\ Unstuffed[Stuffed[b]] = b
  /\ \A b \in DOMAIN Unstuffed : Unstuffed[b] \in Plain
<1>1. /\ <<126>>[1] = 126 /\ <<125>>[1] = 125 /\ <<94>>[1] = 94 /\ <<93>>[1] = 93
      /\ <<126>> # <<125>> /\ <<94>> # <<93>> /\ <<94>> # <<126>> /\ <<94>> # <<125>>
      /\ <<93>> # <<126>> /\ <<93>> # <<125>>
  OBVIOUS
<1>2. Stuffed[<<126>>] = <<94>> /\ Stuffed[<<125>>] = <<93>> /\ DOMAIN Stuffed = {<<126>>, <<125>>}
  BY <1>1 DEF Stuffed
<1>3. /\ Unstuffed[<<94>>] = <<126>> /\ Unstuffed[<<93>>] = <<125>>
      /\ DOMAIN Unstuffed = {<<94>>, <<93>>}
  BY <1>1 DEF Unstuffed
<1>4. \A n \in {126, 125, 94, 93} : <<n>> \in Plain
  BY DEF Plain
<1> QED
  BY <1>1, <1>2, <1>3, <1>4 DEF Delimiter, Escape

Piece(b) == IF b \in DOMAIN Stuffed THEN <<Escape, Stuffed[b]>> ELSE <<b>>

\* The recursion of Stuff has a solution.
LEMMA StuffExists ==
  ASSUME NEW bytes \in Seq(Plain), NEW n, n = Len(bytes)
  PROVE  \E g : g = [k \in 0..n |-> IF k = 0 THEN <<>> ELSE g[k - 1] \o Piece(bytes[k])]
<1> DEFINE Solved(m) == \E g : g = [k \in 0..m |-> IF k = 0 THEN <<>>
                                                  ELSE g[k - 1] \o Piece(bytes[k])]
           T == {m \in 0..n : Solved(m)}
<1>1. n \in Nat
  BY LenProperties
<1>2. Solved(0)
  <2>1. PICK g : g = [k \in 0..0 |-> <<>>]
    OBVIOUS
  <2>2. g = [k \in 0..0 |-> IF k = 0 THEN <<>> ELSE g[k - 1] \o Piece(bytes[k])]
    BY <2>1
  <2> QED
    BY <2>2
<1>3. ASSUME NEW m \in 1..n, Solved(m - 1) PROVE Solved(m)
  <2>1. PICK g : g = [k \in 0..m - 1 |-> IF k = 0 THEN <<>> ELSE g[k - 1] \o Piece(bytes[k])]
    BY <1>3
  <2>2. PICK f : f = [k \in 0..m |-> IF k = m THEN g[m - 1] \o Piece(bytes[m]) ELSE g[k]]
    OBVIOUS
  <2>3. ASSUME NEW k \in 0..m
        PROVE  f[k] = IF k = 0 THEN <<>> ELSE f[k - 1] \o Piece(bytes[k])
    <3>1. CASE k = m
      <4>1. m - 1 \in 0..m /\ m - 1 # m
        BY <1>1
      <4> QED
        BY <2>2, <3>1, <4>1
    <3>2. CASE k # m
      <4>1. k \in 0..m - 1 /\ (k # 0 => k - 1 \in 0..m /\ k - 1 # m)
        BY <3>2
      <4> QED
        BY <2>1, <2>2, <3>2, <4>1
    <3> QED
      BY <3>1, <3>2
  <2>4. f = [k \in 0..m |-> IF k = 0 THEN <<>> ELSE f[k - 1] \o Piece(bytes[k])]
    BY <2>2, <2>3
  <2> QED
    BY <2>4
<1> HIDE DEF Solved
<1>4. 0 \in T /\ \A m \in 1..n : m - 1 \in T => m \in T
  BY <1>1, <1>2, <1>3
<1>5. \A m \in 0..n : m \in T
  <2> HIDE DEF T
  <2> QED
    BY <1>1, <1>4, Climbs
<1>6. Solved(n)
  BY <1>1, <1>5
<1> QED
  BY <1>6 DEF Solved

\* Where the bytes begin in what they were stuffed to.
Offsets(bytes, s, O) ==
    /\ O \in [0..Len(bytes) -> 0..Len(s)] /\ O[0] = 0 /\ O[Len(bytes)] = Len(s)
    /\ \A k \in 1..Len(bytes) :
         IF bytes[k] \in DOMAIN Stuffed
         THEN /\ O[k] = O[k - 1] + 2
              /\ s[O[k - 1] + 1] = Escape /\ s[O[k - 1] + 2] = Stuffed[bytes[k]]
         ELSE /\ O[k] = O[k - 1] + 1
              /\ s[O[k - 1] + 1] = bytes[k]

StuffSolved(bytes) ==
    \E g : /\ g = [k \in 0..Len(bytes) |-> IF k = 0 THEN <<>> ELSE g[k - 1] \o Piece(bytes[k])]
           /\ Stuff(bytes) = g[Len(bytes)]

LEMMA StuffIsSolved == ASSUME NEW bytes \in Seq(Plain) PROVE StuffSolved(bytes)
<1> DEFINE P(g) == g = [k \in 0..Len(bytes) |-> IF k = 0 THEN <<>>
                                                ELSE g[k - 1] \o Piece(bytes[k])]
           f == CHOOSE g : P(g)
<1>1. \E g : P(g)
  BY StuffExists
<1>2. P(f)
  <2> HIDE DEF P
  <2> QED
    BY <1>1
<1>3. Stuff(bytes) = f[Len(bytes)]
  BY DEF Stuff, Piece
<1> HIDE DEF f
<1> QED
  BY <1>2, <1>3 DEF StuffSolved

\* The symbols of one byte, from place o on.
Width(b) == IF b \in DOMAIN Stuffed THEN 2 ELSE 1

StuffedAt(s, o, b) ==
    IF b \in DOMAIN Stuffed THEN s[o + 1] = Escape /\ s[o + 2] = Stuffed[b] ELSE s[o + 1] = b

LEMMA OnePiece ==
  ASSUME NEW b \in Plain
  PROVE  /\ Piece(b) \in Seq(Plain) /\ Len(Piece(b)) = Width(b) /\ Width(b) \in {1, 2}
         /\ \A i \in 1..Width(b) : Piece(b)[i] # Delimiter
         /\ StuffedAt(Piece(b), 0, b)
<1>1. CASE b \in DOMAIN Stuffed
  <2>1. Piece(b) = <<Escape, Stuffed[b]>> /\ Width(b) = 2 /\ Escape \in Plain
    BY <1>1, StuffedTwo DEF Piece, Width
  <2> QED
    BY <1>1, <2>1, StuffedTwo DEF StuffedAt
<1>2. CASE b \notin DOMAIN Stuffed
  <2>1. Piece(b) = <<b>> /\ Width(b) = 1 /\ b # Delimiter
    BY <1>2, StuffedTwo DEF Piece, Width
  <2> QED
    BY <1>2, <2>1, StuffedTwo DEF StuffedAt
<1> QED
  BY <1>1, <1>2

\* What bytes are stuffed to has no delimiter, and each byte has its place in it.
LEMMA Stuffing ==
  ASSUME NEW bytes \in Seq(Plain)
  PROVE  /\ Stuff(bytes) \in Seq(Plain)
         /\ \A i \in 1..Len(Stuff(bytes)) : Stuff(bytes)[i] # Delimiter
         /\ \E O : Offsets(bytes, Stuff(bytes), O)
<1> DEFINE n == Len(bytes)
<1>0. n \in Nat /\ \A k \in 1..n : bytes[k] \in Plain
  BY LenProperties, ElementOfSeq
<1> HIDE DEF n
<1>1. PICK g : /\ g = [k \in 0..n |-> IF k = 0 THEN <<>> ELSE g[k - 1] \o Piece(bytes[k])]
               /\ Stuff(bytes) = g[n]
  BY StuffIsSolved DEF StuffSolved, n
<1>2. g[0] = <<>> /\ \A k \in 1..n : g[k] = g[k - 1] \o Piece(bytes[k])
  <2>1. \A k \in 0..n : g[k] = IF k = 0 THEN <<>> ELSE g[k - 1] \o Piece(bytes[k])
    BY <1>1
  <2>2. ASSUME NEW k \in 1..n PROVE g[k] = g[k - 1] \o Piece(bytes[k])
    <3>1. k \in 0..n /\ k # 0
      BY <1>0
    <3> QED
      BY <2>1, <3>1
  <2>3. g[0] = <<>>
    BY <1>0, <2>1
  <2> QED
    BY <2>2, <2>3
<1> DEFINE Placed(k) ==
      /\ g[k] \in Seq(Plain) /\ Len(g[k]) \in Nat
      /\ \A i \in 1..Len(g[k]) : g[k][i] # Delimiter
      /\ \A j \in 0..k : Len(g[j]) \in 0..Len(g[k])
      /\ \A j \in 1..k : /\ Len(g[j]) = Len(g[j - 1]) + Width(bytes[j])
                         /\ StuffedAt(g[k], Len(g[j - 1]), bytes[j])
<1>3. Placed(0)
  BY <1>2, EmptySeq
<1>4. ASSUME NEW k \in 1..n, Placed(k - 1) PROVE Placed(k)
  <2>1. PICK s, b, p : s = g[k - 1] /\ b = bytes[k] /\ p = Piece(b)
    OBVIOUS
  <2>2. b \in Plain /\ p \in Seq(Plain) /\ Len(p) = Width(b) /\ Width(b) \in {1, 2}
        /\ (\A i \in 1..Width(b) : p[i] # Delimiter) /\ StuffedAt(p, 0, b)
    BY <1>0, <2>1, OnePiece
  <2>3. s \in Seq(Plain) /\ Len(s) \in Nat /\ (\A i \in 1..Len(s) : s[i] # Delimiter)
        /\ \A j \in 0..k - 1 : Len(g[j]) \in 0..Len(s)
    BY <1>4, <2>1
  <2>4. /\ g[k] = s \o p /\ g[k] \in Seq(Plain) /\ Len(g[k]) = Len(s) + Width(b)
        /\ \A i \in 1..Len(s) : g[k][i] = s[i]
        /\ \A i \in 1..Width(b) : g[k][Len(s) + i] = p[i]
    <3>1. g[k] = s \o p
      BY <1>2, <2>1
    <3>2. /\ s \o p \in Seq(Plain) /\ Len(s \o p) = Len(s) + Len(p)
          /\ \A i \in 1..Len(s) + Len(p) :
               (s \o p)[i] = IF i <= Len(s) THEN s[i] ELSE p[i - Len(s)]
      BY <2>2, <2>3, ConcatProperties
    <3>3. ASSUME NEW i \in 1..Width(b) PROVE (s \o p)[Len(s) + i] = p[i]
      <4>1. Len(s) + i \in 1..Len(s) + Len(p) /\ ~(Len(s) + i <= Len(s)) /\ (Len(s) + i) - Len(s) = i
        BY <2>2, <2>3
      <4> QED
        BY <3>2, <4>1
    <3>4. ASSUME NEW i \in 1..Len(s) PROVE (s \o p)[i] = s[i]
      <4>1. i \in 1..Len(s) + Len(p) /\ i <= Len(s)
        BY <2>2, <2>3
      <4> QED
        BY <3>2, <4>1
    <3> QED
      BY <2>2, <3>1, <3>2, <3>3, <3>4
  <2>5. \A i \in 1..Len(g[k]) : g[k][i] # Delimiter
    <3> SUFFICES ASSUME NEW i \in 1..Len(g[k]) PROVE g[k][i] # Delimiter
      OBVIOUS
    <3>1. CASE i \in 1..Len(s)
      BY <2>3, <2>4, <3>1
    <3>2. CASE i \notin 1..Len(s)
      <4>1. PICK w \in 1..Width(b) : i = Len(s) + w
        <5>1. i - Len(s) \in 1..Width(b) /\ i = Len(s) + (i - Len(s))
          BY <2>2, <2>3, <2>4, <3>2
        <5> QED
          BY <5>1
      <4> QED
        BY <2>2, <2>4, <4>1
    <3> QED
      BY <3>1, <3>2
  <2>6. \A j \in 0..k : Len(g[j]) \in 0..Len(g[k])
    <3> SUFFICES ASSUME NEW j \in 0..k PROVE Len(g[j]) \in 0..Len(g[k])
      OBVIOUS
    <3>1. CASE j = k
      BY <2>2, <2>3, <2>4, <3>1
    <3>2. CASE j \in 0..k - 1
      BY <2>2, <2>3, <2>4, <3>2
    <3> QED
      BY <3>1, <3>2
  <2>7. ASSUME NEW j \in 1..k
        PROVE  /\ Len(g[j]) = Len(g[j - 1]) + Width(bytes[j])
               /\ StuffedAt(g[k], Len(g[j - 1]), bytes[j])
    <3>1. CASE j = k
      <4>1. g[k][Len(s) + 1] = p[1] /\ (Width(b) = 2 => g[k][Len(s) + 2] = p[2])
        BY <2>2, <2>4
      <4>2. /\ b \in DOMAIN Stuffed => p[1] = Escape /\ p[2] = Stuffed[b] /\ Width(b) = 2
            /\ b \notin DOMAIN Stuffed => p[1] = b
        BY <2>2 DEF StuffedAt, Width
      <4>3. StuffedAt(g[k], Len(s), b)
        BY <4>1, <4>2 DEF StuffedAt
      <4> QED
        BY <2>1, <2>4, <3>1, <4>3
    <3>2. CASE j \in 1..k - 1
      <4>1. PICK o, c : o = Len(g[j - 1]) /\ c = bytes[j]
        OBVIOUS
      <4>2. /\ Len(g[j]) = o + Width(c) /\ StuffedAt(s, o, c) /\ o \in 0..Len(s)
            /\ Len(g[j]) \in 0..Len(s)
        <5>1. j - 1 \in 0..k - 1 /\ j \in 0..k - 1
          BY <3>2
        <5> QED
          BY <1>4, <2>1, <2>3, <3>2, <4>1, <5>1
      <4>3. o + 1 \in 1..Len(s) /\ (c \in DOMAIN Stuffed => o + 2 \in 1..Len(s))
        BY <2>3, <4>2 DEF Width
      <4>4. StuffedAt(g[k], o, c)
        BY <2>4, <4>2, <4>3 DEF StuffedAt
      <4> QED
        BY <4>1, <4>2, <4>4
    <3> QED
      BY <3>1, <3>2
  <2>8. g[k] \in Seq(Plain) /\ Len(g[k]) \in Nat
    BY <2>2, <2>3, <2>4
  <2> QED
    BY <2>5, <2>6, <2>7, <2>8
<1>5. Placed(n)
  <2> DEFINE T == {m \in 0..n : Placed(m)}
  <2> HIDE DEF Placed
  <2>1. 0 \in T /\ \A m \in 1..n : m - 1 \in T => m \in T
    BY <1>0, <1>3, <1>4
  <2>2. \A m \in 0..n : m \in T
    <3> HIDE DEF T
    <3> QED
      BY <1>0, <2>1, Climbs
  <2> QED
    BY <1>0, <2>2
<1>6. PICK O : O = [j \in 0..n |-> Len(g[j])]
  OBVIOUS
<1>7. Offsets(bytes, g[n], O)
  <2>1. O \in [0..n -> 0..Len(g[n])] /\ O[0] = 0 /\ O[n] = Len(g[n])
    BY <1>0, <1>2, <1>5, <1>6, EmptySeq
  <2>2. ASSUME NEW k \in 1..n
        PROVE  O[k] = O[k - 1] + Width(bytes[k]) /\ StuffedAt(g[n], O[k - 1], bytes[k])
    <3>1. O[k] = Len(g[k]) /\ O[k - 1] = Len(g[k - 1])
      BY <1>0, <1>6
    <3> QED
      BY <1>5, <3>1
  <2> QED
    BY <2>1, <2>2 DEF Offsets, Width, StuffedAt, n
<1> QED
  BY <1>1, <1>5, <1>7

-----------------------------------------------------------------------------
(* Reading what was stuffed *)

\* After t symbols of what bytes were stuffed to, serial_interface_read_bytes_to_buffer
\* has read buf, and perhaps the first half of the next byte.
Reads(bytes, t, buf, esc) ==
    \E O : /\ Offsets(bytes, Stuff(bytes), O)
           /\ buf \in Seq(Plain) /\ Len(buf) \in 0..Len(bytes)
           /\ \A i \in 1..Len(buf) : buf[i] = bytes[i]
           /\ IF esc
              THEN /\ Len(buf) < Len(bytes) /\ bytes[Len(buf) + 1] \in DOMAIN Stuffed
                   /\ t = O[Len(buf)] + 1
              ELSE t = O[Len(buf)]

LEMMA ReadsNone == ASSUME NEW bytes \in Seq(Plain) PROVE Reads(bytes, 0, <<>>, FALSE)
<1>1. PICK O : Offsets(bytes, Stuff(bytes), O)
  BY Stuffing
<1>2. <<>> \in Seq(Plain) /\ Len(<<>>) = 0 /\ Len(bytes) \in Nat /\ O[0] = 0
  BY <1>1, EmptySeq, LenProperties DEF Offsets
<1> QED
  BY <1>1, <1>2 DEF Reads

\* Where the reader is.
LEMMA ReadsAt ==
  ASSUME NEW bytes \in Seq(Plain), NEW t, NEW buf, NEW esc \in BOOLEAN, Reads(bytes, t, buf, esc)
  PROVE  /\ t \in 0..Len(Stuff(bytes))
         /\ Len(buf) < Len(bytes) => t < Len(Stuff(bytes))
         /\ Len(buf) = Len(bytes) => buf = bytes /\ ~esc /\ t = Len(Stuff(bytes))
<1>1. PICK O : /\ Offsets(bytes, Stuff(bytes), O)
               /\ buf \in Seq(Plain) /\ Len(buf) \in 0..Len(bytes)
               /\ \A i \in 1..Len(buf) : buf[i] = bytes[i]
               /\ IF esc
                  THEN /\ Len(buf) < Len(bytes) /\ bytes[Len(buf) + 1] \in DOMAIN Stuffed
                       /\ t = O[Len(buf)] + 1
                  ELSE t = O[Len(buf)]
  BY DEF Reads
<1>2. PICK n, m, j : n = Len(bytes) /\ m = Len(Stuff(bytes)) /\ j = Len(buf)
  OBVIOUS
<1>3. n \in Nat /\ m \in Nat /\ j \in 0..n
  BY <1>1, <1>2, Stuffing, LenProperties
<1>4. O[j] \in 0..m /\ O[n] = m
  BY <1>1, <1>2, <1>3 DEF Offsets
<1>5. ASSUME j < n
      PROVE  O[j] + 1 <= m /\ (bytes[j + 1] \in DOMAIN Stuffed => O[j] + 2 <= m)
  <2>1. j + 1 \in 1..n /\ (j + 1) - 1 = j /\ j + 1 \in 0..n
    BY <1>3, <1>5
  <2>2. O[j + 1] \in 0..m
    BY <1>1, <1>2, <2>1 DEF Offsets
  <2>3. IF bytes[j + 1] \in DOMAIN Stuffed THEN O[j + 1] = O[j] + 2 ELSE O[j + 1] = O[j] + 1
    BY <1>1, <1>2, <2>1 DEF Offsets
  <2> QED
    BY <1>3, <1>4, <2>2, <2>3
<1>6. j = n => buf = bytes
  BY <1>1, <1>2, SeqEqual
<1> QED
  BY <1>1, <1>2, <1>3, <1>4, <1>5, <1>6

\* It takes the next symbol.
LEMMA ReadsOn ==
  ASSUME NEW bytes \in Seq(Plain), NEW t, NEW buf, NEW esc \in BOOLEAN, Reads(bytes, t, buf, esc),
         t < Len(Stuff(bytes)), NEW b, b = Stuff(bytes)[t + 1]
  PROVE  /\ IF esc THEN b \in DOMAIN Unstuffed ELSE b # Delimiter
         /\ IF ~esc /\ b = Escape
            THEN Reads(bytes, t + 1, buf, TRUE)
            ELSE Reads(bytes, t + 1, Append(buf, IF esc THEN Unstuffed[b] ELSE b), FALSE)
<1>1. PICK O : /\ Offsets(bytes, Stuff(bytes), O)
               /\ buf \in Seq(Plain) /\ Len(buf) \in 0..Len(bytes)
               /\ \A i \in 1..Len(buf) : buf[i] = bytes[i]
               /\ IF esc
                  THEN /\ Len(buf) < Len(bytes) /\ bytes[Len(buf) + 1] \in DOMAIN Stuffed
                       /\ t = O[Len(buf)] + 1
                  ELSE t = O[Len(buf)]
  BY DEF Reads
<1>2. PICK n, j, s : n = Len(bytes) /\ j = Len(buf) /\ s = Stuff(bytes)
  OBVIOUS
<1>3. n \in Nat /\ j \in 0..n /\ Len(s) \in Nat
  BY <1>1, <1>2, Stuffing, LenProperties
<1>4. j < n
  <2>1. ~esc /\ j = n => t = Len(s)
    BY <1>1, <1>2 DEF Offsets
  <2> QED
    BY <1>1, <1>2, <1>3, <2>1
<1>5. j + 1 \in 1..n /\ (j + 1) - 1 = j
  BY <1>3, <1>4
<1>6. PICK c \in Plain : c = bytes[j + 1]
  BY <1>2, <1>5, ElementOfSeq
<1>7. IF c \in DOMAIN Stuffed
      THEN O[j + 1] = O[j] + 2 /\ s[O[j] + 1] = Escape /\ s[O[j] + 2] = Stuffed[c]
      ELSE O[j + 1] = O[j] + 1 /\ s[O[j] + 1] = c
  BY <1>1, <1>2, <1>5, <1>6 DEF Offsets
<1>8. O[j] \in Nat
  BY <1>1, <1>2, <1>3 DEF Offsets
<1>9. ASSUME t + 1 = O[j + 1] PROVE Reads(bytes, t + 1, Append(buf, c), FALSE)
  <2>1. PICK d : d = Append(buf, c)
    OBVIOUS
  <2>2. d \in Seq(Plain) /\ Len(d) = j + 1 /\ (\A i \in 1..j : d[i] = buf[i]) /\ d[j + 1] = c
    BY <1>1, <1>2, <1>6, <2>1, AppendProperties
  <2>3. \A i \in 1..j + 1 : d[i] = bytes[i]
    BY <1>1, <1>2, <1>3, <1>6, <2>2
  <2>4. Reads(bytes, t + 1, d, FALSE)
    BY <1>1, <1>2, <1>3, <1>5, <1>9, <2>2, <2>3 DEF Reads
  <2> QED
    BY <2>1, <2>4
<1>10. CASE esc
  <2>1. t = O[j] + 1 /\ c \in DOMAIN Stuffed
    BY <1>1, <1>2, <1>6, <1>10
  <2>2. b = Stuffed[c] /\ t + 1 = O[j + 1]
    <3>1. t + 1 = O[j] + 2
      BY <1>8, <2>1
    <3> QED
      BY <1>2, <1>7, <2>1, <3>1
  <2>3. b \in DOMAIN Unstuffed /\ Unstuffed[b] = c
    BY <2>1, <2>2, StuffedTwo
  <2> QED
    BY <1>9, <1>10, <2>2, <2>3
<1>11. CASE ~esc /\ c \in DOMAIN Stuffed
  <2>1. t = O[j] /\ b = Escape
    BY <1>1, <1>2, <1>7, <1>11
  <2>2. Reads(bytes, t + 1, buf, TRUE)
    BY <1>1, <1>2, <1>4, <1>6, <1>11, <2>1 DEF Reads
  <2> QED
    BY <1>11, <2>1, <2>2, StuffedTwo
<1>12. CASE ~esc /\ c \notin DOMAIN Stuffed
  <2>1. t + 1 = O[j + 1] /\ b = c
    BY <1>1, <1>2, <1>7, <1>12
  <2> QED
    BY <1>9, <1>12, <2>1, StuffedTwo
<1> QED
  BY <1>10, <1>11, <1>12

-----------------------------------------------------------------------------
(* Frames *)

\* One sequence behind another.
LEMMA Joined ==
  ASSUME NEW S, NEW s \in Seq(S), NEW t \in Seq(S), NEW m, m = Len(s), NEW n, n = Len(t)
  PROVE  /\ s \o t \in Seq(S) /\ Len(s \o t) = m + n /\ m \in Nat /\ n \in Nat
         /\ \A i \in 1..m : (s \o t)[i] = s[i]
         /\ \A i \in 1..n : (s \o t)[m + i] = t[i]
<1>1. /\ s \o t \in Seq(S) /\ Len(s \o t) = m + n /\ m \in Nat /\ n \in Nat
      /\ \A i \in 1..m + n : (s \o t)[i] = IF i <= m THEN s[i] ELSE t[i - m]
  BY ConcatProperties, LenProperties
<1>2. ASSUME NEW i \in 1..m PROVE (s \o t)[i] = s[i]
  <2>1. i \in 1..m + n /\ i <= m
    BY <1>1
  <2> QED
    BY <1>1, <2>1
<1>3. ASSUME NEW i \in 1..n PROVE (s \o t)[m + i] = t[i]
  <2>1. m + i \in 1..m + n /\ ~(m + i <= m) /\ (m + i) - m = i
    BY <1>1
  <2> QED
    BY <1>1, <2>1
<1> QED
  BY <1>1, <1>2, <1>3

\* The symbols of the frame of a packet.
Symbol(p) == Plain \cup {Crc16(Header(p)), Crc32(p.payload)}

HeaderSize(p) == Len(Stuff(Header(p)))
PayloadSize(p) == Len(Stuff(p.payload))

LEMMA PacketTypes ==
  ASSUME NEW p \in Packets
  PROVE  /\ Header(p) \in Seq(Plain) /\ Len(Header(p)) = 2 /\ Header(p)[2][1] = Len(p.payload)
         /\ p.payload \in Seq(Plain) /\ Len(p.payload) \in Nat
         /\ Header(p)[1] = p.id /\ Header(p)[2] \in Plain
<1>1. Byte \subseteq Plain
  BY DEF Byte, Plain
<1>2. p.payload \in Seq(Plain) /\ p.id \in Plain /\ Len(p.payload) \in Nat
  <2>1. p.payload \in Seq(Byte) /\ p.id \in Byte
    BY SerialAssumption
  <2>2. Len(p.payload) \in Nat /\ \A i \in 1..Len(p.payload) : p.payload[i] \in Plain
    BY <1>1, <2>1, LenProperties, ElementOfSeq
  <2>3. p.payload \in Seq(Plain)
    BY <1>1, <2>1
  <2> QED
    BY <1>1, <2>1, <2>2, <2>3
<1>3. <<Len(p.payload)>> \in Plain
  BY <1>2 DEF Plain
<1> QED
  BY <1>2, <1>3 DEF Header

LEMMA FrameShape ==
  ASSUME NEW p \in Packets, NEW h, h = HeaderSize(p), NEW l, l = PayloadSize(p)
  PROVE  /\ h \in Nat \ {0} /\ l \in Nat /\ Len(Frame(p)) = h + l + 3
         /\ Frame(p) \in Seq(Symbol(p))
         /\ Frame(p)[1] = Delimiter
         /\ \A i \in 1..h : Frame(p)[i + 1] = Stuff(Header(p))[i]
         /\ Frame(p)[h + 2] = Crc16(Header(p))
         /\ \A i \in 1..l : Frame(p)[h + 2 + i] = Stuff(p.payload)[i]
         /\ Frame(p)[h + l + 3] = Crc32(p.payload)
<1> DEFINE S == Symbol(p)
<1>1. PICK a, b, c, d, e : /\ a = <<Delimiter>> /\ b = Stuff(Header(p)) /\ c = <<Crc16(Header(p))>>
                           /\ d = Stuff(p.payload) /\ e = <<Crc32(p.payload)>>
  OBVIOUS
<1>2. a \in Seq(S) /\ b \in Seq(S) /\ c \in Seq(S) /\ d \in Seq(S) /\ e \in Seq(S)
  <2>1. Plain \subseteq S /\ Delimiter \in S /\ Crc16(Header(p)) \in S /\ Crc32(p.payload) \in S
    BY DEF Symbol, Plain, Delimiter
  <2>2. b \in Seq(Plain) /\ d \in Seq(Plain)
    BY <1>1, PacketTypes, Stuffing
  <2> HIDE DEF S
  <2> QED
    BY <1>1, <2>1, <2>2
<1> HIDE DEF S
<1>3. Len(a) = 1 /\ Len(b) = h /\ Len(c) = 1 /\ Len(d) = l /\ Len(e) = 1
      /\ a[1] = Delimiter /\ c[1] = Crc16(Header(p)) /\ e[1] = Crc32(p.payload)
  BY <1>1 DEF HeaderSize, PayloadSize
<1>4. h \in Nat /\ l \in Nat
  BY <1>2, <1>3, LenProperties
<1>5. h # 0
  <2>1. Header(p) \in Seq(Plain) /\ Len(Header(p)) = 2
    BY PacketTypes
  <2>2. PICK O : Offsets(Header(p), Stuff(Header(p)), O)
    BY <2>1, Stuffing
  <2>3. O[0] = 0 /\ O[1] \in 0..h /\ (O[1] = O[0] + 2 \/ O[1] = O[0] + 1)
    <3>1. 1 \in 1..2 /\ 1 \in 0..2 /\ 1 - 1 = 0
      OBVIOUS
    <3> QED
      BY <2>1, <2>2, <3>1 DEF Offsets, HeaderSize
  <2> QED
    BY <2>3
<1>6. PICK f : /\ f = a \o b /\ f \in Seq(S) /\ Len(f) = 1 + h /\ f[1] = Delimiter
               /\ \A i \in 1..h : f[1 + i] = b[i]
  <2>1. 1 \in 1..1
    OBVIOUS
  <2>2. /\ a \o b \in Seq(S) /\ Len(a \o b) = 1 + h
        /\ \A i \in 1..1 : (a \o b)[i] = a[i]
        /\ \A i \in 1..h : (a \o b)[1 + i] = b[i]
    <3>1. a \in Seq(S) /\ b \in Seq(S)
      BY <1>2
    <3>2. /\ a \o b \in Seq(S) /\ Len(a \o b) = Len(a) + Len(b)
          /\ \A i \in 1..Len(a) : (a \o b)[i] = a[i]
          /\ \A i \in 1..Len(b) : (a \o b)[Len(a) + i] = b[i]
      BY <3>1, Joined
    <3> QED
      BY <1>3, <3>2
  <2> QED
    BY <1>3, <2>1, <2>2
<1>7. PICK g : /\ g = f \o c /\ g \in Seq(S) /\ Len(g) = (1 + h) + 1
               /\ \A i \in 1..1 + h : g[i] = f[i]
               /\ \A i \in 1..1 : g[(1 + h) + i] = Crc16(Header(p))
  <2>1. /\ f \o c \in Seq(S) /\ Len(f \o c) = (1 + h) + 1
        /\ \A i \in 1..1 + h : (f \o c)[i] = f[i]
        /\ \A i \in 1..1 : (f \o c)[(1 + h) + i] = c[i]
    BY <1>2, <1>3, <1>6, Joined
  <2>2. \A i \in 1..1 : i = 1
    OBVIOUS
  <2> QED
    BY <1>3, <2>1, <2>2
<1>8. PICK k : /\ k = g \o d /\ k \in Seq(S) /\ Len(k) = ((1 + h) + 1) + l
               /\ \A i \in 1..(1 + h) + 1 : k[i] = g[i]
               /\ \A i \in 1..l : k[((1 + h) + 1) + i] = d[i]
  <2>1. /\ g \o d \in Seq(S) /\ Len(g \o d) = ((1 + h) + 1) + l
        /\ \A i \in 1..(1 + h) + 1 : (g \o d)[i] = g[i]
        /\ \A i \in 1..l : (g \o d)[((1 + h) + 1) + i] = d[i]
    <3>1. g \in Seq(S) /\ d \in Seq(S)
      BY <1>2, <1>7
    <3>2. /\ g \o d \in Seq(S) /\ Len(g \o d) = Len(g) + Len(d)
          /\ \A i \in 1..Len(g) : (g \o d)[i] = g[i]
          /\ \A i \in 1..Len(d) : (g \o d)[Len(g) + i] = d[i]
      BY <3>1, Joined
    <3> QED
      BY <1>3, <1>7, <3>2
  <2>2. \A i \in 1..1 : i = 1
    OBVIOUS
  <2> QED
    BY <1>3, <2>1, <2>2
<1>9. PICK m : /\ m = k \o e /\ m \in Seq(S) /\ Len(m) = (((1 + h) + 1) + l) + 1
               /\ \A i \in 1..((1 + h) + 1) + l : m[i] = k[i]
               /\ \A i \in 1..1 : m[(((1 + h) + 1) + l) + i] = Crc32(p.payload)
  <2>1. /\ k \o e \in Seq(S) /\ Len(k \o e) = (((1 + h) + 1) + l) + 1
        /\ \A i \in 1..((1 + h) + 1) + l : (k \o e)[i] = k[i]
        /\ \A i \in 1..1 : (k \o e)[(((1 + h) + 1) + l) + i] = e[i]
    <3>1. k \in Seq(S) /\ e \in Seq(S)
      BY <1>2, <1>8
    <3>2. /\ k \o e \in Seq(S) /\ Len(k \o e) = Len(k) + Len(e)
          /\ \A i \in 1..Len(k) : (k \o e)[i] = k[i]
          /\ \A i \in 1..Len(e) : (k \o e)[Len(k) + i] = e[i]
      BY <3>1, Joined
    <3> QED
      BY <1>3, <1>8, <3>2
  <2>2. \A i \in 1..1 : i = 1
    OBVIOUS
  <2> QED
    BY <1>3, <2>1, <2>2
<1>10. Len(m) = h + l + 3 /\ m[h + l + 3] = Crc32(p.payload)
  <2>1. (((1 + h) + 1) + l) + 1 = h + l + 3 /\ 1 \in 1..1
    BY <1>4
  <2> QED
    BY <1>9, <2>1
<1>11. \A i \in 1..(1 + h) + 1 : m[i] = g[i]
  <2>1. \A i \in 1..(1 + h) + 1 : i \in 1..((1 + h) + 1) + l
    BY <1>4
  <2> QED
    BY <1>8, <1>9, <2>1
<1>12. \A i \in 1..1 + h : m[i] = f[i]
  <2>1. \A i \in 1..1 + h : i \in 1..(1 + h) + 1
    BY <1>4
  <2> QED
    BY <1>7, <1>11, <2>1
<1>13. /\ m[1] = Delimiter /\ m[h + 2] = Crc16(Header(p))
       /\ \A i \in 1..h : m[i + 1] = b[i]
       /\ \A i \in 1..l : m[h + 2 + i] = d[i]
  <2>1. 1 \in 1..1 + h /\ h + 2 = (1 + h) + 1 /\ h + 2 \in 1..(1 + h) + 1 /\ 1 \in 1..1
    BY <1>4
  <2>2. m[1] = Delimiter /\ m[h + 2] = Crc16(Header(p))
    BY <1>6, <1>7, <1>11, <1>12, <2>1
  <2>3. ASSUME NEW i \in 1..h PROVE m[i + 1] = b[i]
    <3>1. i + 1 = 1 + i /\ i + 1 \in 1..1 + h
      BY <1>4
    <3> QED
      BY <1>6, <1>12, <3>1
  <2>4. ASSUME NEW i \in 1..l PROVE m[h + 2 + i] = d[i]
    <3>1. h + 2 + i = ((1 + h) + 1) + i /\ h + 2 + i \in 1..((1 + h) + 1) + l
      BY <1>4
    <3> QED
      BY <1>8, <1>9, <3>1
  <2> QED
    BY <2>2, <2>3, <2>4
<1>14. Frame(p) = m
  BY <1>1, <1>6, <1>7, <1>8, <1>9 DEF Frame
<1> QED
  BY <1>1, <1>4, <1>5, <1>9, <1>10, <1>13, <1>14 DEF S

\* A packet's frame, whose header takes h bytes and payload l.
FrameIs(p, h, l) ==
    /\ h \in Nat \ {0} /\ l \in Nat /\ Len(Frame(p)) = h + l + 3
    /\ Frame(p) \in Seq(Symbol(p)) /\ Frame(p)[1] = Delimiter
    /\ \A i \in 1..h : Frame(p)[i + 1] = Stuff(Header(p))[i]
    /\ Frame(p)[h + 2] = Crc16(Header(p))
    /\ \A i \in 1..l : Frame(p)[h + 2 + i] = Stuff(p.payload)[i]
    /\ Frame(p)[h + l + 3] = Crc32(p.payload)

LEMMA FrameShapeIs == ASSUME NEW p \in Packets PROVE FrameIs(p, HeaderSize(p), PayloadSize(p))
<1>1. PICK h, l : h = HeaderSize(p) /\ l = PayloadSize(p)
  OBVIOUS
<1>2. FrameIs(p, h, l)
  BY <1>1, FrameShape DEF FrameIs
<1> QED
  BY <1>1, <1>2

-----------------------------------------------------------------------------
(* The stream: s is what was sent, d the frames that are damaged, k the link *)

\* A symbol with its place in a frame.
Marked(s) ==
    UNION {{[byte |-> Frame(s[n])[i], frame |-> n, place |-> i] : i \in 1..Len(Frame(s[n]))} :
           n \in 1..Len(s)}

LastPlace(s, n) == IF n = 0 THEN 0 ELSE Len(Frame(s[n]))

\* Nothing of the frame comes after x, unless it is damaged.
Ends(s, d, x) == x.frame \notin d => x.place = LastPlace(s, x.frame)

\* y comes after x; what is missing between them was damaged.
Follows(s, d, x, y) ==
    \/ /\ x.frame = y.frame /\ x.place < y.place
       /\ x.frame \notin d => y.place = x.place + 1
    \/ /\ x.frame < y.frame /\ Ends(s, d, x)
       /\ y.frame \notin d => y.place = 1
       /\ \A g \in Nat : x.frame < g /\ g < y.frame => g \in d

\* On a port, what is in the buffer also comes again.
Precedes(s, d, k, x, y) ==
    Follows(s, d, x, y) \/ (k = "port" /\ y.frame <= x.frame /\ Ends(s, d, x))

Linked(s, d, k, x, w, y) ==
    \A i \in 0..Len(w) : Precedes(s, d, k, IF i = 0 THEN x ELSE w[i],
                                           IF i = Len(w) THEN y ELSE w[i + 1])

\* The next byte that is put, or the first of the next frame.
Upcoming(s, o) ==
    IF o = <<>> THEN [frame |-> Len(s) + 1, place |-> 1]
    ELSE [frame |-> Len(s), place |-> Len(Frame(s[Len(s)])) - Len(o) + 1]

LastOf(w, x) == IF w = <<>> THEN x ELSE w[Len(w)]
FirstOf(w, x) == IF w = <<>> THEN x ELSE w[1]

Outstanding(s, o) ==
    \/ o = <<>>
    \/ /\ s # <<>> /\ o \in Seq(Symbol(s[Len(s)])) /\ Len(o) <= Len(Frame(s[Len(s)]))
       /\ \A i \in 1..Len(o) :
            o[i] = Frame(s[Len(s)])[Len(Frame(s[Len(s)])) - Len(o) + i]

\* What was read up to x, the wire w, the buffer b and the bytes o to come.
Stream(s, d, k, x, w, b, o) ==
    /\ s \in Seq(Packets) /\ d \in SUBSET (1..Len(s))
    /\ Outstanding(s, o)
    /\ w \in Seq(Marked(s)) /\ b \in Seq(Marked(s))
    /\ Linked(s, d, k, x, w, FirstOf(b, Upcoming(s, o)))
    /\ \A i \in 1..Len(b) :
         Follows(s, d, b[i], IF i = Len(b) THEN Upcoming(s, o) ELSE b[i + 1])
    /\ \A g \in Nat : LastOf(w, x).frame < g /\ g < Upcoming(s, o).frame => g \in d



LEMMA FrameLen == ASSUME NEW p \in Packets PROVE Len(Frame(p)) \in Nat /\ Len(Frame(p)) > 3
BY FrameShape

LEMMA LastPlaceNat ==
  ASSUME NEW s \in Seq(Packets), NEW n \in 0..Len(s)
  PROVE  LastPlace(s, n) \in Nat /\ (n # 0 => LastPlace(s, n) > 3)
<1>1. CASE n = 0
  BY <1>1 DEF LastPlace
<1>2. CASE n # 0
  <2>1. n \in 1..Len(s)
    BY <1>2, LenProperties
  <2>2. s[n] \in Packets
    BY <2>1, ElementOfSeq
  <2> QED
    BY <1>2, <2>2, FrameLen DEF LastPlace
<1> QED
  BY <1>1, <1>2

LEMMA MarkedIs ==
  ASSUME NEW s \in Seq(Packets), NEW x \in Marked(s)
  PROVE  /\ x.frame \in 1..Len(s) /\ s[x.frame] \in Packets
         /\ x.place \in 1..LastPlace(s, x.frame) /\ x.byte = Frame(s[x.frame])[x.place]
<1>1. PICK n \in 1..Len(s) : \E i \in 1..Len(Frame(s[n])) :
         x = [byte |-> Frame(s[n])[i], frame |-> n, place |-> i]
  BY DEF Marked
<1>2. s[n] \in Packets /\ n # 0
  BY ElementOfSeq, LenProperties
<1> QED
  BY <1>1, <1>2 DEF LastPlace

LEMMA IsMarked ==
  ASSUME NEW s \in Seq(Packets), NEW n \in 1..Len(s), NEW i \in 1..Len(Frame(s[n]))
  PROVE  [byte |-> Frame(s[n])[i], frame |-> n, place |-> i] \in Marked(s)
BY DEF Marked

\* A damaged symbol that is left out leaves no gap.
LEMMA Skips ==
  ASSUME NEW s, NEW d, NEW k, NEW x, NEW y, NEW z,
         x.frame \in Nat, y.frame \in Nat, z.frame \in Nat,
         x.place \in Nat, y.place \in Nat, z.place \in Nat,
         Precedes(s, d, k, x, y), Precedes(s, d, k, y, z), y.frame \in d
  PROVE  Precedes(s, d, k, x, z)
<1>1. CASE Follows(s, d, x, y) /\ Follows(s, d, y, z)
  <2>1. Follows(s, d, x, z)
    <3>1. CASE x.frame = y.frame /\ y.frame = z.frame
      BY <1>1, <3>1 DEF Follows
    <3>2. CASE x.frame = y.frame /\ y.frame < z.frame
      BY <1>1, <3>2 DEF Follows, Ends
    <3>3. CASE x.frame < y.frame /\ y.frame = z.frame
      BY <1>1, <3>3 DEF Follows
    <3>4. CASE x.frame < y.frame /\ y.frame < z.frame
      <4>1. /\ Ends(s, d, x) /\ (z.frame \notin d => z.place = 1)
            /\ \A g \in Nat : x.frame < g /\ g < y.frame => g \in d
            /\ \A g \in Nat : y.frame < g /\ g < z.frame => g \in d
        BY <1>1, <3>4 DEF Follows
      <4>2. \A g \in Nat : x.frame < g /\ g < z.frame => g \in d
        BY <4>1
      <4> QED
        BY <3>4, <4>1, <4>2 DEF Follows
    <3> QED
      BY <1>1, <3>1, <3>2, <3>3, <3>4 DEF Follows
  <2> QED
    BY <2>1 DEF Precedes
<1>2. CASE Follows(s, d, x, y) /\ k = "port" /\ z.frame <= y.frame /\ Ends(s, d, y)
  <2>1. x.frame <= y.frame /\ (x.frame # y.frame => Ends(s, d, x))
    BY <1>2 DEF Follows
  <2>2. Ends(s, d, x)
    BY <2>1 DEF Ends
  <2>3. CASE z.frame <= x.frame
    BY <1>2, <2>2, <2>3 DEF Precedes
  <2>4. CASE x.frame < z.frame
    <3>1. \A g \in Nat : x.frame < g /\ g < y.frame => g \in d
      BY <1>2, <2>4 DEF Follows
    <3>2. Follows(s, d, x, z)
      BY <1>2, <2>2, <2>4, <3>1 DEF Follows
    <3> QED
      BY <3>2 DEF Precedes
  <2> QED
    BY <2>3, <2>4
<1>3. CASE Precedes(s, d, k, y, z) /\ k = "port" /\ y.frame <= x.frame /\ Ends(s, d, x)
  <2>1. CASE z.frame <= x.frame
    BY <1>3, <2>1 DEF Precedes
  <2>2. CASE x.frame < z.frame
    <3>1. Follows(s, d, y, z) /\ y.frame < z.frame
      BY <1>3, <2>2 DEF Precedes
    <3>2. (z.frame \notin d => z.place = 1) /\ \A g \in Nat : y.frame < g /\ g < z.frame => g \in d
      BY <3>1 DEF Follows
    <3>3. \A g \in Nat : x.frame < g /\ g < z.frame => g \in d
      BY <1>3, <3>2
    <3> QED
      BY <1>3, <2>2, <3>2, <3>3 DEF Precedes, Follows
  <2> QED
    BY <2>1, <2>2
<1> QED
  BY <1>1, <1>2, <1>3 DEF Precedes

\* More damage, and more frames, change nothing of what is behind.
LEMMA FollowsStays ==
  ASSUME NEW s \in Seq(Packets), NEW d, NEW e, d \subseteq e, NEW t \in Seq(Packets),
         \A n \in 1..Len(s) : t[n] = s[n],
         NEW x, NEW y, x.frame \in 0..Len(s)
  PROVE  /\ Follows(s, d, x, y) => Follows(t, e, x, y)
         /\ \A k : Precedes(s, d, k, x, y) => Precedes(t, e, k, x, y)
<1>1. LastPlace(t, x.frame) = LastPlace(s, x.frame)
  <2>1. x.frame = 0 \/ x.frame \in 1..Len(s)
    BY LenProperties
  <2> QED
    BY <2>1 DEF LastPlace
<1>2. Ends(s, d, x) => Ends(t, e, x)
  BY <1>1 DEF Ends
<1>3. Follows(s, d, x, y) => Follows(t, e, x, y)
  BY <1>2 DEF Follows
<1> QED
  BY <1>2, <1>3 DEF Precedes

LEMMA LinkedStays ==
  ASSUME NEW s \in Seq(Packets), NEW d, NEW e, d \subseteq e, NEW t \in Seq(Packets),
         \A n \in 1..Len(s) : t[n] = s[n],
         NEW k, NEW x, NEW w \in Seq(Marked(s)), NEW y, x.frame \in 0..Len(s),
         Linked(s, d, k, x, w, y)
  PROVE  Linked(t, e, k, x, w, y)
<1> SUFFICES ASSUME NEW i \in 0..Len(w)
             PROVE  Precedes(t, e, k, IF i = 0 THEN x ELSE w[i], IF i = Len(w) THEN y ELSE w[i + 1])
  BY DEF Linked
<1>1. Precedes(s, d, k, IF i = 0 THEN x ELSE w[i], IF i = Len(w) THEN y ELSE w[i + 1])
  BY DEF Linked
<1>2. (IF i = 0 THEN x ELSE w[i]).frame \in 0..Len(s)
  <2>1. CASE i = 0
    BY <2>1
  <2>2. CASE i # 0
    <3>1. i \in 1..Len(w)
      BY <2>2, LenProperties
    <3>2. w[i] \in Marked(s)
      BY <3>1, ElementOfSeq
    <3> QED
      BY <2>2, <3>2, MarkedIs
  <2> QED
    BY <2>1, <2>2
<1> QED
  BY <1>1, <1>2, FollowsStays

\* A wire with something behind it.
LEMMA LinkedOn ==
  ASSUME NEW s \in Seq(Packets), NEW d, NEW k, NEW x, NEW S, NEW w \in Seq(S), NEW v \in Seq(S),
         NEW y, Linked(s, d, k, x, w, FirstOf(v, y)),
         \A i \in 1..Len(v) : Precedes(s, d, k, v[i], IF i = Len(v) THEN y ELSE v[i + 1])
  PROVE  Linked(s, d, k, x, w \o v, y) /\ LastOf(w \o v, x) = LastOf(v, LastOf(w, x))
<1>1. PICK m, n, u : m = Len(w) /\ n = Len(v) /\ u = w \o v
  OBVIOUS
<1>2. /\ u \in Seq(S) /\ Len(u) = m + n /\ m \in Nat /\ n \in Nat
      /\ \A i \in 1..m : u[i] = w[i]
      /\ \A i \in 1..n : u[m + i] = v[i]
  BY <1>1, Joined
<1>3. ASSUME NEW i \in 0..m + n
      PROVE  Precedes(s, d, k, IF i = 0 THEN x ELSE u[i], IF i = m + n THEN y ELSE u[i + 1])
  <2>1. CASE i < m
    <3>1. i \in 0..m /\ i # m /\ i + 1 \in 1..m /\ i # m + n /\ (i # 0 => i \in 1..m)
      BY <1>2, <2>1
    <3>2. Precedes(s, d, k, IF i = 0 THEN x ELSE w[i], w[i + 1])
      BY <1>1, <3>1 DEF Linked
    <3> QED
      BY <1>2, <3>1, <3>2
  <2>2. CASE i = m
    <3>1. Precedes(s, d, k, IF m = 0 THEN x ELSE w[m], FirstOf(v, y))
      BY <1>1, <1>2 DEF Linked
    <3>2. (IF i = 0 THEN x ELSE u[i]) = (IF m = 0 THEN x ELSE w[m])
      <4>1. m # 0 => m \in 1..m
        BY <1>2
      <4> QED
        BY <1>2, <2>2, <4>1
    <3>3. (IF i = m + n THEN y ELSE u[i + 1]) = FirstOf(v, y)
      <4>1. CASE n = 0
        BY <1>1, <1>2, <2>2, <4>1, EmptySeq DEF FirstOf
      <4>2. CASE n # 0
        <5>1. u[m + 1] = v[1] /\ v # <<>> /\ i # m + n
          BY <1>1, <1>2, <2>2, <4>2, EmptySeq
        <5> QED
          BY <2>2, <5>1 DEF FirstOf
      <4> QED
        BY <4>1, <4>2
    <3> QED
      BY <3>1, <3>2, <3>3
  <2>3. CASE i > m
    <3>1. PICK j \in 1..n : i = m + j
      <4>1. i - m \in 1..n /\ i = m + (i - m)
        BY <1>2, <2>3
      <4> QED
        BY <4>1
    <3>2. Precedes(s, d, k, v[j], IF j = n THEN y ELSE v[j + 1])
      BY <1>1
    <3>3. u[i] = v[j] /\ i # 0
      BY <1>2, <3>1
    <3>4. (IF i = m + n THEN y ELSE u[i + 1]) = (IF j = n THEN y ELSE v[j + 1])
      <4>1. CASE j = n
        BY <3>1, <4>1
      <4>2. CASE j # n
        <5>1. m \in Nat /\ n \in Nat
          BY <1>2
        <5>2. j + 1 \in 1..n /\ i + 1 = m + (j + 1) /\ i # m + n
          BY <3>1, <4>2, <5>1
        <5>3. u[m + (j + 1)] = v[j + 1]
          BY <1>2, <5>2
        <5> QED
          BY <4>2, <5>2, <5>3
      <4> QED
        BY <4>1, <4>2
    <3> QED
      BY <3>2, <3>3, <3>4
  <2> QED
    BY <1>2, <2>1, <2>2, <2>3
<1>4. Linked(s, d, k, x, u, y)
  BY <1>2, <1>3 DEF Linked
<1>5. LastOf(u, x) = LastOf(v, LastOf(w, x))
  <2>1. CASE n = 0
    <3>1. v = <<>> /\ u = w
      BY <1>1, <1>2, <2>1, EmptySeq, ConcatEmptySeq
    <3> QED
      BY <3>1 DEF LastOf
  <2>2. CASE n # 0
    <3>1. v # <<>> /\ u # <<>> /\ u[m + n] = v[n]
      BY <1>1, <1>2, <2>2, EmptySeq
    <3> QED
      BY <1>1, <1>2, <3>1 DEF LastOf
  <2> QED
    BY <2>1, <2>2
<1> QED
  BY <1>1, <1>4, <1>5

-----------------------------------------------------------------------------
(* What becomes of the stream *)

LEMMA SamePlace ==
  ASSUME NEW s, NEW d, NEW k, NEW x, NEW y, NEW z, y.frame = z.frame, y.place = z.place
  PROVE  /\ Follows(s, d, x, y) <=> Follows(s, d, x, z)
         /\ Precedes(s, d, k, x, y) <=> Precedes(s, d, k, x, z)
BY DEF Follows, Precedes

LEMMA UpcomingIs ==
  ASSUME NEW s \in Seq(Packets), NEW o, Outstanding(s, o)
  PROVE  /\ Upcoming(s, o).frame \in Nat /\ Upcoming(s, o).place \in Nat \ {0}
         /\ Upcoming(s, o).frame = IF o = <<>> THEN Len(s) + 1 ELSE Len(s)
<1>0. Len(s) \in Nat
  BY LenProperties
<1>1. CASE o = <<>>
  BY <1>0, <1>1 DEF Upcoming
<1>2. CASE o # <<>>
  <2>1. s # <<>> /\ Len(o) \in Nat /\ Len(o) <= Len(Frame(s[Len(s)]))
    BY <1>2, LenProperties DEF Outstanding
  <2>2. Len(Frame(s[Len(s)])) \in Nat
    <3>1. Len(s) \in 1..Len(s)
      BY <1>0, <2>1, EmptySeq
    <3> QED
      BY <3>1, ElementOfSeq, FrameLen
  <2>3. PICK f, r : f = Len(Frame(s[Len(s)])) /\ r = Len(o)
    OBVIOUS
  <2>4. f - r + 1 \in Nat \ {0}
    BY <2>1, <2>2, <2>3
  <2>5. Upcoming(s, o) = [frame |-> Len(s), place |-> f - r + 1]
    BY <1>2, <2>3 DEF Upcoming
  <2> QED
    BY <1>0, <1>2, <2>4, <2>5
<1> QED
  BY <1>1, <1>2

\* The next byte goes where it is expected, and the one after it follows.
LEMMA PutOne ==
  ASSUME NEW s \in Seq(Packets), NEW d \in SUBSET (1..Len(s)), NEW o, Outstanding(s, o), o # <<>>,
         NEW y, y = [byte |-> Head(o), frame |-> Len(s),
                     place |-> Len(Frame(s[Len(s)])) - Len(o) + 1]
  PROVE  /\ y \in Marked(s) /\ y.frame = Upcoming(s, o).frame /\ y.place = Upcoming(s, o).place
         /\ Outstanding(s, Tail(o)) /\ Follows(s, d, y, Upcoming(s, Tail(o)))
         /\ Upcoming(s, Tail(o)).frame <= y.frame + 1
         /\ Len(o) = 1 => Tail(o) = <<>> /\ Ends(s, d, y)
         /\ Tail(o) = <<>> => Len(o) = 1
<1>1. PICK m, f, r : m = Len(s) /\ f = Frame(s[m]) /\ r = Len(o)
  OBVIOUS
<1>2. /\ s # <<>> /\ m \in Nat /\ m \in 1..m /\ s[m] \in Packets
      /\ Len(f) \in Nat /\ Len(f) > 3 /\ LastPlace(s, m) = Len(f)
  <2>1. s # <<>>
    BY DEF Outstanding
  <2>2. m \in Nat /\ m \in 1..m
    BY <1>1, <2>1, EmptySeq, LenProperties
  <2>3. s[m] \in Packets
    BY <1>1, <2>2, ElementOfSeq
  <2> QED
    BY <1>1, <2>1, <2>2, <2>3, FrameLen DEF LastPlace
<1>3. /\ o \in Seq(Symbol(s[m])) /\ r \in Nat /\ r # 0 /\ r <= Len(f)
      /\ \A i \in 1..r : o[i] = f[Len(f) - r + i]
  BY <1>1, EmptySeq, LenProperties DEF Outstanding
<1>4. PICK q : q = Len(f) - r + 1
  OBVIOUS
<1>5. q \in 1..Len(f) /\ 1 \in 1..r
  BY <1>2, <1>3, <1>4
<1>6. y = [byte |-> f[q], frame |-> m, place |-> q]
  <2>1. Head(o) = o[1]
    BY <1>3
  <2> QED
    BY <1>1, <1>3, <1>4, <1>5, <2>1
<1>7. y \in Marked(s) /\ y.frame = m /\ y.place = q
  <2>1. q \in 1..Len(Frame(s[m])) /\ m \in 1..Len(s)
    BY <1>1, <1>2, <1>5
  <2>2. [byte |-> Frame(s[m])[q], frame |-> m, place |-> q] \in Marked(s)
    BY <2>1, IsMarked
  <2> QED
    BY <1>1, <1>6, <2>2
<1>8. PICK t : t = Tail(o)
  OBVIOUS
<1>9. /\ t \in Seq(Symbol(s[m])) /\ Len(t) = r - 1 /\ \A i \in 1..Len(t) : t[i] = o[i + 1]
      /\ (t = <<>> <=> r = 1)
  <2>1. t \in Seq(Symbol(s[m])) /\ Len(t) = r - 1 /\ \A i \in 1..Len(t) : t[i] = o[i + 1]
    BY <1>1, <1>3, <1>8, HeadTailProperties
  <2> QED
    BY <1>3, <2>1, EmptySeq
<1>10. Outstanding(s, t)
  <2>1. ASSUME NEW i \in 1..Len(t) PROVE t[i] = f[Len(f) - Len(t) + i]
    <3>1. i + 1 \in 1..r /\ Len(f) - r + (i + 1) = Len(f) - Len(t) + i
      BY <1>2, <1>3, <1>9
    <3> QED
      BY <1>3, <1>9, <3>1
  <2>2. Len(t) <= Len(f)
    BY <1>2, <1>3, <1>9
  <2> QED
    BY <1>1, <1>2, <1>9, <2>1, <2>2 DEF Outstanding
<1>11. CASE t = <<>>
  <2>1. r = 1 /\ q = Len(f)
    BY <1>2, <1>4, <1>9, <1>11
  <2>2. Upcoming(s, t) = [frame |-> m + 1, place |-> 1]
    BY <1>1, <1>11 DEF Upcoming
  <2>3. Ends(s, d, y)
    BY <1>2, <1>7, <2>1 DEF Ends
  <2>4. Follows(s, d, y, Upcoming(s, t))
    BY <1>2, <1>7, <2>2, <2>3 DEF Follows
  <2>5. Upcoming(s, t).frame <= y.frame + 1
    BY <1>2, <1>7, <2>2
  <2>6. y.frame = Upcoming(s, o).frame /\ y.place = Upcoming(s, o).place
    BY <1>1, <1>4, <1>7 DEF Upcoming
  <2> QED
    BY <1>1, <1>7, <1>8, <1>9, <1>10, <1>11, <2>1, <2>3, <2>4, <2>5, <2>6
<1>12. CASE t # <<>>
  <2>1. Upcoming(s, t) = [frame |-> m, place |-> Len(f) - Len(t) + 1]
    BY <1>1, <1>12 DEF Upcoming
  <2>2. Len(f) - Len(t) + 1 = q + 1 /\ q < q + 1
    BY <1>2, <1>3, <1>4, <1>9
  <2>3. Follows(s, d, y, Upcoming(s, t))
    <3>1. PICK u : u = Upcoming(s, t)
      OBVIOUS
    <3>2. u.frame = y.frame /\ u.place = y.place + 1 /\ y.place < u.place
      BY <1>7, <2>1, <2>2, <3>1
    <3> QED
      BY <3>1, <3>2 DEF Follows
  <2>4. Upcoming(s, t).frame <= y.frame + 1
    BY <1>2, <1>7, <2>1
  <2>5. y.frame = Upcoming(s, o).frame /\ y.place = Upcoming(s, o).place
    BY <1>1, <1>4, <1>7 DEF Upcoming
  <2> QED
    BY <1>1, <1>7, <1>8, <1>9, <1>10, <1>12, <2>3, <2>4, <2>5
<1> QED
  BY <1>11, <1>12

\* The first symbol of a wire is taken off, and read or lost.
LEMMA LinkedTail ==
  ASSUME NEW s \in Seq(Packets), NEW d, NEW k, NEW x, NEW S, NEW w \in Seq(S), w # <<>>, NEW y,
         Linked(s, d, k, x, w, y)
  PROVE  /\ Precedes(s, d, k, x, Head(w)) /\ Head(w) \in S /\ Tail(w) \in Seq(S)
         /\ Linked(s, d, k, Head(w), Tail(w), y)
         /\ LastOf(w, x) = LastOf(Tail(w), Head(w))
         /\ \A z : Precedes(s, d, k, z, FirstOf(Tail(w), y)) => Linked(s, d, k, z, Tail(w), y)
         /\ Precedes(s, d, k, Head(w), FirstOf(Tail(w), y))
<1>1. PICK n, t : n = Len(w) /\ t = Tail(w)
  OBVIOUS
<1>2. /\ n \in Nat /\ n # 0 /\ Head(w) = w[1] /\ Head(w) \in S
      /\ t \in Seq(S) /\ Len(t) = n - 1 /\ \A i \in 1..n - 1 : t[i] = w[i + 1]
  BY <1>1, EmptySeq, LenProperties, HeadTailProperties
<1>3. \A i \in 0..n : Precedes(s, d, k, IF i = 0 THEN x ELSE w[i], IF i = n THEN y ELSE w[i + 1])
  BY <1>1 DEF Linked
<1>4. Precedes(s, d, k, x, Head(w))
  <2>1. 0 \in 0..n /\ 0 # n /\ 0 + 1 = 1
    BY <1>2
  <2> QED
    BY <1>2, <1>3, <2>1
<1>5. ASSUME NEW i \in 1..n - 1
      PROVE  Precedes(s, d, k, t[i], IF i = n - 1 THEN y ELSE t[i + 1])
  <2>1. i + 1 \in 0..n /\ i + 1 # 0 /\ (i = n - 1 <=> i + 1 = n)
    BY <1>2
  <2>2. Precedes(s, d, k, w[i + 1], IF i = n - 1 THEN y ELSE w[(i + 1) + 1])
    BY <1>3, <2>1
  <2>3. i # n - 1 => t[i + 1] = w[(i + 1) + 1]
    <3>1. i # n - 1 => i + 1 \in 1..n - 1
      BY <1>2
    <3> QED
      BY <1>2, <3>1
  <2> QED
    BY <1>2, <2>2, <2>3
<1>6. FirstOf(t, y) = IF n = 1 THEN y ELSE w[2]
  <2>1. CASE n = 1
    BY <1>2, <2>1, EmptySeq DEF FirstOf
  <2>2. CASE n # 1
    <3>1. 1 \in 1..n - 1 /\ 1 + 1 = 2 /\ t # <<>>
      BY <1>2, <2>2, EmptySeq
    <3>2. t[1] = w[2]
      BY <1>2, <3>1
    <3> QED
      BY <2>2, <3>1, <3>2 DEF FirstOf
  <2> QED
    BY <2>1, <2>2
<1>7. Precedes(s, d, k, Head(w), FirstOf(t, y))
  <2>1. 1 \in 0..n /\ 1 + 1 = 2
    BY <1>2
  <2> QED
    BY <1>2, <1>3, <1>6, <2>1
<1>8. ASSUME NEW z, Precedes(s, d, k, z, FirstOf(t, y)) PROVE Linked(s, d, k, z, t, y)
  <2> SUFFICES ASSUME NEW i \in 0..n - 1
               PROVE  Precedes(s, d, k, IF i = 0 THEN z ELSE t[i], IF i = n - 1 THEN y ELSE t[i + 1])
    BY <1>2 DEF Linked
  <2>1. CASE i = 0
    <3>1. (IF i = n - 1 THEN y ELSE t[i + 1]) = FirstOf(t, y)
      <4>1. t = <<>> <=> n - 1 = 0
        BY <1>2, EmptySeq
      <4> QED
        BY <1>2, <2>1, <4>1 DEF FirstOf
    <3> QED
      BY <1>8, <2>1, <3>1
  <2>2. CASE i # 0
    <3>1. i \in 1..n - 1
      BY <1>2, <2>2
    <3> QED
      BY <1>5, <2>2, <3>1
  <2> QED
    BY <2>1, <2>2
<1>9. LastOf(w, x) = LastOf(t, Head(w))
  <2>1. CASE n = 1
    <3>1. t = <<>>
      BY <1>2, <2>1, EmptySeq
    <3> QED
      BY <1>1, <1>2, <2>1, <3>1 DEF LastOf
  <2>2. CASE n # 1
    <3>1. t # <<>> /\ n - 1 \in 1..n - 1 /\ (n - 1) + 1 = n
      BY <1>2, <2>2, EmptySeq
    <3>2. t[n - 1] = w[n]
      BY <1>2, <3>1
    <3> QED
      BY <1>1, <1>2, <3>1, <3>2 DEF LastOf
  <2> QED
    BY <2>1, <2>2
<1> QED
  BY <1>1, <1>2, <1>4, <1>7, <1>8, <1>9

LEMMA UpcomingNat ==
  ASSUME NEW s, NEW d, NEW k, NEW x, NEW w, NEW b, NEW o, Stream(s, d, k, x, w, b, o),
         NEW v \in Seq(Marked(s))
  PROVE  LET y == FirstOf(v, FirstOf(b, Upcoming(s, o)))
         IN y.frame \in Nat /\ y.place \in Nat
<1>1. /\ s \in Seq(Packets) /\ b \in Seq(Marked(s))
      /\ Upcoming(s, o).frame \in Nat /\ Upcoming(s, o).place \in Nat
  BY UpcomingIs DEF Stream
<1>2. \A u \in Seq(Marked(s)) : u # <<>> => u[1].frame \in Nat /\ u[1].place \in Nat
  <2> SUFFICES ASSUME NEW u \in Seq(Marked(s)), u # <<>>
               PROVE  u[1].frame \in Nat /\ u[1].place \in Nat
    OBVIOUS
  <2>1. 1 \in 1..Len(u)
    BY EmptySeq
  <2>2. u[1] \in Marked(s)
    BY <2>1, ElementOfSeq
  <2> QED
    BY <1>1, <2>2, MarkedIs
<1> QED
  BY <1>1, <1>2 DEF FirstOf

\* The reader takes a symbol.
LEMMA StreamTaken ==
  ASSUME NEW s, NEW d, NEW k, NEW x, NEW w, NEW b, NEW o, Stream(s, d, k, x, w, b, o), w # <<>>
  PROVE  /\ Precedes(s, d, k, x, Head(w)) /\ Head(w) \in Marked(s)
         /\ Stream(s, d, k, Head(w), Tail(w), b, o)
<1>1. PICK y : y = FirstOf(b, Upcoming(s, o))
  OBVIOUS
<1>2. s \in Seq(Packets) /\ w \in Seq(Marked(s)) /\ Linked(s, d, k, x, w, y)
  BY <1>1 DEF Stream
<1>3. PICK S : S = Marked(s)
  OBVIOUS
<1>4. /\ Precedes(s, d, k, x, Head(w)) /\ Head(w) \in S /\ Tail(w) \in Seq(S)
      /\ Linked(s, d, k, Head(w), Tail(w), y)
      /\ LastOf(w, x) = LastOf(Tail(w), Head(w))
  <2>1. w \in Seq(S) /\ w # <<>>
    BY <1>2, <1>3
  <2> QED
    BY <1>2, <2>1, LinkedTail
<1> QED
  BY <1>1, <1>3, <1>4 DEF Stream

\* A symbol is lost.
LEMMA StreamLost ==
  ASSUME NEW s, NEW d, NEW k, NEW x, NEW w, NEW b, NEW o, Stream(s, d, k, x, w, b, o), w # <<>>,
         x.frame \in 0..Len(s), x.place \in Nat, NEW e, e = d \cup {Head(w).frame}
  PROVE  Stream(s, e, k, x, Tail(w), b, o)
<1>1. PICK y, u : y = Head(w) /\ u = FirstOf(b, Upcoming(s, o))
  OBVIOUS
<1>2. /\ s \in Seq(Packets) /\ w \in Seq(Marked(s)) /\ b \in Seq(Marked(s)) /\ Outstanding(s, o)
      /\ Linked(s, d, k, x, w, u) /\ d \in SUBSET (1..Len(s))
  BY <1>1 DEF Stream
<1>3. Linked(s, e, k, x, w, u)
  BY <1>2, LinkedStays
<1>4. /\ Precedes(s, e, k, x, y) /\ y \in Marked(s) /\ Tail(w) \in Seq(Marked(s))
      /\ LastOf(w, x) = LastOf(Tail(w), y)
      /\ \A z : Precedes(s, e, k, z, FirstOf(Tail(w), u)) => Linked(s, e, k, z, Tail(w), u)
      /\ Precedes(s, e, k, y, FirstOf(Tail(w), u))
  <2>1. PICK S : S = Marked(s)
    OBVIOUS
  <2>2. w \in Seq(S) /\ w # <<>>
    BY <1>2, <2>1
  <2>3. /\ Precedes(s, e, k, x, Head(w)) /\ Head(w) \in S /\ Tail(w) \in Seq(S)
        /\ Linked(s, e, k, Head(w), Tail(w), u)
        /\ LastOf(w, x) = LastOf(Tail(w), Head(w))
    BY <1>2, <1>3, <2>2, LinkedTail
  <2>5. Precedes(s, e, k, Head(w), FirstOf(Tail(w), u))
    BY <1>2, <1>3, <2>2, LinkedTail
  <2>4. ASSUME NEW z, Precedes(s, e, k, z, FirstOf(Tail(w), u)) PROVE Linked(s, e, k, z, Tail(w), u)
    BY <1>2, <1>3, <2>2, <2>4, LinkedTail
  <2> QED
    BY <1>1, <2>1, <2>3, <2>4, <2>5
<1>5. y.frame \in 1..Len(s) /\ y.place \in Nat /\ Len(s) \in Nat
  <2>1. y.frame \in 1..Len(s) /\ y.place \in 1..LastPlace(s, y.frame)
    BY <1>2, <1>4, MarkedIs
  <2> QED
    BY <1>2, <2>1, LenProperties
<1>6. Linked(s, e, k, x, Tail(w), u)
  <2>1. PICK z : z = FirstOf(Tail(w), u)
    OBVIOUS
  <2>2. z.frame \in Nat /\ z.place \in Nat
    BY <1>1, <1>4, <2>1, UpcomingNat
  <2>3. x.frame \in Nat /\ y.frame \in e
    BY <1>1, <1>5
  <2>4. Precedes(s, e, k, x, z)
    BY <1>4, <1>5, <2>1, <2>2, <2>3, Skips
  <2> QED
    BY <1>4, <2>1, <2>4
<1>7. ASSUME NEW i \in 1..Len(b)
      PROVE  Follows(s, e, b[i], IF i = Len(b) THEN Upcoming(s, o) ELSE b[i + 1])
  <2>1. Follows(s, d, b[i], IF i = Len(b) THEN Upcoming(s, o) ELSE b[i + 1])
    BY DEF Stream
  <2>2. b[i] \in Marked(s)
    BY <1>2, ElementOfSeq
  <2>3. b[i].frame \in 0..Len(s)
    BY <1>2, <2>2, MarkedIs
  <2>4. d \subseteq e /\ \A n \in 1..Len(s) : s[n] = s[n]
    OBVIOUS
  <2>5. PICK a, z : a = b[i] /\ z = IF i = Len(b) THEN Upcoming(s, o) ELSE b[i + 1]
    OBVIOUS
  <2>6. Follows(s, d, a, z) /\ a.frame \in 0..Len(s)
    BY <2>1, <2>3, <2>5
  <2>7. Follows(s, e, a, z)
    BY <1>2, <2>4, <2>6, FollowsStays
  <2> QED
    BY <2>5, <2>7
<1>8. ASSUME NEW g \in Nat, LastOf(Tail(w), x).frame < g, g < Upcoming(s, o).frame PROVE g \in e
  <2>1. \A h \in Nat : LastOf(w, x).frame < h /\ h < Upcoming(s, o).frame => h \in d
    BY DEF Stream
  <2>2. CASE Tail(w) # <<>>
    BY <1>4, <1>8, <2>1, <2>2 DEF LastOf
  <2>3. CASE Tail(w) = <<>>
    <3>1. LastOf(w, x) = y /\ x.frame < g
      BY <1>4, <1>8, <2>3 DEF LastOf
    <3>2. CASE y.frame < g
      BY <1>8, <2>1, <3>1, <3>2
    <3>3. CASE y.frame = g
      BY <1>1, <3>3
    <3>4. CASE g < y.frame
      <4>1. Follows(s, e, x, y) /\ x.frame < y.frame
        BY <1>4, <1>5, <3>1, <3>4 DEF Precedes
      <4> QED
        BY <3>1, <3>4, <4>1 DEF Follows
    <3> QED
      BY <1>5, <3>2, <3>3, <3>4
  <2> QED
    BY <2>2, <2>3
<1>9. e \in SUBSET (1..Len(s))
  BY <1>1, <1>2, <1>5
<1> QED
  BY <1>1, <1>2, <1>4, <1>6, <1>7, <1>8, <1>9 DEF Stream

\* A frame is begun.
LEMMA StreamSent ==
  ASSUME NEW s, NEW d, NEW k, NEW x, NEW w, NEW b, Stream(s, d, k, x, w, b, <<>>),
         x.frame \in 0..Len(s), NEW p \in Packets, NEW t, t = Append(s, p)
  PROVE  Stream(t, d, k, x, w, b, Frame(p)) /\ Marked(s) \subseteq Marked(t)
<1>1. PICK n, f : n = Len(s) /\ f = Frame(p)
  OBVIOUS
<1>2. s \in Seq(Packets) /\ n \in Nat /\ Len(f) \in Nat /\ Len(f) > 3 /\ f \in Seq(Symbol(p))
      /\ w \in Seq(Marked(s)) /\ b \in Seq(Marked(s)) /\ d \in SUBSET (1..n)
  BY <1>1, FrameLen, FrameShape, LenProperties DEF Stream
<1>3. /\ t \in Seq(Packets) /\ Len(t) = n + 1 /\ t[n + 1] = p /\ t # <<>>
      /\ \A i \in 1..n : t[i] = s[i]
  BY <1>1, <1>2, AppendProperties
<1>4. f # <<>>
  BY <1>2, EmptySeq
<1>5. Marked(s) \subseteq Marked(t)
  <2> SUFFICES ASSUME NEW y \in Marked(s) PROVE y \in Marked(t)
    OBVIOUS
  <2>1. PICK m \in 1..n : \E i \in 1..Len(Frame(s[m])) :
           y = [byte |-> Frame(s[m])[i], frame |-> m, place |-> i]
    BY <1>1 DEF Marked
  <2>2. t[m] = s[m] /\ m \in 1..Len(t)
    BY <1>2, <1>3
  <2>3. PICK i \in 1..Len(Frame(t[m])) : y = [byte |-> Frame(t[m])[i], frame |-> m, place |-> i]
    BY <2>1, <2>2
  <2> QED
    BY <2>2, <2>3 DEF Marked
<1>6. w \in Seq(Marked(t)) /\ b \in Seq(Marked(t))
  <2>1. \A S, T : S \subseteq T => Seq(S) \subseteq Seq(T)
    OBVIOUS
  <2> QED
    BY <1>2, <1>5, <2>1
<1>7. Upcoming(t, f) = Upcoming(s, <<>>)
  <2>1. Len(f) - Len(f) + 1 = 1
    BY <1>2
  <2> QED
    BY <1>1, <1>3, <1>4, <2>1 DEF Upcoming
<1>8. Outstanding(t, f)
  <2>1. Len(f) <= Len(f) /\ \A i \in 1..Len(f) : Len(f) - Len(f) + i = i
    BY <1>2
  <2> QED
    BY <1>1, <1>2, <1>3, <2>1 DEF Outstanding
<1>9. Linked(t, d, k, x, w, FirstOf(b, Upcoming(t, f)))
  <2>1. Linked(s, d, k, x, w, FirstOf(b, Upcoming(t, f)))
    BY <1>7 DEF Stream
  <2> QED
    BY <1>1, <1>2, <1>3, <2>1, LinkedStays
<1>10. ASSUME NEW i \in 1..Len(b)
       PROVE  Follows(t, d, b[i], IF i = Len(b) THEN Upcoming(t, f) ELSE b[i + 1])
  <2>1. Follows(s, d, b[i], IF i = Len(b) THEN Upcoming(t, f) ELSE b[i + 1])
    BY <1>7 DEF Stream
  <2>2. b[i] \in Marked(s)
    BY <1>2, ElementOfSeq
  <2>3. b[i].frame \in 0..Len(s)
    BY <1>2, <2>2, MarkedIs
  <2>4. d \subseteq d /\ \A m \in 1..Len(s) : t[m] = s[m]
    BY <1>1, <1>3
  <2>5. PICK a, z : a = b[i] /\ z = IF i = Len(b) THEN Upcoming(t, f) ELSE b[i + 1]
    OBVIOUS
  <2>6. Follows(s, d, a, z) /\ a.frame \in 0..Len(s)
    BY <2>1, <2>3, <2>5
  <2>7. Follows(t, d, a, z)
    BY <1>2, <1>3, <2>4, <2>6, FollowsStays
  <2> QED
    BY <2>5, <2>7
<1>11. \A g \in Nat : LastOf(w, x).frame < g /\ g < Upcoming(t, f).frame => g \in d
  BY <1>7 DEF Stream
<1>12. d \in SUBSET (1..Len(t))
  BY <1>2, <1>3
<1> QED
  BY <1>1, <1>3, <1>5, <1>6, <1>8, <1>9, <1>10, <1>11, <1>12 DEF Stream

\* What a wire leads to may be named by its place.
LEMMA LinkedSame ==
  ASSUME NEW s, NEW d, NEW k, NEW x, NEW w, NEW y, NEW z, y.frame = z.frame, y.place = z.place,
         Linked(s, d, k, x, w, y)
  PROVE  Linked(s, d, k, x, w, z)
<1> SUFFICES ASSUME NEW i \in 0..Len(w)
             PROVE  Precedes(s, d, k, IF i = 0 THEN x ELSE w[i], IF i = Len(w) THEN z ELSE w[i + 1])
  BY DEF Linked
<1>1. Precedes(s, d, k, IF i = 0 THEN x ELSE w[i], IF i = Len(w) THEN y ELSE w[i + 1])
  BY DEF Linked
<1> QED
  BY <1>1, SamePlace

\* The queue to USB takes a byte.
LEMMA StreamPut ==
  ASSUME NEW s, NEW d, NEW k, NEW x, NEW w, NEW o, Stream(s, d, k, x, w, <<>>, o), o # <<>>,
         NEW y, y = [byte |-> Head(o), frame |-> Len(s),
                     place |-> Len(Frame(s[Len(s)])) - Len(o) + 1]
  PROVE  Stream(s, d, k, x, Append(w, y), <<>>, Tail(o))
<1>1. /\ s \in Seq(Packets) /\ d \in SUBSET (1..Len(s)) /\ Outstanding(s, o)
      /\ w \in Seq(Marked(s)) /\ Linked(s, d, k, x, w, Upcoming(s, o))
  BY DEF Stream, FirstOf
<1>2. /\ y \in Marked(s) /\ y.frame = Upcoming(s, o).frame /\ y.place = Upcoming(s, o).place
      /\ Outstanding(s, Tail(o)) /\ Follows(s, d, y, Upcoming(s, Tail(o)))
      /\ Upcoming(s, Tail(o)).frame <= y.frame + 1
  BY <1>1, PutOne
<1>3. PICK u, v : u = Upcoming(s, Tail(o)) /\ v = <<y>>
  OBVIOUS
<1>4. v \in Seq(Marked(s)) /\ v # <<>> /\ Len(v) = 1 /\ v[1] = y /\ Append(w, y) = w \o v
  <2>1. v \in Seq(Marked(s)) /\ v # <<>> /\ Len(v) = 1 /\ v[1] = y
    BY <1>2, <1>3
  <2>2. PICK S : S = Marked(s)
    OBVIOUS
  <2>3. w \in Seq(S) /\ y \in S
    BY <1>1, <1>2, <2>2
  <2>4. Append(w, y) = w \o <<y>>
    BY <2>3, AppendIsConcat
  <2> QED
    BY <1>3, <2>1, <2>4
<1>5. Linked(s, d, k, x, w, FirstOf(v, u))
  <2>1. Linked(s, d, k, x, w, y)
    BY <1>1, <1>2, LinkedSame
  <2> QED
    BY <1>4, <2>1 DEF FirstOf
<1>6. \A i \in 1..Len(v) : Precedes(s, d, k, v[i], IF i = Len(v) THEN u ELSE v[i + 1])
  BY <1>2, <1>3, <1>4 DEF Precedes
<1>7. Linked(s, d, k, x, w \o v, u) /\ LastOf(w \o v, x) = y
  <2>1. Linked(s, d, k, x, w \o v, u) /\ LastOf(w \o v, x) = LastOf(v, LastOf(w, x))
    BY <1>1, <1>4, <1>5, <1>6, LinkedOn
  <2> QED
    BY <1>4, <2>1 DEF LastOf
<1>8. w \o v \in Seq(Marked(s))
  BY <1>1, <1>4, ConcatProperties
<1>9. y.frame \in Nat /\ u.frame \in Nat
  BY <1>1, <1>2, <1>3, UpcomingIs
<1>10. \A g \in Nat : ~(y.frame < g /\ g < u.frame)
  BY <1>2, <1>3, <1>9
<1>11. <<>> \in Seq(Marked(s)) /\ Len(<<>>) = 0
  BY EmptySeq
<1>12. Stream(s, d, k, x, w \o v, <<>>, Tail(o))
  <2>1. FirstOf(<<>>, u) = u
    BY DEF FirstOf
  <2>2. Linked(s, d, k, x, w \o v, FirstOf(<<>>, Upcoming(s, Tail(o))))
    BY <1>3, <1>7, <2>1
  <2>3. \A g \in Nat : LastOf(w \o v, x).frame < g /\ g < Upcoming(s, Tail(o)).frame => g \in d
    BY <1>3, <1>7, <1>10
  <2> QED
    BY <1>1, <1>2, <1>8, <1>11, <2>2, <2>3 DEF Stream
<1> QED
  BY <1>4, <1>12

\* It is full, and the rest of the frame is not put.
LEMMA StreamCut ==
  ASSUME NEW s, NEW d, NEW k, NEW x, NEW w, NEW o, Stream(s, d, k, x, w, <<>>, o), o # <<>>,
         x.frame \in 0..Len(s), NEW e, e = d \cup {Len(s)}
  PROVE  Stream(s, e, k, x, w, <<>>, <<>>)
<1>1. /\ s \in Seq(Packets) /\ d \in SUBSET (1..Len(s)) /\ Outstanding(s, o)
      /\ w \in Seq(Marked(s)) /\ Linked(s, d, k, x, w, Upcoming(s, o))
  BY DEF Stream, FirstOf
<1>2. Len(s) \in Nat /\ Len(s) # 0 /\ Upcoming(s, o).frame = Len(s)
  <2>1. s # <<>>
    BY <1>1 DEF Outstanding
  <2> QED
    BY <1>1, <2>1, EmptySeq, UpcomingIs
<1>3. PICK u : u = Upcoming(s, <<>>)
  OBVIOUS
<1>4. u.frame = Len(s) + 1 /\ u.place = 1 /\ u = [frame |-> Len(s) + 1, place |-> 1]
  BY <1>3 DEF Upcoming
<1>5. Linked(s, e, k, x, w, Upcoming(s, o))
  BY <1>1, LinkedStays
<1>6. Linked(s, e, k, x, w, u)
  <2> SUFFICES ASSUME NEW i \in 0..Len(w)
               PROVE  Precedes(s, e, k, IF i = 0 THEN x ELSE w[i], IF i = Len(w) THEN u ELSE w[i + 1])
    BY DEF Linked
  <2>1. Precedes(s, e, k, IF i = 0 THEN x ELSE w[i],
                 IF i = Len(w) THEN Upcoming(s, o) ELSE w[i + 1])
    BY <1>5 DEF Linked
  <2>2. CASE i # Len(w)
    BY <2>1, <2>2
  <2>3. CASE i = Len(w)
    <3>1. PICK y : y = IF i = 0 THEN x ELSE w[i]
      OBVIOUS
    <3>2. y.frame \in 0..Len(s)
      <4>1. CASE i = 0
        BY <3>1, <4>1
      <4>2. CASE i # 0
        <5>1. i \in 1..Len(w)
          BY <1>1, <4>2, LenProperties
        <5>2. w[i] \in Marked(s)
          BY <1>1, <5>1, ElementOfSeq
        <5> QED
          BY <1>1, <3>1, <4>2, <5>2, MarkedIs
      <4> QED
        BY <4>1, <4>2
    <3>3. Precedes(s, e, k, y, Upcoming(s, o))
      BY <2>1, <2>3, <3>1
    <3>4. Ends(s, e, y)
      <4>1. CASE y.frame = Len(s)
        BY <4>1 DEF Ends
      <4>2. CASE y.frame < Len(s)
        BY <1>2, <3>3, <4>2 DEF Precedes, Follows
      <4> QED
        BY <1>2, <3>2, <4>1, <4>2
    <3>5. \A g \in Nat : y.frame < g /\ g < u.frame => g \in e
      <4> SUFFICES ASSUME NEW g \in Nat, y.frame < g, g < u.frame PROVE g \in e
        OBVIOUS
      <4>1. CASE g = Len(s)
        BY <4>1
      <4>2. CASE g < Len(s)
        BY <1>2, <3>2, <3>3, <4>2 DEF Precedes, Follows
      <4> QED
        BY <1>2, <1>4, <4>1, <4>2
    <3>6. y.frame < u.frame
      BY <1>2, <1>4, <3>2
    <3>7. Precedes(s, e, k, y, u)
      BY <1>4, <3>4, <3>5, <3>6 DEF Precedes, Follows
    <3> QED
      BY <2>3, <3>1, <3>7
  <2> QED
    BY <2>2, <2>3
<1>7. ASSUME NEW g \in Nat, LastOf(w, x).frame < g, g < u.frame PROVE g \in e
  <2>1. \A h \in Nat : LastOf(w, x).frame < h /\ h < Len(s) => h \in d
    BY <1>2 DEF Stream
  <2>2. g = Len(s) \/ g < Len(s)
    BY <1>2, <1>4, <1>7
  <2> QED
    BY <1>7, <2>1, <2>2
<1>8. <<>> \in Seq(Marked(s)) /\ Len(<<>>) = 0 /\ e \in SUBSET (1..Len(s))
  <2>1. Len(s) \in 1..Len(s)
    BY <1>2
  <2> QED
    BY <1>1, <2>1, EmptySeq
<1> QED
  BY <1>1, <1>3, <1>6, <1>7, <1>8 DEF Stream, FirstOf, Outstanding

ByteOf(s, o) == [byte |-> Head(o), frame |-> Len(s),
                 place |-> Len(Frame(s[Len(s)])) - Len(o) + 1]

\* What is in the buffer is written.
LEMMA StreamWritten ==
  ASSUME NEW s, NEW d, NEW k, NEW x, NEW w, NEW b, NEW o, Stream(s, d, k, x, w, b, o)
  PROVE  Stream(s, d, k, x, w \o b, <<>>, o)
<1>1. PICK u, S : u = Upcoming(s, o) /\ S = Marked(s)
  OBVIOUS
<1>2. /\ w \in Seq(S) /\ b \in Seq(S) /\ s \in Seq(Packets) /\ Outstanding(s, o)
      /\ Linked(s, d, k, x, w, FirstOf(b, u))
      /\ \A i \in 1..Len(b) : Follows(s, d, b[i], IF i = Len(b) THEN u ELSE b[i + 1])
  BY <1>1 DEF Stream
<1>3. \A i \in 1..Len(b) : Precedes(s, d, k, b[i], IF i = Len(b) THEN u ELSE b[i + 1])
  BY <1>2 DEF Precedes
<1>4. Linked(s, d, k, x, w \o b, u) /\ LastOf(w \o b, x) = LastOf(b, LastOf(w, x))
  BY <1>2, <1>3, LinkedOn
<1>5. w \o b \in Seq(S)
  BY <1>2, ConcatProperties
<1>6. \A g \in Nat : LastOf(w \o b, x).frame < g /\ g < u.frame => g \in d
  <2>1. CASE b = <<>>
    BY <1>1, <1>4, <2>1 DEF Stream, LastOf
  <2>2. CASE b # <<>>
    <3>1. PICK n : n = Len(b)
      OBVIOUS
    <3>2. n \in 1..n
      BY <1>2, <2>2, <3>1, EmptySeq, LenProperties
    <3>3. Follows(s, d, b[n], u) /\ LastOf(w \o b, x) = b[n]
      BY <1>2, <1>4, <2>2, <3>1, <3>2 DEF LastOf
    <3>4. b[n].frame \in Nat
      <4>1. b[n] \in Marked(s)
        BY <1>1, <1>2, <3>1, <3>2, ElementOfSeq
      <4> QED
        BY <1>2, <4>1, MarkedIs
    <3> QED
      BY <3>3, <3>4 DEF Follows
  <2> QED
    BY <2>1, <2>2
<1>7. <<>> \in Seq(S) /\ Len(<<>>) = 0 /\ FirstOf(<<>>, u) = u
  BY EmptySeq DEF FirstOf
<1> QED
  BY <1>1, <1>4, <1>5, <1>6, <1>7 DEF Stream

\* The buffer c ends with the byte put last, and the bytes o are to come.
Keeps(s, d, k, x, w, o, c) ==
    /\ c \in Seq(Marked(s)) /\ c # <<>>
    /\ Linked(s, d, k, x, w, c[1])
    /\ \A i \in 1..Len(c) : Follows(s, d, c[i], IF i = Len(c) THEN Upcoming(s, o) ELSE c[i + 1])

LEMMA KeptLinks ==
  ASSUME NEW s, NEW d, NEW k, NEW x, NEW w, NEW b, NEW o, Stream(s, d, k, x, w, b, o), o # <<>>
  PROVE  Keeps(s, d, k, x, w, Tail(o), Append(b, ByteOf(s, o)))
<1>0. PICK y, c : y = ByteOf(s, o) /\ c = Append(b, y)
  OBVIOUS
<1>1. PICK u, S, n : u = Upcoming(s, o) /\ S = Marked(s) /\ n = Len(b)
  OBVIOUS
<1>2. /\ b \in Seq(S) /\ s \in Seq(Packets) /\ Outstanding(s, o) /\ d \in SUBSET (1..Len(s))
      /\ Linked(s, d, k, x, w, FirstOf(b, u)) /\ n \in Nat
      /\ \A i \in 1..n : Follows(s, d, b[i], IF i = n THEN u ELSE b[i + 1])
  BY <1>1, LenProperties DEF Stream
<1>3. /\ y \in S /\ y.frame = u.frame /\ y.place = u.place
      /\ Follows(s, d, y, Upcoming(s, Tail(o)))
  BY <1>0, <1>1, <1>2, PutOne DEF ByteOf
<1>4. /\ c \in Seq(S) /\ Len(c) = n + 1 /\ c[n + 1] = y
      /\ \A i \in 1..n : c[i] = b[i]
  BY <1>0, <1>1, <1>2, <1>3, AppendProperties
<1>5. c # <<>> /\ c[Len(c)] = y
  <2>1. Len(c) # 0
    BY <1>2, <1>4
  <2> QED
    BY <1>4, <2>1, EmptySeq
<1>6. Linked(s, d, k, x, w, c[1])
  <2>1. CASE n = 0
    <3>0. n + 1 = 1
      BY <2>1
    <3>1. b = <<>> /\ c[1] = y
      BY <1>1, <1>2, <1>4, <2>1, <3>0, EmptySeq
    <3> QED
      BY <1>2, <1>3, <3>1, LinkedSame DEF FirstOf
  <2>2. CASE n # 0
    <3>1. 1 \in 1..n /\ b # <<>>
      BY <1>1, <1>2, <2>2, EmptySeq
    <3> QED
      BY <1>2, <1>4, <3>1 DEF FirstOf
  <2> QED
    BY <2>1, <2>2
<1>7. ASSUME NEW i \in 1..n + 1
      PROVE  Follows(s, d, c[i], IF i = n + 1 THEN Upcoming(s, Tail(o)) ELSE c[i + 1])
  <2>1. CASE i = n + 1
    BY <1>3, <1>4, <2>1
  <2>2. CASE i = n
    <3>1. i \in 1..n /\ i # n + 1 /\ i + 1 = n + 1
      BY <1>2, <2>2
    <3>2. Follows(s, d, b[i], u)
      BY <1>2, <2>2, <3>1
    <3>3. Follows(s, d, b[i], y)
      BY <1>3, <3>2, SamePlace
    <3> QED
      BY <1>4, <3>1, <3>3
  <2>3. CASE i < n
    <3>1. i \in 1..n /\ i + 1 \in 1..n /\ i # n + 1 /\ i # n
      BY <1>2, <2>3
    <3> QED
      BY <1>2, <1>4, <3>1
  <2>4. i = n + 1 \/ i = n \/ i < n
    BY <1>2
  <2> QED
    BY <2>1, <2>2, <2>3, <2>4
<1> QED
  BY <1>0, <1>1, <1>4, <1>5, <1>6, <1>7 DEF Keeps

\* A byte of a frame stays in the buffer.
LEMMA StreamKept ==
  ASSUME NEW s, NEW d, NEW k, NEW x, NEW w, NEW b, NEW o, Stream(s, d, k, x, w, b, o), o # <<>>,
         NEW y, y = ByteOf(s, o),
         Len(o) # 1
  PROVE  Stream(s, d, k, x, w, Append(b, y), Tail(o))
<1>1. PICK c : c = Append(b, y)
  OBVIOUS
<1>2. s \in Seq(Packets) /\ d \in SUBSET (1..Len(s)) /\ Outstanding(s, o) /\ w \in Seq(Marked(s))
  BY DEF Stream
<1>3. /\ c \in Seq(Marked(s)) /\ c # <<>>
      /\ Linked(s, d, k, x, w, c[1])
      /\ \A i \in 1..Len(c) : Follows(s, d, c[i], IF i = Len(c) THEN Upcoming(s, Tail(o))
                                                               ELSE c[i + 1])
  <2>1. Keeps(s, d, k, x, w, Tail(o), Append(b, ByteOf(s, o)))
    BY KeptLinks
  <2> QED
    BY <1>1, <2>1 DEF Keeps
<1>4. Outstanding(s, Tail(o)) /\ Tail(o) # <<>>
  BY <1>2, PutOne DEF ByteOf
<1>5. Upcoming(s, Tail(o)).frame = Upcoming(s, o).frame
  BY <1>2, <1>4, UpcomingIs
<1>6. FirstOf(c, Upcoming(s, Tail(o))) = c[1]
  BY <1>3 DEF FirstOf
<1>7. \A g \in Nat : LastOf(w, x).frame < g /\ g < Upcoming(s, Tail(o)).frame => g \in d
  BY <1>5 DEF Stream
<1>8. Stream(s, d, k, x, w, c, Tail(o))
  BY <1>2, <1>3, <1>4, <1>6, <1>7 DEF Stream
<1> QED
  BY <1>1, <1>8

\* The last byte of a frame is written, with what was in the buffer; a port keeps it.
LEMMA StreamFlushed ==
  ASSUME NEW s, NEW d, NEW k, NEW x, NEW w, NEW b, NEW o, Stream(s, d, k, x, w, b, o), o # <<>>,
         NEW y, y = ByteOf(s, o),
         Len(o) = 1, k \in {"file", "port"}
  PROVE  Stream(s, d, k, x, w \o Append(b, y), IF k = "file" THEN <<>> ELSE Append(b, y), Tail(o))
<1>1. PICK c, S : c = Append(b, y) /\ S = Marked(s)
  OBVIOUS
<1>2. s \in Seq(Packets) /\ d \in SUBSET (1..Len(s)) /\ Outstanding(s, o) /\ w \in Seq(S)
  BY <1>1 DEF Stream
<1>3. /\ c \in Seq(S) /\ c # <<>> /\ c[Len(c)] = y
      /\ Linked(s, d, k, x, w, c[1])
      /\ \A i \in 1..Len(c) : Follows(s, d, c[i], IF i = Len(c) THEN Upcoming(s, Tail(o))
                                                               ELSE c[i + 1])
  <2>1. Keeps(s, d, k, x, w, Tail(o), Append(b, ByteOf(s, o)))
    BY KeptLinks
  <2>2. c[Len(c)] = y
    <3>1. b \in Seq(S) /\ y \in S
      BY <1>1, <1>2, PutOne DEF Stream, ByteOf
    <3> QED
      BY <1>1, <3>1, AppendProperties
  <2> QED
    BY <1>1, <2>1, <2>2 DEF Keeps
<1>4. PICK u, r : u = Upcoming(s, <<>>) /\ r = IF k = "file" THEN <<>> ELSE c
  OBVIOUS
<1>5. Tail(o) = <<>> /\ y \in S /\ Ends(s, d, y) /\ u.frame <= y.frame + 1 /\ Outstanding(s, <<>>)
  <2>1. /\ Tail(o) = <<>> /\ y \in Marked(s) /\ Ends(s, d, y)
        /\ Upcoming(s, Tail(o)).frame <= y.frame + 1 /\ Outstanding(s, Tail(o))
    BY <1>2, PutOne DEF ByteOf
  <2> QED
    BY <1>1, <1>4, <2>1
<1>6. y.frame = Len(s) /\ Len(s) \in Nat /\ u.frame \in Nat
  <2>1. y.frame = Len(s)
    BY DEF ByteOf
  <2> QED
    BY <1>2, <1>4, <1>5, <2>1, LenProperties, UpcomingIs
<1>7. c[1].frame <= Len(s) /\ Len(c) \in Nat /\ Len(c) # 0
  <2>1. Len(c) \in Nat /\ Len(c) # 0
    BY <1>3, EmptySeq, LenProperties
  <2>2. 1 \in 1..Len(c)
    BY <2>1
  <2>3. c[1] \in Marked(s)
    BY <1>1, <1>3, <2>2, ElementOfSeq
  <2> QED
    BY <1>2, <1>6, <2>1, <2>3, MarkedIs
<1>8. PICK z : z = FirstOf(r, u)
  OBVIOUS
<1>9. Precedes(s, d, k, y, z)
  <2>1. CASE k = "file"
    <3>1. z = u
      BY <1>4, <1>8, <2>1 DEF FirstOf
    <3>2. Len(c) \in 1..Len(c)
      BY <1>7
    <3> QED
      BY <1>3, <1>4, <1>5, <3>1, <3>2 DEF Precedes
  <2>2. CASE k # "file"
    <3>1. z = c[1] /\ k = "port"
      BY <1>3, <1>4, <1>8, <2>2 DEF FirstOf
    <3> QED
      BY <1>5, <1>6, <1>7, <3>1 DEF Precedes
  <2> QED
    BY <2>1, <2>2
<1>10. ASSUME NEW i \in 1..Len(c) PROVE Precedes(s, d, k, c[i], IF i = Len(c) THEN z ELSE c[i + 1])
  <2>1. CASE i = Len(c)
    BY <1>3, <1>9, <2>1
  <2>2. CASE i # Len(c)
    BY <1>3, <2>2 DEF Precedes
  <2> QED
    BY <2>1, <2>2
<1>11. Linked(s, d, k, x, w \o c, z) /\ LastOf(w \o c, x) = y
  <2>1. FirstOf(c, z) = c[1] /\ LastOf(c, LastOf(w, x)) = y
    BY <1>3 DEF FirstOf, LastOf
  <2>2. Linked(s, d, k, x, w, FirstOf(c, z))
    BY <1>3, <2>1
  <2>3. Linked(s, d, k, x, w \o c, z) /\ LastOf(w \o c, x) = LastOf(c, LastOf(w, x))
    BY <1>2, <1>3, <1>10, <2>2, LinkedOn
  <2> QED
    BY <2>1, <2>3
<1>12. w \o c \in Seq(S)
  BY <1>2, <1>3, ConcatProperties
<1>13. r \in Seq(S) /\ \A i \in 1..Len(r) : Follows(s, d, r[i], IF i = Len(r) THEN u ELSE r[i + 1])
  <2>1. CASE k = "file"
    <3>1. r = <<>> /\ Len(r) = 0
      BY <1>4, <2>1, EmptySeq
    <3> QED
      BY <3>1, EmptySeq
  <2>2. CASE k # "file"
    BY <1>3, <1>4, <1>5, <2>2
  <2> QED
    BY <2>1, <2>2
<1>14. \A g \in Nat : ~(y.frame < g /\ g < u.frame)
  BY <1>5, <1>6
<1>15. Stream(s, d, k, x, w \o c, r, <<>>)
  <2>1. Linked(s, d, k, x, w \o c, FirstOf(r, Upcoming(s, <<>>)))
    BY <1>4, <1>8, <1>11
  <2>2. \A g \in Nat : LastOf(w \o c, x).frame < g /\ g < Upcoming(s, <<>>).frame => g \in d
    BY <1>4, <1>11, <1>14
  <2> QED
    BY <1>1, <1>2, <1>4, <1>5, <1>12, <1>13, <2>1, <2>2 DEF Stream
<1> QED
  BY <1>1, <1>4, <1>5, <1>15

\* stream_put on the desktop.
LEMMA StreamBuffered ==
  ASSUME NEW s, NEW d, NEW k, NEW x, NEW w, NEW b, NEW o, Stream(s, d, k, x, w, b, o), o # <<>>,
         k \in {"file", "port"}, NEW full \in BOOLEAN,
         NEW c, c = Append(IF full THEN <<>> ELSE b, ByteOf(s, o))
  PROVE  Stream(s, d, k, x, w \o (IF full THEN b ELSE <<>>) \o (IF Len(o) = 1 THEN c ELSE <<>>),
                IF Len(o) = 1 /\ k = "file" THEN <<>> ELSE c, Tail(o))
<1>1. PICK y, v, a : /\ y = ByteOf(s, o) /\ v = w \o (IF full THEN b ELSE <<>>)
                     /\ a = IF full THEN <<>> ELSE b
  OBVIOUS
<1>2. Stream(s, d, k, x, v, a, o)
  <2>1. CASE full
    <3>1. v = w \o b /\ a = <<>>
      BY <1>1, <2>1
    <3> QED
      BY <3>1, StreamWritten
  <2>2. CASE ~full
    <3>1. w \in Seq(Marked(s))
      BY DEF Stream
    <3>2. v = w /\ a = b
      BY <1>1, <2>2, <3>1, ConcatEmptySeq
    <3> QED
      BY <3>2
  <2> QED
    BY <2>1, <2>2
<1>3. c = Append(a, y) /\ v \in Seq(Marked(s))
  BY <1>1, <1>2 DEF Stream
<1>4. CASE Len(o) = 1
  <2>1. Stream(s, d, k, x, v \o Append(a, y), IF k = "file" THEN <<>> ELSE Append(a, y), Tail(o))
    BY <1>1, <1>2, <1>4, StreamFlushed
  <2> QED
    BY <1>1, <1>3, <1>4, <2>1
<1>5. CASE Len(o) # 1
  <2>1. Stream(s, d, k, x, v, Append(a, y), Tail(o))
    BY <1>1, <1>2, <1>5, StreamKept
  <2>2. v \o <<>> = v
    BY <1>3, ConcatEmptySeq
  <2> QED
    BY <1>1, <1>3, <1>5, <2>1, <2>2
<1> QED
  BY <1>4, <1>5

\* The bytes of a frame: only the first is a delimiter, and no checksum is a byte.
LEMMA FrameBytes ==
  ASSUME NEW p \in Packets, NEW i \in 1..Len(Frame(p))
  PROVE  /\ Frame(p)[i] \in Symbol(p)
         /\ Frame(p)[i] = Delimiter <=> i = 1
         /\ Frame(p)[i] \notin Plain => i = HeaderSize(p) + 2 \/ i = Len(Frame(p))
         /\ Crc16(Header(p)) \notin Plain /\ Crc32(p.payload) \notin Plain
         /\ Crc16(Header(p)) # Crc32(p.payload)
<1>1. PICK h, l, f : h = HeaderSize(p) /\ l = PayloadSize(p) /\ f = Frame(p)
  OBVIOUS
<1>0. FrameIs(p, h, l)
  BY <1>1, FrameShapeIs
<1>2. /\ h \in Nat \ {0} /\ l \in Nat /\ Len(f) = h + l + 3
      /\ f \in Seq(Symbol(p)) /\ f[1] = Delimiter
      /\ \A j \in 1..h : f[j + 1] = Stuff(Header(p))[j]
      /\ f[h + 2] = Crc16(Header(p))
      /\ \A j \in 1..l : f[h + 2 + j] = Stuff(p.payload)[j]
      /\ f[h + l + 3] = Crc32(p.payload)
  BY <1>0, <1>1 DEF FrameIs
<1>3. f[i] \in Symbol(p)
  BY <1>1, <1>2, ElementOfSeq
<1>4. Crc16(Header(p)) \notin Plain /\ Crc32(p.payload) \notin Plain /\ Crc16(Header(p)) # Crc32(p.payload)
  BY Symbols DEF Crc16, Crc32, Plain
<1>5. Delimiter \in Plain
  BY DEF Delimiter, Plain
<1>6. ASSUME NEW bytes \in Seq(Plain), NEW j \in 1..Len(Stuff(bytes))
      PROVE  Stuff(bytes)[j] \in Plain /\ Stuff(bytes)[j] # Delimiter
  <2>1. Stuff(bytes) \in Seq(Plain) /\ Stuff(bytes)[j] # Delimiter
    BY Stuffing
  <2> QED
    BY <2>1, ElementOfSeq
<1>7. Header(p) \in Seq(Plain) /\ p.payload \in Seq(Plain)
  BY PacketTypes
<1>8. \A j \in 1..h : Stuff(Header(p))[j] \in Plain /\ Stuff(Header(p))[j] # Delimiter
  BY <1>1, <1>6, <1>7 DEF HeaderSize
<1>9. \A j \in 1..l : Stuff(p.payload)[j] \in Plain /\ Stuff(p.payload)[j] # Delimiter
  BY <1>1, <1>6, <1>7 DEF PayloadSize
<1>10. CASE i = 1
  BY <1>1, <1>2, <1>3, <1>4, <1>5, <1>10
<1>11. CASE i \in 2..h + 1
  <2>1. i - 1 \in 1..h /\ (i - 1) + 1 = i /\ i # 1
    BY <1>2, <1>11
  <2> QED
    BY <1>1, <1>2, <1>3, <1>4, <1>8, <2>1
<1>12. CASE i = h + 2
  <2>1. i # 1
    BY <1>2, <1>12
  <2> QED
    BY <1>1, <1>2, <1>3, <1>4, <1>5, <1>12, <2>1
<1>13. CASE i \in h + 3..h + l + 2
  <2>0. h \in Nat /\ l \in Nat
    BY <1>2
  <2>1. i - h - 2 \in 1..l /\ h + 2 + (i - h - 2) = i /\ i # 1
    BY <1>13, <2>0
  <2>2. f[i] = Stuff(p.payload)[i - h - 2]
    BY <1>2, <2>1
  <2>3. f[i] \in Plain /\ f[i] # Delimiter
    BY <1>9, <2>1, <2>2
  <2> QED
    BY <1>1, <1>3, <1>4, <2>1, <2>3
<1>14. CASE i = h + l + 3
  <2>1. i # 1 /\ i = Len(f)
    BY <1>2, <1>14
  <2> QED
    BY <1>1, <1>2, <1>3, <1>4, <1>5, <1>14, <2>1
<1>15. \/ i = 1 \/ i \in 2..h + 1 \/ i = h + 2
       \/ i \in h + 3..h + l + 2 \/ i = h + l + 3
  <2>1. h \in Nat /\ l \in Nat /\ i \in 1..h + l + 3
    BY <1>1, <1>2
  <2> QED
    BY <2>1
<1> QED
  BY <1>10, <1>11, <1>12, <1>13, <1>14, <1>15

-----------------------------------------------------------------------------
(* The reader: x is the symbol read last, h a frame up to which it has passed all *)

At(s, x) ==
    \/ x.frame = 0 /\ x.place = 0
    \/ x.frame \in 1..Len(s) /\ x.place \in 1..LastPlace(s, x.frame)

\* The reader has read all of the frame up to x, of packet p and place q, and nothing else.
ParsingPart(p, q) ==
    \/ reading = "header" /\ Reads(Header(p), q - 1, buffer, escaped)
    \/ /\ reading = "header_crc" /\ header = Header(p) /\ ~escaped
       /\ \/ q = HeaderSize(p) + 1 /\ buffer = <<>>
          \/ q = HeaderSize(p) + 2 /\ buffer = <<Crc16(Header(p))>>
    \/ /\ reading = "payload" /\ header = Header(p)
       /\ Reads(p.payload, q - HeaderSize(p) - 2, buffer, escaped)
    \/ /\ reading = "payload_crc" /\ header = Header(p) /\ payload = p.payload /\ ~escaped
       /\ \/ q = HeaderSize(p) + PayloadSize(p) + 2 /\ buffer = <<>>
          \/ q = HeaderSize(p) + PayloadSize(p) + 3 /\ buffer = <<Crc32(p.payload)>>

Parsing(x) ==
    /\ x.frame # 0 /\ header_frame = x.frame /\ ~failed
    /\ ParsingPart(sent[x.frame], x.place)

\* The header was not read from its beginning: its checksum will not be right.
BadHeader(x) ==
    /\ reading = "header_crc"
    /\ \/ failed
       \/ buffer # <<>> /\ buffer[1] # Crc16(header)
       \/ buffer = <<>> /\ escaped
       \/ /\ buffer = <<>> /\ x.frame = header_frame
          /\ x.place = LastPlace(sent, x.frame) => header[2] \notin Plain

\* The delimiter of x's frame was taken for part of another one.
Swallows(x) ==
    \/ failed /\ x.place = 1
    \/ /\ reading = "payload_crc" /\ x.place <= 3
       /\ failed \/ buffer # <<>> \/ x.place <= IF escaped THEN 2 ELSE 1

\* A frame that was returned, or for which there was no memory.
Passed(n) == n \in unallocated \/ \E k \in 1..Len(received) : received[k].frame = n

\* A whole frame behind a whole one.
Clear(n) == n \notin damaged /\ n - 1 \notin damaged

HeaderFrom(x) ==
    reading = "header" =>
      /\ header_frame = x.frame
      /\ x.frame \notin damaged /\ ~failed /\ Len(buffer) = 2 /\ x.place = LastPlace(sent, x.frame)
         => buffer[2] \notin Plain

OwnHeader(x) ==
    reading \in {"header_crc", "payload", "payload_crc"} /\ header_frame \notin damaged
    => Parsing(x) \/ BadHeader(x)

InStep(x, h) ==
    x.frame \notin damaged =>
      \/ reading = "hunt"
      \/ x.frame # 0 /\ (Parsing(x) \/ Swallows(x) \/ x.frame < h)

First(x, h) ==
    x.frame = h + 1 /\ Clear(x.frame) => Parsing(x) \/ (reading = "hunt" /\ Passed(x.frame))

PassedUpTo(h) == \A n \in 1..h : Clear(n) => Passed(n)

InOrder ==
    \A j \in 1..Len(received) : \A n \in 1..received[j].frame :
        Clear(n) /\ n \notin unallocated => \E i \in 1..j : received[i].frame = n

Rising(x) ==
    link # "port" =>
      /\ \A j \in 1..Len(received) : received[j].frame <= x.frame
      /\ \A j, k \in 1..Len(received) : j < k => received[j].frame < received[k].frame
      /\ reading # "hunt" =>
           /\ header_frame <= x.frame
           /\ \A j \in 1..Len(received) : received[j].frame < header_frame

Reader(x, h) ==
    /\ Stream(sent, damaged, link, x, wire, write_buffer, out)
    /\ At(sent, x)
    /\ h \in 0..Len(sent) /\ x.frame <= h + 1 /\ (reading # "hunt" => header_frame <= h + 1)
    /\ HeaderFrom(x) /\ OwnHeader(x) /\ InStep(x, h) /\ First(x, h)
    /\ PassedUpTo(h) /\ InOrder /\ Rising(x)

\* What is on the stream, and what the reader can have made of it.
AnySymbol(s) ==
    Plain \cup {Crc16(Header(s[i])) : i \in 1..Len(s)} \cup {Crc32(s[i].payload) : i \in 1..Len(s)}

Returned(s) ==
    {r \in [frame : 1..Len(s), packet : [id : Byte, payload : Seq(Byte)]] :
       \E i, j \in 1..Len(s) :
         /\ r.packet.id = s[i].id /\ r.packet.payload = s[j].payload
         /\ Len(s[i].payload) = Len(s[j].payload)}

Types ==
    /\ link \in {"usb", "file", "port"}
    /\ Len(sent) <= MaxFrames /\ Len(write_buffer) <= WRITE_BUFFER_SIZE
    /\ link = "usb" => Len(wire) <= Capacity /\ write_buffer = <<>>
    /\ reading \in {"hunt", "header", "header_crc", "payload", "payload_crc"}
    /\ escaped \in BOOLEAN /\ failed \in BOOLEAN
    /\ buffer \in Seq(AnySymbol(sent)) /\ (reading # "hunt" => Len(buffer) <= Size)
    /\ reading \in {"payload", "payload_crc"} => \E i \in 1..Len(sent) : header = Header(sent[i])
    /\ reading = "payload_crc" => payload = None \/ Len(payload) = header[2][1]
    /\ reading # "hunt" => header_frame \in 1..Len(sent)
    /\ received \in Seq(Returned(sent))
    /\ \A k \in 1..Len(received) :
         received[k].frame \notin damaged => received[k].packet = sent[received[k].frame]

SerialInv == Types /\ \E x, h : Reader(x, h)

LEMMA ReceivedFrames ==
  ASSUME Types, sent \in Seq(Packets)
  PROVE  /\ Len(received) \in Nat
         /\ \A j \in 1..Len(received) : received[j].frame \in 1..Len(sent) /\ received[j].frame \in Nat
<1>1. received \in Seq(Returned(sent)) /\ Len(sent) \in Nat
  BY LenProperties DEF Types
<1>2. ASSUME NEW j \in 1..Len(received) PROVE received[j].frame \in 1..Len(sent)
  <2>1. received[j] \in Returned(sent)
    BY <1>1, ElementOfSeq
  <2> QED
    BY <2>1 DEF Returned
<1> QED
  BY <1>1, <1>2, LenProperties

-----------------------------------------------------------------------------
(* The reader takes a symbol *)

\* ReadByte of y.
Turn(y) ==
    /\ reading # "hunt" /\ ~failed /\ Len(buffer) < Size
    /\ IF Rejects(y.byte) THEN failed' = TRUE /\ UNCHANGED <<buffer, escaped>>
       ELSE IF ~escaped /\ y.byte = Escape THEN escaped' = TRUE /\ UNCHANGED <<buffer, failed>>
       ELSE /\ buffer' = Append(buffer, IF escaped THEN Unstuffed[y.byte] ELSE y.byte)
            /\ escaped' = FALSE /\ UNCHANGED failed
    /\ header_frame' = IF reading = "header" THEN y.frame ELSE header_frame
    /\ UNCHANGED <<link, sent, write_buffer, out, reading, header, payload, received,
                   unallocated, damaged>>

\* A byte of a part that is stuffed.
LEMMA PartReads ==
  ASSUME NEW bytes \in Seq(Plain), NEW t, NEW y, Turn(y), escaped \in BOOLEAN,
         Reads(bytes, t, buffer, escaped), Size = Len(bytes),
         t + 1 \in 1..Len(Stuff(bytes)) => y.byte = Stuff(bytes)[t + 1]
  PROVE  Reads(bytes, t + 1, buffer', escaped') /\ ~failed'
<1>1. t \in 0..Len(Stuff(bytes)) /\ t < Len(Stuff(bytes)) /\ Len(Stuff(bytes)) \in Nat
  BY ReadsAt, Stuffing, LenProperties DEF Turn
<1>2. t + 1 \in 1..Len(Stuff(bytes))
  BY <1>1
<1>3. PICK b : b = y.byte
  OBVIOUS
<1>4. b = Stuff(bytes)[t + 1]
  BY <1>2, <1>3
<1>5. /\ IF escaped THEN b \in DOMAIN Unstuffed ELSE b # Delimiter
      /\ IF ~escaped /\ b = Escape
         THEN Reads(bytes, t + 1, buffer, TRUE)
         ELSE Reads(bytes, t + 1, Append(buffer, IF escaped THEN Unstuffed[b] ELSE b), FALSE)
  BY <1>1, <1>4, ReadsOn
<1>6. ~Rejects(b)
  BY <1>5 DEF Rejects
<1>7. CASE ~escaped /\ b = Escape
  BY <1>3, <1>5, <1>6, <1>7 DEF Turn
<1>8. CASE ~(~escaped /\ b = Escape)
  BY <1>3, <1>5, <1>6, <1>8 DEF Turn
<1> QED
  BY <1>7, <1>8

\* A checksum.
LEMMA ChecksumReads ==
  ASSUME NEW y, Turn(y), ~escaped, buffer = <<>>, y.byte \notin Plain
  PROVE  buffer' = <<y.byte>> /\ ~escaped' /\ ~failed'
<1>1. y.byte # Delimiter /\ y.byte # Escape
  BY DEF Delimiter, Escape, Plain
<1>2. ~Rejects(y.byte)
  BY <1>1 DEF Rejects
<1>3. Append(buffer, y.byte) = <<y.byte>>
  OBVIOUS
<1> QED
  BY <1>1, <1>2, <1>3 DEF Turn

\* The next symbol of the frame that the reader has read from its beginning.
LEMMA ParsingReads ==
  ASSUME sent \in Seq(Packets), NEW x, NEW y \in Marked(sent), escaped \in BOOLEAN,
         Parsing(x), Turn(y), At(sent, x), y.frame = x.frame, y.place = x.place + 1
  PROVE  Parsing(y)'
<1>1. PICK p, q, h, l : p = sent[x.frame] /\ q = x.place /\ h = HeaderSize(p) /\ l = PayloadSize(p)
  OBVIOUS
<1>2. /\ p \in Packets /\ y.place \in 1..Len(Frame(p)) /\ y.byte = Frame(p)[q + 1]
      /\ q \in Nat /\ y.frame # 0 /\ y.frame \in Nat
  <2>1. y.frame \in 1..Len(sent) /\ sent[y.frame] \in Packets /\ y.place \in 1..LastPlace(sent, y.frame)
        /\ y.byte = Frame(sent[y.frame])[y.place]
    BY MarkedIs
  <2>2. y.frame # 0 /\ y.frame \in Nat
    BY <2>1
  <2>3. LastPlace(sent, y.frame) = Len(Frame(p))
    BY <1>1, <2>2 DEF LastPlace
  <2>4. q \in Nat
    BY <1>1, <2>3, LenProperties DEF At
  <2> QED
    BY <1>1, <2>1, <2>2, <2>3, <2>4
<1>3. /\ h \in Nat \ {0} /\ l \in Nat /\ Len(Frame(p)) = h + l + 3
      /\ \A i \in 1..h : Frame(p)[i + 1] = Stuff(Header(p))[i]
      /\ Frame(p)[h + 2] = Crc16(Header(p))
      /\ \A i \in 1..l : Frame(p)[h + 2 + i] = Stuff(p.payload)[i]
      /\ Frame(p)[h + l + 3] = Crc32(p.payload)
  <2>1. p \in Packets
    BY <1>2
  <2>2. FrameIs(p, HeaderSize(p), PayloadSize(p))
    BY <2>1, FrameShapeIs
  <2> QED
    BY <1>1, <2>2 DEF FrameIs
<1>4. /\ Header(p) \in Seq(Plain) /\ Len(Header(p)) = 2 /\ Header(p)[2][1] = Len(p.payload)
      /\ p.payload \in Seq(Plain)
  BY <1>2, PacketTypes
<1>5. ~failed /\ header_frame = x.frame /\ ParsingPart(p, q)
  BY <1>1 DEF Parsing
<1>6. /\ Len(Stuff(Header(p))) = h /\ Len(Stuff(p.payload)) = l
      /\ Crc16(Header(p)) \notin Plain /\ Crc32(p.payload) \notin Plain
  BY <1>1, <1>2, FrameBytes DEF HeaderSize, PayloadSize
<1>7. Len(buffer) < Size /\ reading' = reading /\ header' = header /\ payload' = payload
  BY DEF Turn
<1>8. ~failed' /\ ParsingPart(p, q + 1)'
  <2>1. CASE reading = "header" /\ Reads(Header(p), q - 1, buffer, escaped)
    <3>1. PICK t : t = q - 1
      OBVIOUS
    <3>2. t + 1 = q /\ (q + 1) - 1 = q
      <4>1. q \in Nat
        BY <1>2
      <4> QED
        BY <3>1, <4>1
    <3>3. q \in 1..Len(Stuff(Header(p))) => y.byte = Stuff(Header(p))[q]
      BY <1>2, <1>3, <1>6
    <3>4. Size = Len(Header(p))
      BY <1>4, <2>1 DEF Size
    <3>5. Reads(Header(p), t + 1, buffer', escaped') /\ ~failed'
      BY <1>4, <2>1, <3>1, <3>2, <3>3, <3>4, PartReads
    <3>6. Reads(Header(p), (q + 1) - 1, buffer', escaped')
      BY <3>2, <3>5
    <3> QED
      BY <1>7, <2>1, <3>5, <3>6 DEF ParsingPart
  <2>2. CASE /\ reading = "header_crc" /\ header = Header(p) /\ ~escaped
             /\ \/ q = h + 1 /\ buffer = <<>>
                \/ q = h + 2 /\ buffer = <<Crc16(Header(p))>>
    <3>1. Size = 1
      BY <2>2 DEF Size
    <3>2. q = h + 1 /\ buffer = <<>>
      <4>1. ~(buffer = <<Crc16(Header(p))>>)
        <5>1. PICK c : c = <<Crc16(Header(p))>>
          OBVIOUS
        <5>2. Len(c) = 1
          BY <5>1
        <5>3. c # buffer
          <6> SUFFICES ASSUME c = buffer PROVE FALSE
            OBVIOUS
          <6>1. Len(c) < Size
            BY <1>7
          <6> QED
            BY <3>1, <5>2, <6>1
        <5> QED
          BY <5>1, <5>3
      <4> QED
        BY <2>2, <4>1
    <3>3. y.byte = Crc16(Header(p)) /\ q + 1 = h + 2
      <4>1. q + 1 = h + 2
        BY <1>3, <3>2
      <4> QED
        BY <1>2, <1>3, <4>1
    <3>4. buffer' = <<Crc16(Header(p))>> /\ ~escaped' /\ ~failed'
      BY <1>6, <2>2, <3>2, <3>3, ChecksumReads
    <3> QED
      BY <1>1, <1>7, <2>2, <3>3, <3>4 DEF ParsingPart
  <2>3. CASE /\ reading = "payload" /\ header = Header(p)
             /\ Reads(p.payload, q - h - 2, buffer, escaped)
    <3>1. PICK t : t = q - h - 2
      OBVIOUS
    <3>2. Size = Len(p.payload)
      BY <1>4, <2>3 DEF Size
    <3>3. t \in Nat
      <4>1. t \in 0..Len(Stuff(p.payload))
        BY <1>4, <2>3, <3>1, ReadsAt
      <4> QED
        BY <1>3, <1>6, <4>1
    <3>4. t + 1 = (q + 1) - h - 2 /\ h + 2 + (t + 1) = q + 1
      BY <1>2, <1>3, <3>1
    <3>5. t + 1 \in 1..Len(Stuff(p.payload)) => y.byte = Stuff(p.payload)[t + 1]
      BY <1>2, <1>3, <1>6, <3>4
    <3>6. Reads(p.payload, t + 1, buffer', escaped') /\ ~failed'
      BY <1>4, <2>3, <3>1, <3>2, <3>5, PartReads
    <3>7. Reads(p.payload, (q + 1) - h - 2, buffer', escaped')
      BY <3>4, <3>6
    <3> QED
      BY <1>1, <1>7, <2>3, <3>6, <3>7 DEF ParsingPart
  <2>4. CASE /\ reading = "payload_crc" /\ header = Header(p) /\ payload = p.payload /\ ~escaped
             /\ \/ q = h + l + 2 /\ buffer = <<>>
                \/ q = h + l + 3 /\ buffer = <<Crc32(p.payload)>>
    <3>1. Size = 1
      BY <2>4 DEF Size
    <3>2. q = h + l + 2 /\ buffer = <<>>
      <4>1. ~(buffer = <<Crc32(p.payload)>>)
        <5>1. PICK c : c = <<Crc32(p.payload)>>
          OBVIOUS
        <5>2. Len(c) = 1
          BY <5>1
        <5>3. c # buffer
          <6> SUFFICES ASSUME c = buffer PROVE FALSE
            OBVIOUS
          <6>1. Len(c) < Size
            BY <1>7
          <6> QED
            BY <3>1, <5>2, <6>1
        <5> QED
          BY <5>1, <5>3
      <4> QED
        BY <2>4, <4>1
    <3>3. y.byte = Crc32(p.payload) /\ q + 1 = h + l + 3
      <4>1. q + 1 = h + l + 3
        BY <1>3, <3>2
      <4> QED
        BY <1>2, <1>3, <4>1
    <3>4. buffer' = <<Crc32(p.payload)>> /\ ~escaped' /\ ~failed'
      BY <1>6, <2>4, <3>2, <3>3, ChecksumReads
    <3> QED
      BY <1>1, <1>7, <2>4, <3>3, <3>4 DEF ParsingPart
  <2> QED
    BY <1>1, <1>5, <2>1, <2>2, <2>3, <2>4 DEF ParsingPart
<1>9. header_frame' = y.frame /\ sent' = sent
  BY <1>5 DEF Turn
<1> QED
  BY <1>1, <1>2, <1>8, <1>9 DEF Parsing

\* When it has read the frame to its end it takes no more.
LEMMA ParsingEnds ==
  ASSUME sent \in Seq(Packets), NEW x, Parsing(x), At(sent, x), x.place = LastPlace(sent, x.frame),
         escaped \in BOOLEAN
  PROVE  reading = "payload_crc" /\ Len(buffer) = Size
<1>1. PICK p, q, h, l : p = sent[x.frame] /\ q = x.place /\ h = HeaderSize(p) /\ l = PayloadSize(p)
  OBVIOUS
<1>2. p \in Packets /\ q = Len(Frame(p))
  <2>1. x.frame \in 1..Len(sent) /\ x.frame # 0
    BY DEF Parsing, At
  <2> QED
    BY <1>1, <2>1, ElementOfSeq DEF LastPlace
<1>3. /\ h \in Nat \ {0} /\ l \in Nat /\ q = h + l + 3
      /\ Header(p) \in Seq(Plain) /\ p.payload \in Seq(Plain)
      /\ Len(Stuff(Header(p))) = h /\ Len(Stuff(p.payload)) = l
  <2>1. p \in Packets
    BY <1>2
  <2>2. h \in Nat \ {0} /\ l \in Nat /\ Len(Frame(p)) = h + l + 3
    <3>1. FrameIs(p, HeaderSize(p), PayloadSize(p))
      BY <2>1, FrameShapeIs
    <3> QED
      BY <1>1, <3>1 DEF FrameIs
  <2>3. Header(p) \in Seq(Plain) /\ p.payload \in Seq(Plain)
    BY <2>1, PacketTypes
  <2> QED
    BY <1>1, <1>2, <2>2, <2>3 DEF HeaderSize, PayloadSize
<1>4. ~Reads(Header(p), q - 1, buffer, escaped)
  <2>1. q - 1 \notin 0..h
    BY <1>3
  <2> QED
    BY <1>3, <2>1, ReadsAt
<1>5. ~Reads(p.payload, q - h - 2, buffer, escaped)
  <2>1. q - h - 2 \notin 0..l
    BY <1>3
  <2> QED
    BY <1>3, <2>1, ReadsAt
<1>6. q # h + 1 /\ q # h + 2 /\ q # h + l + 2
  BY <1>3
<1>7. reading = "payload_crc" /\ buffer = <<Crc32(p.payload)>>
  BY <1>1, <1>4, <1>5, <1>6 DEF Parsing, ParsingPart
<1> QED
  BY <1>7 DEF Size

Waiting == reading = "hunt" \/ Len(buffer) < Size

\* How the reader goes on, from x to y.
Moves(x, h, y, g) ==
    /\ g \in h..Len(sent) /\ PassedUpTo(g) /\ y.frame <= g + 1
    /\ \/ /\ y.frame = x.frame /\ g = h /\ x.place < y.place
          /\ x.frame \notin damaged => y.place = x.place + 1
       \/ /\ x.frame < y.frame
          /\ y.frame \notin damaged => y.place = 1
          /\ y.frame = g + 1 /\ Clear(y.frame) => reading = "hunt"
       \/ /\ link = "port" /\ y.frame <= g
          /\ y.frame \notin damaged => reading = "hunt" \/ y.frame < g

LEMMA ReaderTypes ==
  ASSUME Types, NEW x, NEW h, Reader(x, h)
  PROVE  /\ sent \in Seq(Packets) /\ damaged \in SUBSET (1..Len(sent)) /\ Len(sent) \in Nat
         /\ h \in 0..Len(sent) /\ x.frame \in 0..Len(sent) /\ x.place \in Nat
         /\ escaped \in BOOLEAN /\ failed \in BOOLEAN
         /\ (x.frame = 0 => x.place = 0) /\ (x.frame # 0 => x.place # 0)
<1>1. sent \in Seq(Packets) /\ damaged \in SUBSET (1..Len(sent)) /\ h \in 0..Len(sent) /\ At(sent, x)
  BY DEF Reader, Stream
<1>2. Len(sent) \in Nat
  BY <1>1, LenProperties
<1>3. CASE x.frame = 0 /\ x.place = 0
  BY <1>1, <1>2, <1>3 DEF Types
<1>4. CASE x.frame \in 1..Len(sent) /\ x.place \in 1..LastPlace(sent, x.frame)
  <2>1. x.frame \in 0..Len(sent) /\ x.frame # 0
    BY <1>2, <1>4
  <2>2. LastPlace(sent, x.frame) \in Nat
    BY <1>1, <2>1, LastPlaceNat
  <2>3. x.place \in Nat /\ x.place # 0
    BY <1>4, <2>2
  <2> QED
    BY <1>1, <1>2, <2>1, <2>3 DEF Types
<1> QED
  BY <1>1, <1>3, <1>4 DEF At

\* At the end of a whole frame the reader hunts, but in a frame that it has seen before.
LEMMA AtEnd ==
  ASSUME Types, NEW x, NEW h, Reader(x, h), Waiting, x.frame \notin damaged,
         x.place = LastPlace(sent, x.frame)
  PROVE  /\ reading = "hunt" \/ (x.frame # 0 /\ x.frame < h)
         /\ PassedUpTo(IF x.frame <= h THEN h ELSE x.frame)
<1>1. /\ sent \in Seq(Packets) /\ x.frame \in 0..Len(sent) /\ h \in Nat /\ x.frame \in Nat
      /\ x.place \in Nat
      /\ escaped \in BOOLEAN /\ At(sent, x) /\ x.frame <= h + 1
      /\ InStep(x, h) /\ First(x, h) /\ PassedUpTo(h)
  BY ReaderTypes DEF Reader
<1>2. ~Parsing(x)
  <2> SUFFICES ASSUME Parsing(x) PROVE FALSE
    OBVIOUS
  <2>1. reading = "payload_crc" /\ Len(buffer) = Size
    BY <1>1, ParsingEnds
  <2> QED
    BY <2>1 DEF Waiting, Size
<1>3. x.frame # 0 => x.place > 3
  BY <1>1, LastPlaceNat
<1>4. reading = "hunt" \/ (x.frame # 0 /\ x.frame < h)
  <2>1. x.frame # 0 => ~Swallows(x)
    BY <1>1, <1>3 DEF Swallows
  <2> QED
    BY <1>1, <1>2, <2>1 DEF InStep
<1>5. CASE x.frame <= h
  BY <1>1, <1>4, <1>5
<1>6. CASE ~(x.frame <= h)
  <2>1. x.frame = h + 1
    BY <1>1, <1>6
  <2>2. Clear(x.frame) => Passed(x.frame)
    BY <1>1, <1>2, <2>1 DEF First
  <2>3. PassedUpTo(x.frame)
    BY <1>1, <2>1, <2>2 DEF PassedUpTo
  <2> QED
    BY <1>4, <1>6, <2>3
<1> QED
  BY <1>5, <1>6

LEMMA Advance ==
  ASSUME Types, NEW x, NEW h, Reader(x, h), wire # <<>>, NEW y, y = Head(wire), Waiting
  PROVE  /\ y \in Marked(sent) /\ Stream(sent, damaged, link, y, Tail(wire), write_buffer, out)
         /\ At(sent, y) /\ \E g : Moves(x, h, y, g)
<1>1. /\ sent \in Seq(Packets) /\ damaged \in SUBSET (1..Len(sent)) /\ Len(sent) \in Nat
      /\ h \in 0..Len(sent) /\ x.frame \in 0..Len(sent) /\ x.place \in Nat
  BY ReaderTypes
<1>2. /\ Precedes(sent, damaged, link, x, y) /\ y \in Marked(sent)
      /\ Stream(sent, damaged, link, y, Tail(wire), write_buffer, out)
  <2>1. Stream(sent, damaged, link, x, wire, write_buffer, out)
    BY DEF Reader
  <2> QED
    BY <2>1, StreamTaken
<1>3. y.frame \in 1..Len(sent) /\ y.place \in 1..LastPlace(sent, y.frame)
  BY <1>1, <1>2, MarkedIs
<1>4. At(sent, y) /\ y.frame \in Nat /\ y.frame # 0
  BY <1>1, <1>3 DEF At
<1>5. x.frame <= h + 1 /\ PassedUpTo(h)
  BY DEF Reader
<1>6. CASE /\ x.frame = y.frame /\ x.place < y.place
           /\ x.frame \notin damaged => y.place = x.place + 1
  <2>1. h \in h..Len(sent)
    BY <1>1
  <2>2. Moves(x, h, y, h)
    BY <1>5, <1>6, <2>1 DEF Moves
  <2> QED
    BY <1>2, <1>4, <2>2
<1>7. CASE /\ x.frame < y.frame /\ Ends(sent, damaged, x)
           /\ y.frame \notin damaged => y.place = 1
           /\ \A g \in Nat : x.frame < g /\ g < y.frame => g \in damaged
  <2>1. PICK g : g = IF y.frame <= h + 1 THEN h ELSE y.frame - 1
    OBVIOUS
  <2>2. g \in h..Len(sent) /\ y.frame <= g + 1 /\ g \in Nat
    <3>1. y.frame \in 1..Len(sent) /\ h \in 0..Len(sent) /\ Len(sent) \in Nat
      BY <1>1, <1>3
    <3>2. CASE y.frame <= h + 1
      BY <2>1, <3>1, <3>2
    <3>3. CASE ~(y.frame <= h + 1)
      BY <2>1, <3>1, <3>3
    <3> QED
      BY <3>2, <3>3
  <2>3. ASSUME x.frame \notin damaged
        PROVE  /\ reading = "hunt" \/ (x.frame # 0 /\ x.frame < h)
               /\ PassedUpTo(IF x.frame <= h THEN h ELSE x.frame)
    <3>1. x.place = LastPlace(sent, x.frame)
      BY <1>7, <2>3 DEF Ends
    <3> QED
      BY <2>3, <3>1, AtEnd
  <2>4. PassedUpTo(g)
    <3> SUFFICES ASSUME NEW n \in 1..g, Clear(n) PROVE Passed(n)
      BY DEF PassedUpTo
    <3>1. CASE n <= h
      BY <1>1, <1>5, <3>1 DEF PassedUpTo
    <3>2. CASE ~(n <= h)
      <4>1. n \in Nat /\ x.frame <= n /\ n < y.frame /\ n \notin damaged /\ n >= 1
        <5>1. n \in Nat /\ n >= 1 /\ n <= g /\ h < n /\ h \in Nat /\ y.frame \in Nat
          BY <1>1, <1>4, <2>2, <3>2
        <5>2. g = y.frame - 1
          BY <2>1, <5>1
        <5>3. n \notin damaged
          BY <3>2 DEF Clear
        <5>4. x.frame \in Nat /\ x.frame <= h + 1
          BY <1>1, <1>5
        <5> QED
          BY <5>1, <5>2, <5>3, <5>4
      <4>2. n = x.frame
        BY <1>1, <1>7, <4>1
      <4>3. PassedUpTo(x.frame)
        <5>1. ~(x.frame <= h)
          BY <3>2, <4>2
        <5> QED
          BY <2>3, <4>1, <4>2, <5>1
      <4>4. n \in 1..x.frame
        BY <4>1, <4>2
      <4> QED
        BY <4>3, <4>4 DEF PassedUpTo
    <3> QED
      BY <3>1, <3>2
  <2>5. ASSUME y.frame = g + 1, Clear(y.frame) PROVE reading = "hunt"
    <3>1. y.frame - 1 \notin damaged /\ y.frame - 1 = g
      BY <2>2, <2>5 DEF Clear
    <3>2. x.frame = g
      <4>1. x.frame <= g
        BY <1>1, <1>7, <2>2, <2>5
      <4>2. ~(x.frame < g)
        BY <1>7, <2>2, <2>5, <3>1
      <4> QED
        BY <1>1, <2>2, <4>1, <4>2
    <3>3. reading = "hunt" \/ (x.frame # 0 /\ x.frame < h)
      BY <2>3, <3>1, <3>2
    <3> QED
      BY <1>1, <2>2, <3>2, <3>3
  <2>6. Moves(x, h, y, g)
    BY <1>7, <2>2, <2>4, <2>5 DEF Moves
  <2> QED
    BY <1>2, <1>4, <2>6
<1>8. CASE link = "port" /\ y.frame <= x.frame /\ Ends(sent, damaged, x)
  <2>1. PICK g : g = IF x.frame <= h THEN h ELSE x.frame
    OBVIOUS
  <2>2. g \in h..Len(sent) /\ y.frame <= g + 1 /\ y.frame <= g /\ g \in Nat /\ x.frame <= g
    BY <1>1, <1>3, <1>8, <2>1
  <2>3. ASSUME x.frame \notin damaged
        PROVE  /\ reading = "hunt" \/ (x.frame # 0 /\ x.frame < h)
               /\ PassedUpTo(g)
    <3>1. x.place = LastPlace(sent, x.frame)
      BY <1>8, <2>3 DEF Ends
    <3> QED
      BY <2>1, <2>3, <3>1, AtEnd
  <2>4. PassedUpTo(g)
    <3>1. CASE x.frame \in damaged
      <4> SUFFICES ASSUME NEW n \in 1..g, Clear(n) PROVE Passed(n)
        BY DEF PassedUpTo
      <4>1. n # x.frame
        BY <3>1 DEF Clear
      <4>2. n \in 1..h
        BY <1>1, <1>5, <2>1, <2>2, <4>1
      <4> QED
        BY <1>5, <4>2 DEF PassedUpTo
    <3> QED
      BY <2>3, <3>1
  <2>5. ASSUME y.frame \notin damaged PROVE reading = "hunt" \/ y.frame < g
    <3>1. CASE y.frame = x.frame
      BY <1>1, <2>2, <2>3, <2>5, <3>1
    <3>2. CASE y.frame < x.frame
      BY <1>1, <1>4, <2>2, <3>2
    <3> QED
      BY <1>1, <1>4, <1>8, <3>1, <3>2
  <2>6. Moves(x, h, y, g)
    BY <1>8, <2>2, <2>4, <2>5 DEF Moves
  <2> QED
    BY <1>2, <1>4, <2>6
<1> QED
  BY <1>2, <1>6, <1>7, <1>8 DEF Precedes, Follows

\* A header that was not read from its beginning does not get the checksum that it needs,
\* unless it is that of its frame all the same.
LEMMA BadReads ==
  ASSUME Types, sent \in Seq(Packets), NEW x, NEW y \in Marked(sent), At(sent, x),
         BadHeader(x), Turn(y), header_frame \notin damaged,
         Precedes(sent, damaged, link, x, y)
  PROVE  Parsing(y)' \/ BadHeader(y)'
<1>1. /\ reading = "header_crc" /\ reading' = "header_crc" /\ header' = header /\ sent' = sent
      /\ header_frame' = header_frame /\ ~failed /\ escaped \in BOOLEAN
  BY DEF BadHeader, Turn, Types
<1>2. buffer = <<>>
  <2>1. Size = 1
    BY <1>1 DEF Size
  <2>2. Len(buffer) < Size /\ buffer \in Seq(AnySymbol(sent))
    BY DEF Turn, Types
  <2>3. Len(buffer) \in Nat /\ Len(buffer) < 1
    BY <2>1, <2>2, LenProperties
  <2>4. Len(buffer) = 0
    BY <2>3
  <2> QED
    BY <2>2, <2>4, EmptySeq
<1>3. PICK b : b = y.byte
  OBVIOUS
<1>4. CASE failed'
  BY <1>1, <1>4 DEF BadHeader
<1>5. CASE escaped'
  <2>1. buffer' = <<>> \/ failed'
    BY <1>2, <1>5 DEF Turn
  <2> QED
    BY <1>1, <1>5, <2>1 DEF BadHeader
<1>6. CASE ~failed' /\ ~escaped'
  <2>1. buffer' = <<IF escaped THEN Unstuffed[b] ELSE b>> /\ ~Rejects(b)
    BY <1>1, <1>2, <1>3, <1>6 DEF Turn
  <2>2. PICK v : v = IF escaped THEN Unstuffed[b] ELSE b
    OBVIOUS
  <2>3. buffer' = <<v>> /\ buffer' # <<>> /\ buffer'[1] = v
    BY <2>1, <2>2
  <2>4. CASE v # Crc16(header)
    BY <1>1, <2>3, <2>4 DEF BadHeader
  <2>5. CASE v = Crc16(header)
    <3>1. v \notin Plain
      BY <2>5, Symbols DEF Crc16, Plain
    <3>2. ~escaped /\ v = b
      <4>1. escaped => b \in DOMAIN Unstuffed
        BY <2>1 DEF Rejects
      <4>2. escaped => v \in Plain
        BY <2>2, <4>1, StuffedTwo
      <4> QED
        BY <2>2, <3>1, <4>2
    <3>3. /\ x.frame = header_frame
          /\ x.place = LastPlace(sent, x.frame) => header[2] \notin Plain
      BY <1>1, <1>2, <3>2 DEF BadHeader
    <3>4. PICK p : p = sent[y.frame]
      OBVIOUS
    <3>5. /\ p \in Packets /\ y.place \in 1..Len(Frame(p)) /\ b = Frame(p)[y.place]
          /\ y.frame # 0
      <4>1. /\ y.frame \in 1..Len(sent) /\ sent[y.frame] \in Packets
            /\ y.place \in 1..LastPlace(sent, y.frame) /\ y.byte = Frame(sent[y.frame])[y.place]
        BY MarkedIs
      <4>2. y.frame # 0
        BY <4>1
      <4>3. LastPlace(sent, y.frame) = Len(Frame(p))
        BY <3>4, <4>2 DEF LastPlace
      <4> QED
        BY <1>3, <3>4, <4>1, <4>2, <4>3
    <3>6. b = Crc16(Header(p)) /\ y.place = HeaderSize(p) + 2
      <4>1. FrameIs(p, HeaderSize(p), PayloadSize(p))
        BY <3>5, FrameShapeIs
      <4>2. /\ Len(Frame(p)) = HeaderSize(p) + PayloadSize(p) + 3
            /\ Frame(p)[HeaderSize(p) + 2] = Crc16(Header(p))
            /\ Frame(p)[HeaderSize(p) + PayloadSize(p) + 3] = Crc32(p.payload)
        BY <4>1 DEF FrameIs
      <4>3. y.place = HeaderSize(p) + 2 \/ y.place = Len(Frame(p))
        BY <3>1, <3>2, <3>5, FrameBytes
      <4>4. b # Crc32(p.payload)
        BY <2>5, <3>2, Symbols DEF Crc16, Crc32
      <4> QED
        BY <3>5, <4>2, <4>3, <4>4
    <3>7. header = Header(p)
      BY <2>5, <3>2, <3>6, Symbols DEF Crc16
    <3>8. header[2] \in Plain
      BY <3>5, <3>7, PacketTypes
    <3>9. x.place # LastPlace(sent, x.frame)
      BY <3>3, <3>8
    <3>10. x.frame = y.frame
      BY <3>3, <3>9 DEF Precedes, Follows, Ends
    <3>11. /\ ~failed' /\ ~escaped' /\ header_frame' = y.frame /\ sent'[y.frame] = p
           /\ header' = Header(p) /\ buffer' = <<Crc16(Header(p))>>
      BY <1>1, <1>6, <2>3, <3>2, <3>3, <3>4, <3>6, <3>7, <3>10
    <3> QED
      BY <1>1, <3>5, <3>6, <3>11 DEF Parsing, ParsingPart
  <2> QED
    BY <2>4, <2>5
<1> QED
  BY <1>4, <1>5, <1>6

\* The first byte of a frame, and no other, is its delimiter.
LEMMA MarkedDelimiter ==
  ASSUME sent \in Seq(Packets), NEW y \in Marked(sent)
  PROVE  /\ y.byte = Delimiter <=> y.place = 1
         /\ y.place = LastPlace(sent, y.frame) => y.byte \notin Plain
<1>1. /\ y.frame \in 1..Len(sent) /\ sent[y.frame] \in Packets
      /\ y.place \in 1..LastPlace(sent, y.frame) /\ y.byte = Frame(sent[y.frame])[y.place]
  BY MarkedIs
<1>2. PICK p : p = sent[y.frame]
  OBVIOUS
<1>3. p \in Packets /\ LastPlace(sent, y.frame) = Len(Frame(p)) /\ y.byte = Frame(p)[y.place]
      /\ y.place \in 1..Len(Frame(p))
  BY <1>1, <1>2 DEF LastPlace
<1>4. y.byte = Delimiter <=> y.place = 1
  BY <1>3, FrameBytes
<1>5. Frame(p)[Len(Frame(p))] = Crc32(p.payload)
  <2>1. FrameIs(p, HeaderSize(p), PayloadSize(p))
    BY <1>3, FrameShapeIs
  <2> QED
    BY <2>1 DEF FrameIs
<1>6. Crc32(p.payload) \notin Plain
  BY <1>3, FrameBytes
<1> QED
  BY <1>3, <1>4, <1>5, <1>6

\* Hunting, the reader takes a symbol.
LEMMA ReaderHunts ==
  ASSUME Types, NEW x, NEW h, Reader(x, h), Hunt
  PROVE  \E y, g : Reader(y, g)'
<1>1. /\ reading = "hunt" /\ wire # <<>> /\ wire' = Tail(wire)
      /\ UNCHANGED <<link, sent, out, write_buffer, header, payload, received, unallocated, damaged>>
  BY DEF Hunt, Get, writer
<1>2. PICK y : y = Head(wire)
  OBVIOUS
<1>3. IF y.byte = Delimiter
      THEN Begin("header") /\ header_frame' = y.frame
      ELSE UNCHANGED <<reading, buffer, escaped, failed, header_frame>>
  BY <1>2 DEF Hunt, Get
<1>4. /\ y \in Marked(sent) /\ Stream(sent, damaged, link, y, Tail(wire), write_buffer, out)
      /\ At(sent, y)
  BY <1>1, <1>2, Advance DEF Waiting
<1>5. PICK g : Moves(x, h, y, g)
  BY <1>1, <1>2, Advance DEF Waiting
<1>6. /\ sent \in Seq(Packets) /\ y.frame \in 1..Len(sent) /\ y.place \in Nat /\ y.frame \in Nat
      /\ x.frame \in Nat /\ x.place \in Nat /\ (x.frame # 0 => x.place # 0) /\ h \in Nat
      /\ Len(sent) \in Nat
  <2>1. /\ sent \in Seq(Packets) /\ x.frame \in 0..Len(sent) /\ x.place \in Nat
        /\ (x.frame # 0 => x.place # 0) /\ h \in 0..Len(sent) /\ Len(sent) \in Nat
    BY ReaderTypes
  <2>2. y.frame \in 1..Len(sent) /\ y.place \in 1..LastPlace(sent, y.frame)
    BY <1>4, <2>1, MarkedIs
  <2> QED
    BY <2>1, <2>2
<1>7. g \in 0..Len(sent) /\ y.frame <= g + 1 /\ PassedUpTo(g) /\ h <= g
  BY <1>5, <1>6 DEF Moves
<1>8. Stream(sent, damaged, link, y, wire, write_buffer, out)' /\ At(sent, y)' /\ InOrder'
      /\ PassedUpTo(g)'
  <2>1. Stream(sent, damaged, link, y, wire, write_buffer, out)' /\ At(sent, y)'
    BY <1>1, <1>4
  <2>2. InOrder'
    BY <1>1 DEF Reader, InOrder, Clear
  <2>3. PassedUpTo(g)'
    BY <1>1, <1>7 DEF PassedUpTo, Clear, Passed
  <2> QED
    BY <2>1, <2>2, <2>3
<1>9. link # "port" => y.frame >= x.frame /\ (y.place = 1 => y.frame > x.frame)
  BY <1>5, <1>6 DEF Moves
<1>10. CASE y.byte = Delimiter
  <2>1. /\ reading' = "header" /\ buffer' = <<>> /\ ~escaped' /\ ~failed' /\ escaped' = FALSE
        /\ header_frame' = y.frame
    BY <1>3, <1>10 DEF Begin
  <2>2. y.place = 1
    BY <1>4, <1>6, <1>10, MarkedDelimiter
  <2>3. PICK p : p = sent[y.frame]
    OBVIOUS
  <2>4. Reads(Header(p), 0, <<>>, FALSE)
    <3>1. p \in Packets
      BY <1>6, <2>3, ElementOfSeq
    <3>2. Header(p) \in Seq(Plain)
      BY <3>1, PacketTypes
    <3> QED
      BY <3>2, ReadsNone
  <2>5. Parsing(y)'
    <3>1. ParsingPart(p, 1)'
      <4>1. 1 - 1 = 0
        OBVIOUS
      <4>2. Reads(Header(p), 1 - 1, buffer', escaped')
        BY <2>1, <2>4, <4>1
      <4> QED
        BY <2>1, <4>2 DEF ParsingPart
    <3>2. sent'[y.frame] = p /\ y.frame # 0
      BY <1>1, <1>6, <2>3
    <3> QED
      BY <2>1, <2>2, <3>1, <3>2 DEF Parsing
  <2>6. HeaderFrom(y)' /\ OwnHeader(y)' /\ InStep(y, g)' /\ First(y, g)'
    <3>1. Len(buffer') # 2
      BY <2>1, EmptySeq
    <3> QED
      BY <1>6, <2>1, <2>5, <3>1 DEF HeaderFrom, OwnHeader, InStep, First
  <2>7. Rising(y)'
    <3>1. link # "port" => \A j \in 1..Len(received) : received[j].frame <= x.frame
                         /\ \A i, k \in 1..Len(received) : i < k => received[i].frame < received[k].frame
      BY DEF Reader, Rising
    <3>3. \A j \in 1..Len(received) : received[j].frame \in Nat
      BY <1>6, ReceivedFrames
    <3>4. link # "port" => \A j \in 1..Len(received) : received[j].frame < y.frame
      BY <1>6, <1>9, <2>2, <3>1, <3>3
    <3> QED
      BY <1>1, <1>6, <2>1, <3>1, <3>3, <3>4 DEF Rising
  <2> QED
    BY <1>1, <1>7, <1>8, <2>1, <2>6, <2>7 DEF Reader
<1>11. CASE y.byte # Delimiter
  <2>1. reading' = "hunt"
    BY <1>1, <1>3, <1>11
  <2>2. y.place # 1
    BY <1>4, <1>6, <1>11, MarkedDelimiter
  <2>3. First(y, g)'
    <3> SUFFICES ASSUME y.frame = g + 1, Clear(y.frame) PROVE Passed(y.frame)'
      BY <1>1, <2>1 DEF First, Clear
    <3>1. y.frame \notin damaged
      BY DEF Clear
    <3>2. y.frame = x.frame /\ g = h
      BY <1>5, <1>7, <2>2, <3>1 DEF Moves
    <3>3. ~Parsing(x)
      BY <1>1 DEF Parsing, ParsingPart
    <3>4. Passed(y.frame)
      BY <3>2, <3>3 DEF Reader, First
    <3> QED
      BY <1>1, <3>4 DEF Passed
  <2>4. HeaderFrom(y)' /\ OwnHeader(y)' /\ InStep(y, g)'
    BY <2>1 DEF HeaderFrom, OwnHeader, InStep
  <2>5. Rising(y)'
    <3>1. link # "port" => \A j \in 1..Len(received) : received[j].frame <= x.frame
                         /\ \A i, k \in 1..Len(received) : i < k => received[i].frame < received[k].frame
      BY DEF Reader, Rising
    <3>3. \A j \in 1..Len(received) : received[j].frame \in Nat
      BY <1>6, ReceivedFrames
    <3>4. link # "port" => \A j \in 1..Len(received) : received[j].frame <= y.frame
      BY <1>6, <1>9, <3>1, <3>3
    <3> QED
      BY <1>1, <2>1, <3>1, <3>4 DEF Rising
  <2> QED
    BY <1>1, <1>7, <1>8, <2>1, <2>3, <2>4, <2>5 DEF Reader
<1> QED
  BY <1>10, <1>11

LEMMA ReadByteTurns ==
  ASSUME ReadByte
  PROVE  Turn(Head(wire)) /\ wire # <<>> /\ wire' = Tail(wire)
<1>1. PICK y : y = Head(wire)
  OBVIOUS
<1>2. /\ wire # <<>> /\ wire' = Tail(wire)
      /\ reading # "hunt" /\ ~failed /\ Len(buffer) < Size
      /\ header_frame' = IF reading = "header" THEN y.frame ELSE header_frame
      /\ UNCHANGED <<link, sent, write_buffer, out, reading, header, payload, received,
                     unallocated, damaged>>
  BY <1>1 DEF ReadByte, Get, writer
<1>3. \/ /\ Rejects(y.byte) /\ failed' = TRUE /\ UNCHANGED <<buffer, escaped>>
      \/ /\ ~Rejects(y.byte) /\ ~escaped /\ y.byte = Escape
         /\ escaped' = TRUE /\ UNCHANGED <<buffer, failed>>
      \/ /\ ~Rejects(y.byte) /\ (escaped \/ y.byte # Escape)
         /\ buffer' = Append(buffer, IF escaped THEN Unstuffed[y.byte] ELSE y.byte)
         /\ escaped' = FALSE /\ UNCHANGED failed
  BY <1>1 DEF ReadByte, Get
<1>4. Turn(y)
  BY <1>2, <1>3 DEF Turn
<1> QED
  BY <1>1, <1>2, <1>4

\* Reading a part, the reader takes a symbol.
LEMMA ReaderReads ==
  ASSUME Types, NEW x, NEW h, Reader(x, h), ReadByte
  PROVE  \E y, g : Reader(y, g)'
<1>1. PICK y : y = Head(wire)
  OBVIOUS
<1>2. Turn(y) /\ wire # <<>> /\ wire' = Tail(wire)
  BY <1>1, ReadByteTurns
<1>3. /\ reading # "hunt" /\ ~failed /\ Len(buffer) < Size
      /\ header_frame' = IF reading = "header" THEN y.frame ELSE header_frame
      /\ UNCHANGED <<link, sent, write_buffer, out, reading, header, payload, received,
                     unallocated, damaged>>
  BY <1>2 DEF Turn
<1>4. /\ y \in Marked(sent) /\ Stream(sent, damaged, link, y, Tail(wire), write_buffer, out)
      /\ At(sent, y)
  BY <1>1, <1>2, <1>3, Advance DEF Waiting
<1>5. PICK g : Moves(x, h, y, g)
  BY <1>1, <1>2, <1>3, Advance DEF Waiting
<1>6. /\ sent \in Seq(Packets) /\ y.frame \in 1..Len(sent) /\ y.place \in Nat /\ y.frame \in Nat
      /\ x.frame \in Nat /\ x.place \in Nat /\ (x.frame # 0 => x.place # 0) /\ h \in Nat
      /\ Len(sent) \in Nat /\ escaped \in BOOLEAN /\ At(sent, x) /\ x.frame \in 0..Len(sent)
  <2>1. /\ sent \in Seq(Packets) /\ x.frame \in 0..Len(sent) /\ x.place \in Nat
        /\ (x.frame # 0 => x.place # 0) /\ h \in 0..Len(sent) /\ Len(sent) \in Nat
        /\ escaped \in BOOLEAN
    BY ReaderTypes
  <2>2. y.frame \in 1..Len(sent) /\ y.place \in 1..LastPlace(sent, y.frame)
    BY <1>4, <2>1, MarkedIs
  <2> QED
    BY <2>1, <2>2 DEF Reader
<1>7. g \in 0..Len(sent) /\ y.frame <= g + 1 /\ PassedUpTo(g) /\ h <= g
  BY <1>5, <1>6 DEF Moves
<1>8. Stream(sent, damaged, link, y, wire, write_buffer, out)' /\ At(sent, y)' /\ InOrder'
      /\ PassedUpTo(g)'
  <2>1. Stream(sent, damaged, link, y, wire, write_buffer, out)' /\ At(sent, y)'
    BY <1>2, <1>3, <1>4
  <2>2. InOrder'
    BY <1>3 DEF Reader, InOrder, Clear
  <2>3. PassedUpTo(g)'
    BY <1>3, <1>7 DEF PassedUpTo, Clear, Passed
  <2> QED
    BY <2>1, <2>2, <2>3
<1>9. link # "port" => y.frame >= x.frame
  BY <1>5, <1>6 DEF Moves
<1>10. HeaderFrom(y)'
  <2> SUFFICES ASSUME reading = "header"
               PROVE  y.frame \notin damaged /\ ~failed' /\ Len(buffer') = 2 /\ y.place = LastPlace(sent, y.frame)
                      => buffer'[2] \notin Plain
    BY <1>3 DEF HeaderFrom
  <2> SUFFICES ASSUME ~failed', Len(buffer') = 2, y.place = LastPlace(sent, y.frame)
               PROVE  buffer'[2] \notin Plain
    OBVIOUS
  <2>1. Size = 2
    BY DEF Size
  <2>2. buffer \in Seq(AnySymbol(sent)) /\ Len(buffer) \in Nat
    BY LenProperties DEF Types
  <2>3. y.byte \notin Plain
    BY <1>4, <1>6, MarkedDelimiter
  <2>4. ~escaped \/ Rejects(y.byte)
    <3>1. \A b \in DOMAIN Unstuffed : b \in Plain
      BY DEF Unstuffed, Plain
    <3> QED
      BY <2>3, <3>1 DEF Rejects
  <2>5. Len(buffer) # 2
    <3>1. Len(buffer) < 2
      BY <1>3, <2>1
    <3>2. \A n \in Nat : n < 2 => n # 2
      OBVIOUS
    <3> QED
      BY <2>2, <3>1, <3>2
  <2>6. buffer' # buffer
    BY <2>5
  <2>7. ~Rejects(y.byte) /\ buffer' = Append(buffer, IF escaped THEN Unstuffed[y.byte] ELSE y.byte)
    BY <1>2, <2>6 DEF Turn
  <2>8. buffer' = Append(buffer, y.byte)
    BY <2>4, <2>7
  <2>9. Len(buffer') = Len(buffer) + 1 /\ buffer'[Len(buffer) + 1] = y.byte
    BY <2>2, <2>8
  <2>10. Len(buffer) + 1 = 2
    BY <2>9
  <2> QED
    BY <2>3, <2>9, <2>10
<1>11. OwnHeader(y)'
  <2> SUFFICES ASSUME reading \in {"header_crc", "payload", "payload_crc"}, header_frame \notin damaged
               PROVE  Parsing(y)' \/ BadHeader(y)'
    BY <1>3 DEF OwnHeader
  <2>1. CASE BadHeader(x)
    <3>1. Precedes(sent, damaged, link, x, y)
      <4>1. Stream(sent, damaged, link, x, wire, write_buffer, out)
        BY DEF Reader
      <4> QED
        BY <1>1, <1>2, <4>1, StreamTaken
    <3> QED
      BY <1>2, <1>4, <1>6, <2>1, <3>1, BadReads
  <2>2. CASE Parsing(x)
    <3>1. header_frame = x.frame /\ x.frame \notin damaged
      BY <2>2 DEF Parsing
    <3>2. Precedes(sent, damaged, link, x, y)
      <4>1. Stream(sent, damaged, link, x, wire, write_buffer, out)
        BY DEF Reader
      <4> QED
        BY <1>1, <1>2, <4>1, StreamTaken
    <3>3. x.place # LastPlace(sent, x.frame)
      <4> SUFFICES ASSUME x.place = LastPlace(sent, x.frame) PROVE FALSE
        OBVIOUS
      <4>1. reading = "payload_crc" /\ Len(buffer) = Size
        BY <1>6, <2>2, ParsingEnds
      <4>2. Size = 1
        BY <4>1 DEF Size
      <4> QED
        BY <1>3, <4>1, <4>2
    <3>4. x.frame = y.frame /\ y.place = x.place + 1
      BY <3>1, <3>2, <3>3 DEF Precedes, Follows, Ends
    <3> QED
      BY <1>2, <1>4, <1>6, <2>2, <3>4, ParsingReads
  <2> QED
    BY <2>1, <2>2 DEF Reader, OwnHeader
<1>12. ASSUME Parsing(x), y.frame = x.frame, y.place = x.place + 1 PROVE Parsing(y)'
  BY <1>2, <1>4, <1>6, <1>12, ParsingReads
<1>13. InStep(y, g)'
  <2> SUFFICES ASSUME y.frame \notin damaged
               PROVE  Parsing(y)' \/ Swallows(y)' \/ y.frame < g
    BY <1>3, <1>6 DEF InStep
  <2>1. CASE y.frame = x.frame /\ g = h /\ y.place = x.place + 1
    <3>1. x.frame # 0 /\ (Parsing(x) \/ Swallows(x) \/ x.frame < h)
      BY <1>3, <1>6, <2>1 DEF Reader, InStep
    <3>2. CASE Parsing(x)
      BY <1>12, <2>1, <3>2
    <3>3. CASE Swallows(x)
      <4>1. /\ reading = "payload_crc" /\ reading' = "payload_crc" /\ x.place <= 3
            /\ buffer # <<>> \/ x.place <= IF escaped THEN 2 ELSE 1
        BY <1>3, <3>3 DEF Swallows
      <4>2. buffer = <<>>
        <5>1. Size = 1
          BY <4>1 DEF Size
        <5>2. buffer \in Seq(AnySymbol(sent)) /\ Len(buffer) \in Nat
          BY LenProperties DEF Types
        <5>3. Len(buffer) < 1
          BY <1>3, <5>1
        <5>4. Len(buffer) = 0
          BY <5>2, <5>3
        <5> QED
          BY <5>2, <5>4, EmptySeq
      <4>3. y.place <= 3
        BY <1>6, <2>1, <4>1, <4>2
      <4>4. CASE Rejects(y.byte)
        <5>1. failed'
          BY <1>2, <4>4 DEF Turn
        <5> QED
          BY <4>1, <4>3, <5>1 DEF Swallows
      <4>5. CASE ~Rejects(y.byte) /\ ~escaped /\ y.byte = Escape
        <5>1. escaped' /\ y.place <= 2
          BY <1>2, <1>6, <2>1, <4>1, <4>2, <4>5 DEF Turn
        <5> QED
          BY <4>1, <4>3, <5>1 DEF Swallows
      <4>6. CASE ~Rejects(y.byte) /\ ~(~escaped /\ y.byte = Escape)
        <5>0. PICK v : v = IF escaped THEN Unstuffed[y.byte] ELSE y.byte
          OBVIOUS
        <5>1. buffer' # <<>>
          <6>1. buffer' = Append(<<>>, v)
            BY <1>2, <4>2, <4>6, <5>0 DEF Turn
          <6> QED
            BY <6>1
        <5> QED
          BY <4>1, <4>3, <5>1 DEF Swallows
      <4> QED
        BY <4>4, <4>5, <4>6
    <3>4. CASE x.frame < h
      BY <2>1, <3>4
    <3> QED
      BY <3>1, <3>2, <3>3, <3>4
  <2>2. CASE x.frame < y.frame /\ y.place = 1
    <3>1. y.byte = Delimiter
      BY <1>4, <1>6, <2>2, MarkedDelimiter
    <3>2. Rejects(y.byte)
      BY <3>1, StuffedTwo DEF Rejects, Unstuffed, Delimiter
    <3>3. failed'
      BY <1>2, <3>2 DEF Turn
    <3> QED
      BY <2>2, <3>3 DEF Swallows
  <2>3. CASE y.frame < g
    BY <2>3
  <2> QED
    BY <1>3, <1>5, <2>1, <2>2, <2>3 DEF Moves
<1>14. First(y, g)'
  <2> SUFFICES ASSUME y.frame = g + 1, Clear(y.frame) PROVE Parsing(y)'
    BY <1>3 DEF First, Clear
  <2>1. y.frame = x.frame /\ g = h /\ y.place = x.place + 1
    BY <1>3, <1>5, <1>6, <1>7 DEF Moves, Clear
  <2>2. Parsing(x)
    BY <1>3, <2>1 DEF Reader, First
  <2> QED
    BY <1>12, <2>1, <2>2
<1>15. Rising(y)'
  <2> SUFFICES ASSUME link # "port" PROVE Rising(y)'
    BY <1>3 DEF Rising
  <2>1. /\ \A j \in 1..Len(received) : received[j].frame <= x.frame
        /\ \A i, k \in 1..Len(received) : i < k => received[i].frame < received[k].frame
        /\ header_frame <= x.frame
        /\ \A j \in 1..Len(received) : received[j].frame < header_frame
    BY <1>3 DEF Reader, Rising
  <2>2. reading = "header" => header_frame = x.frame
    BY DEF Reader, HeaderFrom
  <2>3. \A j \in 1..Len(received) : received[j].frame \in Nat
    BY <1>6, ReceivedFrames
  <2>4. \A j \in 1..Len(received) : received[j].frame <= y.frame
    BY <1>6, <1>9, <2>1, <2>3
  <2>5. header_frame' <= y.frame /\ \A j \in 1..Len(received) : received[j].frame < header_frame'
    <3>1. header_frame \in Nat
      BY <1>3, <1>6 DEF Types
    <3> QED
      BY <1>3, <1>6, <1>9, <2>1, <2>2, <2>3, <3>1
  <2> QED
    BY <1>3, <2>1, <2>4, <2>5 DEF Rising
<1>16. header_frame' <= g + 1
  <2>1. header_frame <= h + 1 /\ header_frame \in Nat
    BY <1>3, <1>6 DEF Reader, Types
  <2> QED
    BY <1>3, <1>6, <1>7, <2>1
<1> QED
  BY <1>3, <1>7, <1>8, <1>10, <1>11, <1>13, <1>14, <1>15, <1>16 DEF Reader

-----------------------------------------------------------------------------
(* The reader goes on to the next part, or returns *)

\* A whole part has been read.
LEMMA PartRead ==
  ASSUME NEW bytes \in Seq(Plain), NEW t, escaped \in BOOLEAN,
         Reads(bytes, t, buffer, escaped), Len(buffer) = Len(bytes)
  PROVE  buffer = bytes /\ t = Len(Stuff(bytes))
BY ReadsAt

\* Nothing but the reader's own state changes: what the rest of it says stays.
LEMMA ReaderRests ==
  ASSUME Types, NEW x, NEW h, Reader(x, h),
         UNCHANGED <<link, sent, damaged, wire, write_buffer, out>>,
         unallocated \subseteq unallocated',
         received' = received \/ (\E r : received' = Append(received, r))
  PROVE  /\ Stream(sent, damaged, link, x, wire, write_buffer, out)' /\ At(sent, x)'
         /\ PassedUpTo(h)' /\ (received' = received => InOrder')
         /\ \A n : (Passed(n) => Passed(n)') /\ (Clear(n)' <=> Clear(n))
<1>1. Stream(sent, damaged, link, x, wire, write_buffer, out) /\ At(sent, x) /\ PassedUpTo(h) /\ InOrder
  BY DEF Reader
<1>2. Stream(sent, damaged, link, x, wire, write_buffer, out)' /\ At(sent, x)'
  BY <1>1
<1>3. sent \in Seq(Packets) /\ Len(received) \in Nat
  BY ReaderTypes, ReceivedFrames
<1>4. Len(received) \in 0..Len(received') /\ \A k \in 1..Len(received) : received'[k] = received[k]
  <2>1. CASE received' = received
    BY <1>3, <2>1
  <2>2. CASE \E r : received' = Append(received, r)
    <3>1. PICK r : received' = Append(received, r)
      BY <2>2
    <3>2. PICK S : S = Returned(sent) \cup {r}
      OBVIOUS
    <3>3. received \in Seq(Returned(sent))
      BY DEF Types
    <3>4. Returned(sent) \subseteq S /\ r \in S
      BY <3>2
    <3>5. received \in Seq(S)
      BY <3>3, <3>4
    <3>6. Len(received') = Len(received) + 1 /\ \A k \in 1..Len(received) : received'[k] = received[k]
      BY <3>1, <3>4, <3>5, AppendProperties
    <3> QED
      BY <1>3, <3>6
  <2> QED
    BY <2>1, <2>2
<1>5. ASSUME NEW n, Passed(n) PROVE Passed(n)'
  <2>1. CASE n \in unallocated
    BY <2>1 DEF Passed
  <2>2. CASE \E k \in 1..Len(received) : received[k].frame = n
    <3>1. PICK k \in 1..Len(received) : received[k].frame = n
      BY <2>2
    <3>2. k \in 1..Len(received') /\ received'[k].frame = n
      BY <1>3, <1>4, <3>1
    <3> QED
      BY <3>2 DEF Passed
  <2> QED
    BY <1>5, <2>1, <2>2 DEF Passed
<1>6. \A n : Clear(n)' <=> Clear(n)
  BY DEF Clear
<1>7. PassedUpTo(h)'
  BY <1>1, <1>5, <1>6 DEF PassedUpTo
<1>8. received' = received => InOrder'
  BY <1>1, <1>6 DEF InOrder
<1> QED
  BY <1>2, <1>5, <1>6, <1>7, <1>8

LEMMA ReaderOfHeader ==
  ASSUME Types, NEW x, NEW h, Reader(x, h), HeaderRead
  PROVE  Reader(x, h)'
<1>1. /\ reading = "header"
      /\ failed \/ Len(buffer) = Size
      /\ UNCHANGED <<link, sent, damaged, wire, write_buffer, out, payload, header_frame, received,
                     unallocated>>
  BY DEF HeaderRead, Done, writer
<1>2. /\ Stream(sent, damaged, link, x, wire, write_buffer, out)' /\ At(sent, x)'
      /\ PassedUpTo(h)' /\ InOrder' /\ \A n : (Passed(n) => Passed(n)') /\ (Clear(n)' <=> Clear(n))
  BY <1>1, ReaderRests
<1>3. /\ HeaderFrom(x) /\ InStep(x, h) /\ First(x, h) /\ Rising(x) /\ escaped \in BOOLEAN
      /\ sent \in Seq(Packets) /\ header_frame <= h + 1
  BY <1>1, ReaderTypes DEF Reader
<1>4. CASE failed
  <2>1. reading' = "hunt"
    BY <1>1, <1>4 DEF HeaderRead, Return, Begin
  <2>2. ~Parsing(x)
    BY <1>4 DEF Parsing
  <2>3. First(x, h)'
    BY <1>1, <1>2, <1>3, <2>1, <2>2 DEF First
  <2>4. HeaderFrom(x)' /\ OwnHeader(x)' /\ InStep(x, h)'
    BY <2>1 DEF HeaderFrom, OwnHeader, InStep
  <2>5. Rising(x)'
    BY <1>1, <1>3, <2>1 DEF Rising
  <2> QED
    BY <1>1, <1>2, <2>1, <2>3, <2>4, <2>5 DEF Reader
<1>5. CASE ~failed
  <2>1. /\ reading' = "header_crc" /\ buffer' = <<>> /\ escaped' = FALSE /\ failed' = FALSE
        /\ header' = buffer /\ Len(buffer) = 2
    BY <1>1, <1>5 DEF HeaderRead, Begin, Size
  <2>2. Parsing(x) => Parsing(x)'
    <3> SUFFICES ASSUME Parsing(x) PROVE Parsing(x)'
      OBVIOUS
    <3>1. PICK p, q : p = sent[x.frame] /\ q = x.place
      OBVIOUS
    <3>2. p \in Packets
      <4>1. x.frame \in 1..Len(sent)
        BY DEF Parsing, Reader, At
      <4> QED
        BY <1>3, <3>1, <4>1, ElementOfSeq
    <3>3. Reads(Header(p), q - 1, buffer, escaped)
      BY <1>1, <3>1 DEF Parsing, ParsingPart
    <3>4. buffer = Header(p) /\ q - 1 = HeaderSize(p)
      <4>1. Header(p) \in Seq(Plain) /\ Len(Header(p)) = 2
        BY <3>2, PacketTypes
      <4> QED
        BY <1>3, <2>1, <3>3, <4>1, PartRead DEF HeaderSize
    <3>5. q = HeaderSize(p) + 1
      <4>1. q \in Nat
        BY <3>1, ReaderTypes
      <4>2. HeaderSize(p) \in Nat
        BY <3>2, FrameShape
      <4> QED
        BY <3>4, <4>1, <4>2
    <3>6. ParsingPart(p, q)'
      BY <2>1, <3>4, <3>5 DEF ParsingPart
    <3> QED
      BY <1>1, <2>1, <3>1, <3>6 DEF Parsing
  <2>3. HeaderFrom(x)'
    BY <2>1 DEF HeaderFrom
  <2>4. OwnHeader(x)'
    <3> SUFFICES ASSUME header_frame \notin damaged PROVE BadHeader(x)'
      BY <1>1 DEF OwnHeader
    <3>1. /\ x.frame = header_frame
          /\ x.place = LastPlace(sent, x.frame) => buffer[2] \notin Plain
      BY <1>1, <1>3, <1>5, <2>1 DEF HeaderFrom
    <3> QED
      BY <1>1, <2>1, <3>1 DEF BadHeader
  <2>5. InStep(x, h)'
    <3>1. ~Swallows(x)
      BY <1>1, <1>5 DEF Swallows
    <3> QED
      BY <1>1, <1>3, <2>2, <3>1 DEF InStep
  <2>6. First(x, h)'
    BY <1>1, <1>2, <1>3, <2>2 DEF First
  <2>7. Rising(x)'
    BY <1>1, <1>3, <2>1 DEF Rising
  <2> QED
    BY <1>1, <1>2, <1>3, <2>1, <2>3, <2>4, <2>5, <2>6, <2>7 DEF Reader
<1> QED
  BY <1>3, <1>4, <1>5

LEMMA ReaderOfHeaderCrc ==
  ASSUME Types, NEW x, NEW h, Reader(x, h), HeaderChecked
  PROVE  Reader(x, h)'
<1>1. /\ reading = "header_crc"
      /\ failed \/ Len(buffer) = 1
      /\ UNCHANGED <<link, sent, damaged, wire, write_buffer, out, payload, header, header_frame,
                     received>>
      /\ unallocated \subseteq unallocated'
  BY DEF HeaderChecked, Done, writer, Size
<1>2. /\ Stream(sent, damaged, link, x, wire, write_buffer, out)' /\ At(sent, x)'
      /\ PassedUpTo(h)' /\ InOrder' /\ \A n : (Passed(n) => Passed(n)') /\ (Clear(n)' <=> Clear(n))
  BY <1>1, ReaderRests
<1>3. /\ OwnHeader(x) /\ InStep(x, h) /\ First(x, h) /\ Rising(x) /\ escaped \in BOOLEAN
      /\ sent \in Seq(Packets) /\ header_frame <= h + 1
  BY <1>1, ReaderTypes DEF Reader
<1>4. PICK p, q : p = sent[x.frame] /\ q = x.place
  OBVIOUS
<1>5. ASSUME Parsing(x)
      PROVE  /\ p \in Packets /\ header = Header(p) /\ ~failed /\ header_frame = x.frame /\ x.frame # 0
             /\ q = HeaderSize(p) + 2 /\ buffer[1] = Crc16(header)
  <2>1. p \in Packets
    <3>1. x.frame \in 1..Len(sent)
      BY <1>5 DEF Parsing, Reader, At
    <3> QED
      BY <1>3, <1>4, <3>1, ElementOfSeq
  <2>2. /\ header = Header(p) /\ ~failed /\ header_frame = x.frame /\ x.frame # 0
        /\ \/ buffer = <<>>
           \/ q = HeaderSize(p) + 2 /\ buffer = <<Crc16(Header(p))>>
    BY <1>1, <1>4, <1>5 DEF Parsing, ParsingPart
  <2>3. buffer # <<>>
    <3>1. Len(buffer) = 1 /\ Len(<<>>) = 0
      BY <1>1, <2>2
    <3> QED
      BY <3>1
  <2> QED
    BY <2>1, <2>2, <2>3
<1>6. CASE Return /\ (Parsing(x) => header_frame \in unallocated')
  <2>1. reading' = "hunt"
    BY <1>6 DEF Return, Begin
  <2>2. First(x, h)'
    <3> SUFFICES ASSUME x.frame = h + 1, Clear(x.frame) PROVE Passed(x.frame)'
      BY <1>2, <2>1 DEF First
    <3>1. Parsing(x)
      BY <1>1, <1>3 DEF First
    <3> QED
      BY <1>5, <1>6, <3>1 DEF Passed
  <2>3. HeaderFrom(x)' /\ OwnHeader(x)' /\ InStep(x, h)'
    BY <2>1 DEF HeaderFrom, OwnHeader, InStep
  <2>4. Rising(x)'
    BY <1>1, <1>3, <2>1 DEF Rising
  <2> QED
    BY <1>1, <1>2, <2>1, <2>2, <2>3, <2>4 DEF Reader
<1>7. CASE ~failed /\ buffer[1] = Crc16(header) /\ Begin("payload")
  <2>1. reading' = "payload" /\ buffer' = <<>> /\ escaped' = FALSE /\ failed' = FALSE
    BY <1>7 DEF Begin
  <2>2. Parsing(x) => Parsing(x)'
    <3> SUFFICES ASSUME Parsing(x) PROVE Parsing(x)'
      OBVIOUS
    <3>1. Reads(p.payload, 0, <<>>, FALSE)
      BY <1>5, PacketTypes, ReadsNone
    <3>2. q - HeaderSize(p) - 2 = 0
      <4>1. HeaderSize(p) \in Nat
        BY <1>5, FrameShape
      <4> QED
        BY <1>5, <4>1
    <3>3. ParsingPart(p, q)'
      <4>1. Reads(p.payload, q - HeaderSize(p) - 2, buffer', escaped')
        BY <2>1, <3>1, <3>2
      <4>2. header' = Header(p)
        BY <1>1, <1>5
      <4> QED
        BY <2>1, <4>1, <4>2 DEF ParsingPart
    <3> QED
      BY <1>1, <1>4, <1>5, <2>1, <3>3 DEF Parsing
  <2>3. HeaderFrom(x)'
    BY <2>1 DEF HeaderFrom
  <2>4. ~BadHeader(x)
    <3>1. buffer # <<>>
      BY <1>1, <1>7, EmptySeq
    <3> QED
      BY <1>7, <3>1 DEF BadHeader
  <2>5. OwnHeader(x)'
    BY <1>1, <1>3, <2>2, <2>4 DEF OwnHeader
  <2>6. InStep(x, h)'
    <3>1. ~Swallows(x)
      BY <1>1, <1>7 DEF Swallows
    <3> QED
      BY <1>1, <1>3, <2>2, <3>1 DEF InStep
  <2>7. First(x, h)'
    BY <1>1, <1>2, <1>3, <2>2 DEF First
  <2>8. Rising(x)'
    BY <1>1, <1>3, <2>1 DEF Rising
  <2> QED
    BY <1>1, <1>2, <1>3, <2>1, <2>3, <2>5, <2>6, <2>7, <2>8 DEF Reader
<1>8. \/ Return /\ (Parsing(x) => header_frame \in unallocated')
      \/ ~failed /\ buffer[1] = Crc16(header) /\ Begin("payload")
  <2>1. CASE ~(~failed /\ buffer[1] = Crc16(header)) /\ Return
    BY <1>5, <2>1
  <2>2. CASE Return /\ unallocated' = unallocated \cup {header_frame}
    BY <2>2
  <2>3. CASE (~failed /\ buffer[1] = Crc16(header)) /\ Begin("payload")
    BY <2>3
  <2> QED
    BY <2>1, <2>2, <2>3 DEF HeaderChecked
<1> QED
  BY <1>6, <1>7, <1>8

LEMMA ReaderOfPayload ==
  ASSUME Types, NEW x, NEW h, Reader(x, h), PayloadRead
  PROVE  Reader(x, h)'
<1>1. /\ reading = "payload"
      /\ failed \/ Len(buffer) = Size
      /\ payload' = IF failed THEN None ELSE buffer
      /\ reading' = "payload_crc" /\ buffer' = <<>> /\ escaped' = FALSE /\ failed' = FALSE
      /\ UNCHANGED <<link, sent, damaged, wire, write_buffer, out, header, header_frame, received,
                     unallocated>>
  BY DEF PayloadRead, Done, Begin, writer
<1>2. /\ Stream(sent, damaged, link, x, wire, write_buffer, out)' /\ At(sent, x)'
      /\ PassedUpTo(h)' /\ InOrder' /\ \A n : (Passed(n) => Passed(n)') /\ (Clear(n)' <=> Clear(n))
  BY <1>1, ReaderRests
<1>3. /\ OwnHeader(x) /\ InStep(x, h) /\ First(x, h) /\ Rising(x) /\ escaped \in BOOLEAN
      /\ sent \in Seq(Packets) /\ header_frame <= h + 1
  BY <1>1, ReaderTypes DEF Reader
<1>4. PICK p, q : p = sent[x.frame] /\ q = x.place
  OBVIOUS
<1>5. Parsing(x) => Parsing(x)'
  <2> SUFFICES ASSUME Parsing(x) PROVE Parsing(x)'
    OBVIOUS
  <2>1. p \in Packets
    <3>1. x.frame \in 1..Len(sent)
      BY DEF Parsing, Reader, At
    <3> QED
      BY <1>3, <1>4, <3>1, ElementOfSeq
  <2>2. /\ header = Header(p) /\ ~failed /\ header_frame = x.frame /\ x.frame # 0
        /\ Reads(p.payload, q - HeaderSize(p) - 2, buffer, escaped)
    BY <1>1, <1>4 DEF Parsing, ParsingPart
  <2>3. p.payload \in Seq(Plain) /\ Header(p)[2][1] = Len(p.payload)
    BY <2>1, PacketTypes
  <2>4. Len(buffer) = Len(p.payload)
    <3>1. Size = header[2][1]
      BY <1>1 DEF Size
    <3> QED
      BY <1>1, <2>2, <2>3, <3>1
  <2>5. buffer = p.payload /\ q - HeaderSize(p) - 2 = PayloadSize(p)
    BY <1>3, <2>2, <2>3, <2>4, PartRead DEF PayloadSize
  <2>6. q = HeaderSize(p) + PayloadSize(p) + 2
    <3>1. q \in Nat
      BY <1>4, ReaderTypes
    <3>2. HeaderSize(p) \in Nat /\ PayloadSize(p) \in Nat
      BY <2>1, FrameShapeIs DEF FrameIs
    <3> QED
      BY <2>5, <3>1, <3>2
  <2>7. ParsingPart(p, q)'
    BY <1>1, <2>2, <2>5, <2>6 DEF ParsingPart
  <2> QED
    BY <1>1, <1>4, <2>2, <2>7 DEF Parsing
<1>6. HeaderFrom(x)'
  BY <1>1 DEF HeaderFrom
<1>7. OwnHeader(x)'
  <2>1. ~BadHeader(x)
    BY <1>1 DEF BadHeader
  <2> QED
    BY <1>1, <1>3, <1>5, <2>1 DEF OwnHeader
<1>8. Swallows(x) => Swallows(x)'
  BY <1>1, ReaderTypes DEF Swallows
<1>9. InStep(x, h)'
  BY <1>1, <1>3, <1>5, <1>8 DEF InStep
<1>10. First(x, h)'
  BY <1>1, <1>2, <1>3, <1>5 DEF First
<1>11. Rising(x)'
  BY <1>1, <1>3 DEF Rising
<1> QED
  BY <1>1, <1>2, <1>3, <1>6, <1>7, <1>9, <1>10, <1>11 DEF Reader

LEMMA ReaderOfPayloadCrc ==
  ASSUME Types, NEW x, NEW h, Reader(x, h), PayloadChecked
  PROVE  Reader(x, h)'
<1>1. /\ reading = "payload_crc"
      /\ failed \/ Len(buffer) = 1
      /\ reading' = "hunt"
      /\ UNCHANGED <<link, sent, damaged, wire, write_buffer, out, header, header_frame, unallocated>>
  BY DEF PayloadChecked, Done, Return, Begin, writer, Size
<1>2. PICK r : r = [frame |-> header_frame, packet |-> [id |-> header[1], payload |-> payload]]
  OBVIOUS
<1>3. \/ PayloadValid /\ received' = Append(received, r)
      \/ ~PayloadValid /\ received' = received
  BY <1>2 DEF PayloadChecked
<1>4. /\ Stream(sent, damaged, link, x, wire, write_buffer, out)' /\ At(sent, x)'
      /\ PassedUpTo(h)' /\ (received' = received => InOrder')
      /\ \A n : (Passed(n) => Passed(n)') /\ (Clear(n)' <=> Clear(n))
  <2>1. received' = received \/ \E a : received' = Append(received, a)
    BY <1>3
  <2> QED
    BY <1>1, <2>1, ReaderRests
<1>5. /\ First(x, h) /\ Rising(x) /\ PassedUpTo(h) /\ InOrder
      /\ sent \in Seq(Packets) /\ header_frame <= h + 1 /\ h \in Nat
      /\ header_frame \in 1..Len(sent) /\ Len(sent) \in Nat
      /\ Len(received) \in Nat
  BY <1>1, ReaderTypes, ReceivedFrames DEF Reader, Types
<1>6. ASSUME Parsing(x) PROVE PayloadValid /\ header_frame = x.frame
  <2>1. PICK p, q : p = sent[x.frame] /\ q = x.place
    OBVIOUS
  <2>2. p \in Packets
    <3>1. x.frame \in 1..Len(sent)
      BY <1>6 DEF Parsing, Reader, At
    <3> QED
      BY <1>5, <2>1, <3>1, ElementOfSeq
  <2>3. /\ payload = p.payload /\ ~failed /\ header_frame = x.frame
        /\ buffer = <<>> \/ buffer = <<Crc32(p.payload)>>
    BY <1>1, <1>6, <2>1 DEF Parsing, ParsingPart
  <2>4. buffer # <<>>
    <3>1. Len(buffer) = 1 /\ Len(<<>>) = 0
      BY <1>1, <2>3
    <3> QED
      BY <3>1
  <2>5. buffer[1] = Crc32(payload)
    BY <2>3, <2>4
  <2>6. payload # None
    BY <2>2, <2>3, SerialAssumption
  <2> QED
    BY <2>3, <2>5, <2>6 DEF PayloadValid, payload_crc
<1>7. HeaderFrom(x)' /\ OwnHeader(x)' /\ InStep(x, h)'
  BY <1>1 DEF HeaderFrom, OwnHeader, InStep
<1>8. CASE ~PayloadValid
  <2>1. First(x, h)'
    BY <1>1, <1>4, <1>5, <1>6, <1>8 DEF First
  <2>2. received' = received
    BY <1>3, <1>8
  <2>3. Rising(x)'
    BY <1>1, <1>5, <2>2 DEF Rising
  <2> QED
    BY <1>1, <1>4, <1>7, <2>1, <2>2, <2>3 DEF Reader
<1>9. CASE PayloadValid
  <2>1. PICK m, S : m = Len(received) /\ S = Returned(sent) \cup {r}
    OBVIOUS
  <2>2. /\ m \in Nat /\ Len(received') = m + 1 /\ received'[m + 1] = r
        /\ \A k \in 1..m : received'[k] = received[k]
    <3>1. received \in Seq(Returned(sent))
      BY DEF Types
    <3>2. Returned(sent) \subseteq S /\ r \in S
      BY <2>1
    <3>3. received \in Seq(S)
      BY <3>1, <3>2
    <3> QED
      BY <1>3, <1>5, <1>9, <2>1, <3>2, <3>3, AppendProperties
  <2>3. r.frame = header_frame
    BY <1>2
  <2>4. Passed(header_frame)'
    <3>1. m + 1 \in 1..Len(received')
      BY <2>2
    <3>2. received'[m + 1].frame = header_frame'
      BY <1>1, <2>2, <2>3
    <3> QED
      BY <3>1, <3>2 DEF Passed
  <2>5. First(x, h)'
    BY <1>1, <1>4, <1>5, <1>6, <2>4 DEF First
  <2>6. InOrder'
    <3> SUFFICES ASSUME NEW j \in 1..m + 1, NEW n \in 1..received'[j].frame,
                        Clear(n), n \notin unallocated
                 PROVE  \E i \in 1..j : received'[i].frame = n
      BY <1>1, <1>4, <2>2 DEF InOrder
    <3>1. CASE j \in 1..m
      <4>1. n \in 1..received[j].frame
        BY <2>2, <3>1
      <4>2. PICK i \in 1..j : received[i].frame = n
        BY <1>5, <2>1, <3>1, <4>1 DEF InOrder
      <4>3. i \in 1..m
        BY <2>2, <3>1
      <4> QED
        BY <2>2, <4>2, <4>3
    <3>2. CASE j = m + 1
      <4>1. n \in 1..header_frame
        BY <2>2, <2>3, <3>2
      <4>2. CASE n = header_frame
        <5>1. m + 1 \in 1..j
          BY <2>2, <3>2
        <5> QED
          BY <2>2, <2>3, <4>2, <5>1
      <4>3. CASE n # header_frame
        <5>1. n \in 1..h
          BY <1>5, <4>1, <4>3
        <5>2. PICK i \in 1..m : received[i].frame = n
          BY <1>5, <2>1, <5>1 DEF PassedUpTo, Passed
        <5>3. i \in 1..j
          BY <2>2, <3>2
        <5> QED
          BY <2>2, <5>2, <5>3
      <4> QED
        BY <4>2, <4>3
    <3> QED
      BY <2>2, <3>1, <3>2
  <2>7. Rising(x)'
    <3> SUFFICES ASSUME link # "port" PROVE Rising(x)'
      BY <1>1 DEF Rising
    <3>1. /\ \A j \in 1..m : received[j].frame <= x.frame
          /\ \A i, k \in 1..m : i < k => received[i].frame < received[k].frame
          /\ header_frame <= x.frame
          /\ \A j \in 1..m : received[j].frame < header_frame
      BY <1>1, <1>5, <2>1 DEF Rising
    <3>2. \A j \in 1..m + 1 : j \in 1..m \/ j = m + 1
      BY <2>2
    <3>3. \A j \in 1..m + 1 : received'[j].frame <= x.frame
      BY <2>2, <2>3, <3>1, <3>2
    <3>4. ASSUME NEW i \in 1..m + 1, NEW k \in 1..m + 1, i < k
          PROVE  received'[i].frame < received'[k].frame
      <4>1. i \in 1..m
        BY <2>2, <3>4
      <4>2. CASE k \in 1..m
        BY <2>2, <3>1, <3>4, <4>1, <4>2
      <4>3. CASE k = m + 1
        BY <2>2, <2>3, <3>1, <4>1, <4>3
      <4> QED
        BY <3>2, <4>2, <4>3
    <3> QED
      BY <1>1, <2>2, <3>3, <3>4 DEF Rising
  <2> QED
    BY <1>1, <1>4, <1>7, <2>5, <2>6, <2>7 DEF Reader
<1> QED
  BY <1>8, <1>9

-----------------------------------------------------------------------------
(* The sender, and a byte that is lost: x and h stay *)

LEMMA ReaderElsewhere ==
  ASSUME Types, NEW x, NEW h, Reader(x, h),
         UNCHANGED <<link, reading, buffer, escaped, failed, header, payload, header_frame,
                     received, unallocated>>,
         damaged \subseteq damaged', Len(sent) <= Len(sent'), sent' \in Seq(Packets),
         \A n \in 1..Len(sent) : sent'[n] = sent[n],
         Stream(sent, damaged, link, x, wire, write_buffer, out)'
  PROVE  Reader(x, h)'
<1>1. /\ sent \in Seq(Packets) /\ Len(sent) \in Nat /\ h \in 0..Len(sent) /\ x.frame \in 0..Len(sent)
      /\ Len(sent') \in Nat /\ x.frame \in Nat
  <2>1. Len(sent') \in Nat
    BY LenProperties
  <2> QED
    BY <2>1, ReaderTypes
<1>2. LastPlace(sent, x.frame)' = LastPlace(sent, x.frame)
  <2>1. x.frame # 0 => x.frame \in 1..Len(sent)
    BY <1>1
  <2> QED
    BY <2>1 DEF LastPlace
<1>3. At(sent, x)' /\ h \in 0..Len(sent')
  <2>1. At(sent, x)
    BY DEF Reader
  <2>2. 1..Len(sent) \subseteq 1..Len(sent') /\ 0..Len(sent) \subseteq 0..Len(sent')
    BY <1>1
  <2> QED
    BY <1>1, <1>2, <2>1, <2>2 DEF At
<1>4. Parsing(x) => Parsing(x)'
  <2> SUFFICES ASSUME Parsing(x) PROVE Parsing(x)'
    OBVIOUS
  <2>1. x.frame # 0
    BY DEF Parsing
  <2>2. x.frame \in 1..Len(sent)
    BY <1>1, <2>1
  <2>3. sent'[x.frame] = sent[x.frame]
    BY <2>2
  <2> QED
    BY <2>3 DEF Parsing, ParsingPart
<1>5. BadHeader(x) => BadHeader(x)'
  BY <1>2 DEF BadHeader
<1>6. Swallows(x) => Swallows(x)'
  BY DEF Swallows
<1>7. \A n : (Clear(n)' => Clear(n)) /\ (Passed(n)' <=> Passed(n))
  BY DEF Clear, Passed
<1>8. HeaderFrom(x)'
  BY <1>2 DEF Reader, HeaderFrom
<1>9. OwnHeader(x)'
  BY <1>4, <1>5 DEF Reader, OwnHeader
<1>10. InStep(x, h)'
  BY <1>4, <1>6 DEF Reader, InStep
<1>11. First(x, h)'
  BY <1>4, <1>7 DEF Reader, First
<1>12. PassedUpTo(h)'
  BY <1>7 DEF Reader, PassedUpTo
<1>13. InOrder'
  BY <1>7 DEF Reader, InOrder
<1>14. Rising(x)'
  BY DEF Reader, Rising
<1> QED
  BY <1>3, <1>8, <1>9, <1>10, <1>11, <1>12, <1>13, <1>14 DEF Reader

\* What the sender and the way do to the stream.
LEMMA Sends ==
  ASSUME Types, NEW x, NEW h, Reader(x, h), NEW p \in Packets, Send(p)
  PROVE  Reader(x, h)'
<1>1. /\ out = <<>> /\ sent' = Append(sent, p) /\ out' = Frame(p)
      /\ UNCHANGED <<link, write_buffer, wire, reading, buffer, escaped, failed, header, payload,
                     header_frame, received, unallocated, damaged>>
  BY DEF Send, reader
<1>2. sent \in Seq(Packets) /\ x.frame \in 0..Len(sent) /\ Len(sent) \in Nat
  BY ReaderTypes
<1>3. PICK t : t = Append(sent, p)
  OBVIOUS
<1>4. t \in Seq(Packets) /\ Len(sent) <= Len(t) /\ \A n \in 1..Len(sent) : t[n] = sent[n]
  <2>1. t \in Seq(Packets) /\ Len(t) = Len(sent) + 1 /\ \A n \in 1..Len(sent) : t[n] = sent[n]
    BY <1>2, <1>3, AppendProperties
  <2> QED
    BY <1>2, <2>1
<1>5. Stream(t, damaged, link, x, wire, write_buffer, Frame(p))
  <2>1. Stream(sent, damaged, link, x, wire, write_buffer, <<>>)
    BY <1>1 DEF Reader
  <2> QED
    BY <1>2, <1>3, <2>1, StreamSent
<1>6. Stream(sent, damaged, link, x, wire, write_buffer, out)'
  BY <1>1, <1>3, <1>5
<1> QED
  BY <1>1, <1>3, <1>4, <1>6, ReaderElsewhere

LEMMA NextByteIs == ASSUME TRUE PROVE NextByte = ByteOf(sent, out)
BY DEF NextByte, ByteOf

LEMMA Puts ==
  ASSUME Types, NEW x, NEW h, Reader(x, h), Put
  PROVE  Reader(x, h)'
<1>1. /\ link = "usb" /\ out # <<>> /\ wire' = Append(wire, ByteOf(sent, out)) /\ out' = Tail(out)
      /\ UNCHANGED <<link, sent, write_buffer, reading, buffer, escaped, failed, header, payload,
                     header_frame, received, unallocated, damaged>>
  BY NextByteIs DEF Put, reader
<1>2. sent \in Seq(Packets) /\ Len(sent) \in Nat
  BY ReaderTypes
<1>3. write_buffer = <<>>
  BY <1>1 DEF Types
<1>4. PICK y : y = ByteOf(sent, out)
  OBVIOUS
<1>5. Stream(sent, damaged, link, x, Append(wire, y), <<>>, Tail(out))
  <2>1. Stream(sent, damaged, link, x, wire, <<>>, out)
    BY <1>3 DEF Reader
  <2>2. y = [byte |-> Head(out), frame |-> Len(sent),
             place |-> Len(Frame(sent[Len(sent)])) - Len(out) + 1]
    BY <1>4 DEF ByteOf
  <2> QED
    BY <1>1, <2>1, <2>2, StreamPut
<1>6. Stream(sent, damaged, link, x, wire, write_buffer, out)'
  BY <1>1, <1>3, <1>4, <1>5
<1> QED
  BY <1>1, <1>2, <1>6, ReaderElsewhere

LEMMA Cuts ==
  ASSUME Types, NEW x, NEW h, Reader(x, h), PutFails
  PROVE  Reader(x, h)'
<1>1. /\ link = "usb" /\ out # <<>> /\ out' = <<>> /\ damaged' = damaged \cup {Len(sent)}
      /\ UNCHANGED <<link, sent, write_buffer, wire, reading, buffer, escaped, failed, header,
                     payload, header_frame, received, unallocated>>
  BY DEF PutFails, reader
<1>2. sent \in Seq(Packets) /\ Len(sent) \in Nat /\ x.frame \in 0..Len(sent)
  BY ReaderTypes
<1>3. write_buffer = <<>>
  BY <1>1 DEF Types
<1>4. PICK e : e = damaged \cup {Len(sent)}
  OBVIOUS
<1>5. Stream(sent, e, link, x, wire, <<>>, <<>>)
  <2>1. Stream(sent, damaged, link, x, wire, <<>>, out)
    BY <1>3 DEF Reader
  <2> QED
    BY <1>1, <1>2, <1>4, <2>1, StreamCut
<1>6. Stream(sent, damaged, link, x, wire, write_buffer, out)'
  BY <1>1, <1>3, <1>4, <1>5
<1>7. damaged \subseteq damaged'
  BY <1>1
<1>8. /\ UNCHANGED <<link, reading, buffer, escaped, failed, header, payload, header_frame,
                     received, unallocated>>
      /\ Len(sent) <= Len(sent') /\ sent' \in Seq(Packets)
      /\ \A n \in 1..Len(sent) : sent'[n] = sent[n]
  BY <1>1, <1>2
<1> QED
  BY <1>6, <1>7, <1>8, ReaderElsewhere

LEMMA Buffers ==
  ASSUME Types, NEW x, NEW h, Reader(x, h), PutBuffered
  PROVE  Reader(x, h)'
<1>1. PICK full, c, y : /\ full = (Len(write_buffer) = WRITE_BUFFER_SIZE)
                        /\ y = ByteOf(sent, out)
                        /\ c = Append(IF full THEN <<>> ELSE write_buffer, y)
  OBVIOUS
<1>2. /\ link # "usb" /\ out # <<>> /\ out' = Tail(out)
      /\ wire' = wire \o (IF full THEN write_buffer ELSE <<>>) \o (IF Len(out) = 1 THEN c ELSE <<>>)
      /\ write_buffer' = IF Len(out) = 1 /\ link = "file" THEN <<>> ELSE c
      /\ UNCHANGED <<link, sent, reading, buffer, escaped, failed, header, payload,
                     header_frame, received, unallocated, damaged>>
  BY <1>1, NextByteIs DEF PutBuffered, reader
<1>3. sent \in Seq(Packets) /\ Len(sent) \in Nat /\ link \in {"file", "port"} /\ full \in BOOLEAN
  BY <1>1, <1>2, ReaderTypes DEF Types
<1>4. Stream(sent, damaged, link, x,
             wire \o (IF full THEN write_buffer ELSE <<>>) \o (IF Len(out) = 1 THEN c ELSE <<>>),
             IF Len(out) = 1 /\ link = "file" THEN <<>> ELSE c, Tail(out))
  <2>1. Stream(sent, damaged, link, x, wire, write_buffer, out)
    BY DEF Reader
  <2>2. c = Append(IF full THEN <<>> ELSE write_buffer, ByteOf(sent, out))
    BY <1>1
  <2> QED
    BY <1>2, <1>3, <2>1, <2>2, StreamBuffered
<1>5. Stream(sent, damaged, link, x, wire, write_buffer, out)'
  BY <1>2, <1>4
<1> QED
  BY <1>2, <1>3, <1>5, ReaderElsewhere

LEMMA Loses ==
  ASSUME Types, NEW x, NEW h, Reader(x, h), LoseByte
  PROVE  Reader(x, h)'
<1>1. /\ wire # <<>> /\ wire' = Tail(wire) /\ damaged' = damaged \cup {Head(wire).frame}
      /\ UNCHANGED <<link, sent, write_buffer, out, reading, buffer, escaped, failed, header,
                     payload, header_frame, received, unallocated>>
  BY DEF LoseByte, reader, writer
<1>2. sent \in Seq(Packets) /\ Len(sent) \in Nat /\ x.frame \in 0..Len(sent) /\ x.place \in Nat
  BY ReaderTypes
<1>3. PICK e : e = damaged \cup {Head(wire).frame}
  OBVIOUS
<1>4. Stream(sent, e, link, x, Tail(wire), write_buffer, out)
  <2>1. Stream(sent, damaged, link, x, wire, write_buffer, out)
    BY DEF Reader
  <2> QED
    BY <1>1, <1>2, <1>3, <2>1, StreamLost
<1>5. Stream(sent, damaged, link, x, wire, write_buffer, out)'
  BY <1>1, <1>3, <1>4
<1>6. damaged \subseteq damaged'
  BY <1>1
<1>7. /\ UNCHANGED <<link, reading, buffer, escaped, failed, header, payload, header_frame,
                     received, unallocated>>
      /\ Len(sent) <= Len(sent') /\ sent' \in Seq(Packets)
      /\ \A n \in 1..Len(sent) : sent'[n] = sent[n]
  BY <1>1, <1>2
<1> QED
  BY <1>5, <1>6, <1>7, ReaderElsewhere

-----------------------------------------------------------------------------
(* Types, and what was received *)

LEMMA SymbolsGrow ==
  ASSUME NEW s \in Seq(Packets), NEW t \in Seq(Packets), Len(s) <= Len(t),
         \A n \in 1..Len(s) : t[n] = s[n]
  PROVE  AnySymbol(s) \subseteq AnySymbol(t) /\ Returned(s) \subseteq Returned(t)
<1>1. Len(s) \in Nat /\ Len(t) \in Nat
  BY LenProperties
<1>2. \A n \in 1..Len(s) : n \in 1..Len(t) /\ t[n] = s[n]
  BY <1>1
<1>3. AnySymbol(s) \subseteq AnySymbol(t)
  BY <1>2 DEF AnySymbol
<1>4. ASSUME NEW r \in Returned(s) PROVE r \in Returned(t)
  <2>1. r \in [frame : 1..Len(s), packet : [id : Byte, payload : Seq(Byte)]]
    BY DEF Returned
  <2>2. r \in [frame : 1..Len(t), packet : [id : Byte, payload : Seq(Byte)]]
    BY <1>2, <2>1
  <2>3. PICK i, j \in 1..Len(s) : /\ r.packet.id = s[i].id /\ r.packet.payload = s[j].payload
                                  /\ Len(s[i].payload) = Len(s[j].payload)
    BY DEF Returned
  <2>4. i \in 1..Len(t) /\ j \in 1..Len(t) /\ t[i] = s[i] /\ t[j] = s[j]
    BY <1>2, <2>3
  <2>5. /\ r.packet.id = t[i].id /\ r.packet.payload = t[j].payload
        /\ Len(t[i].payload) = Len(t[j].payload)
    BY <2>3, <2>4
  <2>6. \E a, b \in 1..Len(t) : /\ r.packet.id = t[a].id /\ r.packet.payload = t[b].payload
                                /\ Len(t[a].payload) = Len(t[b].payload)
    BY <2>4, <2>5
  <2> QED
    BY <2>2, <2>6 DEF Returned
<1> QED
  BY <1>3, <1>4

LEMMA SizeNat ==
  ASSUME Types, sent \in Seq(Packets), reading # "hunt"
  PROVE  Size \in Nat
<1>1. CASE reading = "payload"
  <2>1. PICK i \in 1..Len(sent) : header = Header(sent[i])
    BY <1>1 DEF Types
  <2>2. sent[i] \in Packets
    BY <2>1, ElementOfSeq
  <2>3. header[2][1] \in Nat
    BY <2>1, <2>2, PacketTypes
  <2> QED
    BY <1>1, <2>3 DEF Size
<1>2. CASE reading # "payload"
  BY <1>2 DEF Types, Size
<1> QED
  BY <1>1, <1>2

LEMMA TypesElsewhere ==
  ASSUME Types, sent \in Seq(Packets),
         UNCHANGED <<link, reading, buffer, escaped, failed, header, payload, header_frame,
                     received>>,
         damaged \subseteq damaged', Len(sent) <= Len(sent'), sent' \in Seq(Packets),
         \A n \in 1..Len(sent) : sent'[n] = sent[n],
         Len(sent') <= MaxFrames, Len(write_buffer') <= WRITE_BUFFER_SIZE,
         link = "usb" => Len(wire') <= Capacity /\ write_buffer' = <<>>
  PROVE  Types'
<1>1. AnySymbol(sent) \subseteq AnySymbol(sent') /\ Returned(sent) \subseteq Returned(sent')
  <2>1. PICK t : t = sent'
    OBVIOUS
  <2>2. AnySymbol(sent) \subseteq AnySymbol(t) /\ Returned(sent) \subseteq Returned(t)
    BY <2>1, SymbolsGrow
  <2> QED
    BY <2>1, <2>2
<1>2. \A S, T : S \subseteq T => Seq(S) \subseteq Seq(T)
  OBVIOUS
<1>3. buffer \in Seq(AnySymbol(sent')) /\ received \in Seq(Returned(sent'))
  BY <1>1, <1>2 DEF Types
<1>4. \A n \in 1..Len(sent) : n \in 1..Len(sent') /\ sent'[n] = sent[n]
  BY LenProperties
<1>5. reading # "hunt" => Len(buffer) <= Size /\ header_frame \in 1..Len(sent') /\ Size' = Size
  BY <1>4 DEF Types, Size
<1>6. reading \in {"payload", "payload_crc"} => \E i \in 1..Len(sent') : header = Header(sent'[i])
  BY <1>4 DEF Types
<1>7. \A k \in 1..Len(received) :
        received[k].frame \notin damaged' => received[k].packet = sent'[received[k].frame]
  BY <1>4, ReceivedFrames DEF Types
<1> QED
  BY <1>3, <1>5, <1>6, <1>7 DEF Types

\* The reader goes on with another part, from a stream that is no longer.
LEMMA TypesBegun ==
  ASSUME Types, sent \in Seq(Packets),
         UNCHANGED <<link, sent, write_buffer, received, damaged>>,
         wire' = wire \/ (wire # <<>> /\ wire' = Tail(wire)), wire \in Seq(Marked(sent)),
         reading' \in {"hunt", "header", "header_crc", "payload", "payload_crc"},
         buffer' = <<>>, escaped' = FALSE, failed' = FALSE,
         reading' \in {"payload", "payload_crc"} => \E i \in 1..Len(sent) : header' = Header(sent[i]),
         reading' = "payload_crc" => payload' = None \/ Len(payload') = header'[2][1],
         reading' # "hunt" => header_frame' \in 1..Len(sent)
  PROVE  Types'
<1>1. Len(wire') <= Len(wire) /\ Len(wire) \in Nat /\ Len(wire') \in Nat
  <2>1. Len(wire) \in Nat
    BY LenProperties
  <2>2. CASE wire # <<>> /\ wire' = Tail(wire)
    <3>1. PICK S : S = Marked(sent)
      OBVIOUS
    <3>2. Len(wire') = Len(wire) - 1 /\ Len(wire) # 0
      BY <2>1, <2>2, <3>1, HeadTailProperties, EmptySeq
    <3> QED
      BY <2>1, <3>2
  <2> QED
    BY <2>1, <2>2
<1>2. link' = "usb" => Len(wire') <= Capacity /\ write_buffer' = <<>>
  <2>1. Capacity \in Nat
    BY SerialAssumption
  <2> QED
    BY <1>1, <2>1 DEF Types
<1>3. buffer' \in Seq(AnySymbol(sent)) /\ Len(buffer') = 0
  BY EmptySeq
<1>4. reading' # "hunt" => 0 <= Size'
  <2>1. CASE reading' = "payload"
    <3>1. PICK i \in 1..Len(sent) : header' = Header(sent[i])
      BY <2>1
    <3>2. sent[i] \in Packets
      BY <3>1, ElementOfSeq
    <3>3. header'[2][1] \in Nat
      BY <3>1, <3>2, PacketTypes
    <3> QED
      BY <2>1, <3>3 DEF Size
  <2>2. CASE reading' # "payload"
    BY <2>2 DEF Size
  <2> QED
    BY <2>1, <2>2
<1> QED
  BY <1>2, <1>3, <1>4 DEF Types

\* A header with its checksum is that of a packet that was sent.
LEMMA HeaderIsSent ==
  ASSUME Types, sent \in Seq(Packets), Len(buffer) = 1, buffer[1] = Crc16(header)
  PROVE  \E i \in 1..Len(sent) : header = Header(sent[i])
<1>1. buffer[1] \in AnySymbol(sent)
  <2>1. buffer \in Seq(AnySymbol(sent)) /\ 1 \in 1..Len(buffer)
    BY DEF Types
  <2> QED
    BY <2>1, ElementOfSeq
<1>2. Crc16(header) \notin Plain /\ \A y : Crc16(header) # Crc32(y)
  BY Symbols DEF Crc16, Crc32, Plain
<1>3. PICK i \in 1..Len(sent) : Crc16(header) = Crc16(Header(sent[i]))
  BY <1>1, <1>2 DEF AnySymbol
<1> QED
  BY <1>3, Symbols DEF Crc16

\* So is a payload.
LEMMA PayloadIsSent ==
  ASSUME Types, sent \in Seq(Packets), Len(buffer) = 1, NEW data, buffer[1] = Crc32(data)
  PROVE  \E i \in 1..Len(sent) : data = sent[i].payload
<1>1. buffer[1] \in AnySymbol(sent)
  <2>1. buffer \in Seq(AnySymbol(sent)) /\ 1 \in 1..Len(buffer)
    BY DEF Types
  <2> QED
    BY <2>1, ElementOfSeq
<1>2. Crc32(data) \notin Plain /\ \A y : Crc32(data) # Crc16(y)
  BY Symbols DEF Crc16, Crc32, Plain
<1>3. PICK i \in 1..Len(sent) : Crc32(data) = Crc32(sent[i].payload)
  BY <1>1, <1>2 DEF AnySymbol
<1> QED
  BY <1>3, Symbols DEF Crc32

\* The sender and the way keep the bounds of the queue and of the buffer.
LEMMA SenderTypes ==
  ASSUME Types, sent \in Seq(Packets), wire \in Seq(Marked(sent)), write_buffer \in Seq(Marked(sent)),
         Outstanding(sent, out),
         (\E p \in Packets : Send(p)) \/ Put \/ PutFails \/ PutBuffered \/ LoseByte
  PROVE  Types'
<1>1. /\ Len(sent) \in Nat /\ Len(wire) \in Nat /\ Len(write_buffer) \in Nat
      /\ MaxFrames \in Nat /\ Capacity \in Nat /\ WRITE_BUFFER_SIZE \in Nat \ {0}
      /\ Len(sent) <= MaxFrames /\ Len(write_buffer) <= WRITE_BUFFER_SIZE
      /\ (link = "usb" => Len(wire) <= Capacity /\ write_buffer = <<>>)
  BY LenProperties, SerialAssumption DEF Types
<1>2. PICK S, T : S = Marked(sent) /\ T = S \cup {ByteOf(sent, out)}
  OBVIOUS
<1>3. wire \in Seq(T) /\ write_buffer \in Seq(T) /\ <<>> \in Seq(T) /\ ByteOf(sent, out) \in T
  <2>1. \A A, B : A \subseteq B => Seq(A) \subseteq Seq(B)
    OBVIOUS
  <2> QED
    BY <1>2, <2>1, EmptySeq
<1>4. ASSUME NEW p \in Packets, Send(p) PROVE Types'
  <2>1. PICK t : t = Append(sent, p)
    OBVIOUS
  <2>2. t \in Seq(Packets) /\ Len(t) = Len(sent) + 1 /\ \A n \in 1..Len(sent) : t[n] = sent[n]
    BY <2>1, AppendProperties
  <2>3. Len(sent) < MaxFrames /\ sent' = t
    BY <1>4, <2>1 DEF Send
  <2>4. Len(t) <= MaxFrames /\ Len(sent) <= Len(t)
    BY <1>1, <2>2, <2>3
  <2>5. UNCHANGED <<link, reading, buffer, escaped, failed, header, payload, header_frame,
                    received, damaged, write_buffer, wire>>
    BY <1>4 DEF Send, reader
  <2> QED
    BY <1>1, <2>2, <2>3, <2>4, <2>5, TypesElsewhere
<1>5. CASE Put
  <2>1. /\ link = "usb" /\ Len(wire) < Capacity /\ wire' = Append(wire, ByteOf(sent, out))
        /\ UNCHANGED <<link, sent, write_buffer, reading, buffer, escaped, failed, header, payload,
                       header_frame, received, damaged>>
    BY <1>5, NextByteIs DEF Put, reader
  <2>2. Len(wire') = Len(wire) + 1
    BY <1>3, <2>1, AppendProperties
  <2>3. Len(wire') <= Capacity
    BY <1>1, <2>1, <2>2
  <2> QED
    BY <1>1, <2>1, <2>3, TypesElsewhere
<1>6. CASE PutFails
  <2>1. /\ damaged' = damaged \cup {Len(sent)}
        /\ UNCHANGED <<link, sent, write_buffer, wire, reading, buffer, escaped, failed, header,
                       payload, header_frame, received>>
    BY <1>6 DEF PutFails, reader
  <2>2. damaged \subseteq damaged'
    BY <2>1
  <2> QED
    BY <1>1, <2>1, <2>2, TypesElsewhere
<1>7. CASE PutBuffered
  <2>1. PICK full, c : /\ full = (Len(write_buffer) = WRITE_BUFFER_SIZE)
                       /\ c = Append(IF full THEN <<>> ELSE write_buffer, ByteOf(sent, out))
    OBVIOUS
  <2>2. /\ link # "usb" /\ write_buffer' = IF Len(out) = 1 /\ link = "file" THEN <<>> ELSE c
        /\ UNCHANGED <<link, sent, reading, buffer, escaped, failed, header, payload,
                       header_frame, received, damaged>>
    BY <1>7, <2>1, NextByteIs DEF PutBuffered, reader
  <2>3. PICK b : b = IF full THEN <<>> ELSE write_buffer
    OBVIOUS
  <2>4. b \in Seq(T) /\ Len(b) \in Nat /\ Len(b) < WRITE_BUFFER_SIZE
    <3>1. CASE full
      <4>1. b = <<>> /\ Len(b) = 0
        BY <2>3, <3>1, EmptySeq
      <4> QED
        BY <1>1, <1>3, <4>1
    <3>2. CASE ~full
      <4>1. b = write_buffer /\ Len(write_buffer) # WRITE_BUFFER_SIZE
        BY <2>1, <2>3, <3>2
      <4> QED
        BY <1>1, <1>3, <4>1
    <3> QED
      BY <3>1, <3>2
  <2>5. Len(c) = Len(b) + 1
    BY <1>3, <2>1, <2>3, <2>4, AppendProperties
  <2>6. Len(write_buffer') <= WRITE_BUFFER_SIZE
    <3>1. Len(<<>>) = 0
      BY EmptySeq
    <3>2. Len(c) <= WRITE_BUFFER_SIZE
      BY <1>1, <2>4, <2>5
    <3> QED
      BY <1>1, <2>2, <3>1, <3>2
  <2> QED
    BY <1>1, <2>2, <2>6, TypesElsewhere
<1>8. CASE LoseByte
  <2>1. /\ wire # <<>> /\ wire' = Tail(wire) /\ damaged' = damaged \cup {Head(wire).frame}
        /\ UNCHANGED <<link, sent, write_buffer, reading, buffer, escaped, failed, header,
                       payload, header_frame, received>>
    BY <1>8 DEF LoseByte, reader, writer
  <2>2. Len(wire') = Len(wire) - 1
    BY <1>3, <2>1, HeadTailProperties
  <2>3. damaged \subseteq damaged'
    BY <2>1
  <2>4. Len(wire) <= Capacity => Len(wire') <= Capacity
    BY <1>1, <2>2
  <2> QED
    BY <1>1, <2>1, <2>3, <2>4, TypesElsewhere
<1> QED
  BY <1>4, <1>5, <1>6, <1>7, <1>8

\* The reader takes a symbol of something that was sent.
LEMMA HuntTypes ==
  ASSUME Types, sent \in Seq(Packets), wire \in Seq(Marked(sent)), Hunt
  PROVE  Types'
<1>1. /\ reading = "hunt" /\ wire # <<>> /\ wire' = Tail(wire)
      /\ UNCHANGED <<link, sent, out, write_buffer, header, payload, received, damaged>>
  BY DEF Hunt, Get, writer
<1>2. PICK S, y : S = Marked(sent) /\ y = Head(wire)
  OBVIOUS
<1>3. y \in S /\ Len(wire') = Len(wire) - 1 /\ Len(wire) \in Nat
  BY <1>1, <1>2, HeadTailProperties, LenProperties
<1>4. \/ Begin("header") /\ header_frame' = y.frame
      \/ UNCHANGED <<reading, buffer, escaped, failed, header_frame>>
  BY <1>2 DEF Hunt, Get
<1>5. CASE Begin("header") /\ header_frame' = y.frame
  <2>1. y.frame \in 1..Len(sent)
    BY <1>2, <1>3, MarkedIs
  <2>2. reading' = "header" /\ buffer' = <<>> /\ escaped' = FALSE /\ failed' = FALSE
    BY <1>5 DEF Begin
  <2> QED
    BY <1>1, <1>5, <2>1, <2>2, TypesBegun
<1>6. CASE UNCHANGED <<reading, buffer, escaped, failed, header_frame>>
  <2>1. Len(sent) \in Nat /\ Capacity \in Nat
    BY LenProperties, SerialAssumption
  <2>2. Len(wire) <= Capacity => Len(wire') <= Capacity
    BY <1>3, <2>1
  <2>3. Len(sent) <= MaxFrames /\ Len(write_buffer) <= WRITE_BUFFER_SIZE
        /\ (link = "usb" => Len(wire) <= Capacity /\ write_buffer = <<>>)
    BY DEF Types
  <2> QED
    BY <1>1, <1>6, <2>1, <2>2, <2>3, TypesElsewhere
<1> QED
  BY <1>4, <1>5, <1>6

\* What the reader puts in its buffer.
LEMMA UnstuffedSymbol ==
  ASSUME Types, sent \in Seq(Packets), NEW y \in Marked(sent), Turn(y), ~Rejects(y.byte)
  PROVE  (IF escaped THEN Unstuffed[y.byte] ELSE y.byte) \in AnySymbol(sent)
<1>1. CASE escaped
  <2>1. y.byte \in DOMAIN Unstuffed
    BY <1>1 DEF Rejects
  <2>2. Unstuffed[y.byte] \in Plain
    BY <2>1, StuffedTwo
  <2> QED
    BY <1>1, <2>2 DEF AnySymbol
<1>2. CASE ~escaped
  <2>1. /\ y.frame \in 1..Len(sent) /\ sent[y.frame] \in Packets
        /\ y.place \in 1..LastPlace(sent, y.frame) /\ y.byte = Frame(sent[y.frame])[y.place]
    BY MarkedIs
  <2>2. y.place \in 1..Len(Frame(sent[y.frame]))
    <3>1. y.frame # 0
      BY <2>1, LenProperties
    <3> QED
      BY <2>1, <3>1 DEF LastPlace
  <2>3. y.byte \in Symbol(sent[y.frame])
    BY <2>1, <2>2, FrameBytes
  <2>4. Symbol(sent[y.frame]) \subseteq AnySymbol(sent)
    BY <2>1 DEF Symbol, AnySymbol
  <2> QED
    BY <1>2, <2>3, <2>4
<1> QED
  BY <1>1, <1>2

LEMMA ReadByteTypes ==
  ASSUME Types, sent \in Seq(Packets), wire \in Seq(Marked(sent)), ReadByte
  PROVE  Types'
<1>1. PICK S, y : S = Marked(sent) /\ y = Head(wire)
  OBVIOUS
<1>2. Turn(y) /\ wire # <<>> /\ wire' = Tail(wire)
  BY <1>1, ReadByteTurns
<1>3. y \in S /\ Len(wire') = Len(wire) - 1 /\ Len(wire) \in Nat
  BY <1>1, <1>2, HeadTailProperties, LenProperties
<1>4. /\ reading # "hunt" /\ Len(buffer) < Size
      /\ header_frame' = IF reading = "header" THEN y.frame ELSE header_frame
      /\ UNCHANGED <<link, sent, write_buffer, reading, header, payload, received, damaged>>
  BY <1>2 DEF Turn
<1>5. header_frame' \in 1..Len(sent)
  BY <1>1, <1>3, <1>4, MarkedIs DEF Types
<1>6. link = "usb" => Len(wire') <= Capacity /\ write_buffer' = <<>>
  BY <1>3, <1>4, SerialAssumption DEF Types
<1>7. /\ buffer' \in Seq(AnySymbol(sent)) /\ Len(buffer') <= Size
      /\ escaped' \in BOOLEAN /\ failed' \in BOOLEAN
  <2>1. PICK A : A = AnySymbol(sent)
    OBVIOUS
  <2>2. buffer \in Seq(A) /\ Len(buffer) \in Nat /\ Size \in Nat
    BY <1>4, <2>1, SizeNat, LenProperties DEF Types
  <2>3. PICK v : v = IF escaped THEN Unstuffed[y.byte] ELSE y.byte
    OBVIOUS
  <2>4. CASE buffer' = buffer
    <3>1. escaped' \in BOOLEAN /\ failed' \in BOOLEAN
      BY <1>2 DEF Turn, Types
    <3> QED
      BY <1>4, <2>1, <2>2, <2>4, <3>1
  <2>5. CASE ~Rejects(y.byte) /\ buffer' = Append(buffer, v)
    <3>1. v \in A
      BY <1>1, <1>2, <1>3, <2>1, <2>3, <2>5, UnstuffedSymbol
    <3>2. buffer' \in Seq(A) /\ Len(buffer') = Len(buffer) + 1
      BY <2>2, <2>5, <3>1, AppendProperties
    <3>3. escaped' \in BOOLEAN /\ failed' \in BOOLEAN
      BY <1>2 DEF Turn, Types
    <3>4. Len(buffer') <= Size
      BY <1>4, <2>2, <3>2
    <3> QED
      BY <2>1, <3>2, <3>3, <3>4
  <2> QED
    BY <1>2, <2>3, <2>4, <2>5 DEF Turn
<1>8. Size' = Size
  BY <1>4 DEF Size
<1> QED
  BY <1>4, <1>5, <1>6, <1>7, <1>8 DEF Types

\* A part ends: the next begins, or next_packet returns.
LEMMA HeaderReadTypes ==
  ASSUME Types, sent \in Seq(Packets), wire \in Seq(Marked(sent)), HeaderRead
  PROVE  Types'
<1>1. /\ reading = "header" /\ wire' = wire
      /\ UNCHANGED <<link, sent, write_buffer, payload, header_frame, received, damaged>>
  BY DEF HeaderRead, Done, writer
<1>2. /\ reading' \in {"hunt", "header_crc"}
      /\ buffer' = <<>> /\ escaped' = FALSE /\ failed' = FALSE
  BY DEF HeaderRead, Return, Begin
<1>3. header_frame' \in 1..Len(sent)
  BY <1>1 DEF Types
<1> QED
  BY <1>1, <1>2, <1>3, TypesBegun

LEMMA HeaderCheckedTypes ==
  ASSUME Types, sent \in Seq(Packets), wire \in Seq(Marked(sent)), HeaderChecked
  PROVE  Types'
<1>1. /\ reading = "header_crc" /\ wire' = wire /\ (failed \/ Len(buffer) = Size)
      /\ UNCHANGED <<link, sent, write_buffer, header, payload, header_frame, received, damaged>>
  BY DEF HeaderChecked, Done, writer
<1>2. /\ reading' = "hunt" \/ (reading' = "payload" /\ ~failed /\ buffer[1] = Crc16(header))
      /\ buffer' = <<>> /\ escaped' = FALSE /\ failed' = FALSE
  BY DEF HeaderChecked, Return, Begin
<1>3. header_frame' \in 1..Len(sent)
  BY <1>1 DEF Types
<1>4. reading' = "payload" => \E i \in 1..Len(sent) : header' = Header(sent[i])
  <2> SUFFICES ASSUME reading' = "payload" PROVE \E i \in 1..Len(sent) : header' = Header(sent[i])
    OBVIOUS
  <2>1. Len(buffer) = 1 /\ buffer[1] = Crc16(header)
    BY <1>1, <1>2 DEF Size
  <2> QED
    BY <1>1, <2>1, HeaderIsSent
<1> QED
  BY <1>1, <1>2, <1>3, <1>4, TypesBegun

LEMMA PayloadReadTypes ==
  ASSUME Types, sent \in Seq(Packets), wire \in Seq(Marked(sent)), PayloadRead
  PROVE  Types'
<1>1. /\ reading = "payload" /\ wire' = wire /\ (failed \/ Len(buffer) = Size)
      /\ payload' = (IF failed THEN None ELSE buffer)
      /\ reading' = "payload_crc" /\ buffer' = <<>> /\ escaped' = FALSE /\ failed' = FALSE
      /\ UNCHANGED <<link, sent, write_buffer, header, header_frame, received, damaged>>
  BY DEF PayloadRead, Done, Begin, writer
<1>2. header_frame' \in 1..Len(sent) /\ \E i \in 1..Len(sent) : header' = Header(sent[i])
  BY <1>1 DEF Types
<1>3. payload' = None \/ Len(payload') = header'[2][1]
  BY <1>1 DEF Size
<1> QED
  BY <1>1, <1>2, <1>3, TypesBegun

\* The packet that next_packet returns: its header and its payload were sent, and they
\* are those of one frame if that is whole.
LEMMA ReturnedIsSent ==
  ASSUME Types, sent \in Seq(Packets), NEW x, NEW h, Reader(x, h),
         reading = "payload_crc", failed \/ Len(buffer) = 1, PayloadValid,
         NEW r, r = [frame |-> header_frame, packet |-> [id |-> header[1], payload |-> payload]]
  PROVE  r \in Returned(sent) /\ (r.frame \notin damaged => r.packet = sent[r.frame])
<1>1. PICK i \in 1..Len(sent) : header = Header(sent[i])
  BY DEF Types
<1>2. sent[i] \in Packets /\ header[1] = sent[i].id /\ header[2][1] = Len(sent[i].payload)
  <2>1. sent[i] \in Packets
    BY <1>1, ElementOfSeq
  <2> QED
    BY <1>1, <2>1, PacketTypes
<1>3. Len(payload) = Len(sent[i].payload)
  BY <1>2 DEF Types, PayloadValid
<1>4. \E j \in 1..Len(sent) : payload = sent[j].payload
  <2>1. CASE failed
    <3>1. payload = <<>>
      BY <2>1, Symbols DEF PayloadValid, payload_crc, Crc32
    <3>2. sent[i].payload \in Seq(Byte)
      BY <1>2, SerialAssumption
    <3>3. sent[i].payload = <<>>
      BY <1>3, <3>1, <3>2, EmptySeq
    <3> QED
      BY <1>1, <3>1, <3>3
  <2>2. CASE ~failed
    <3>1. Len(buffer) = 1 /\ buffer[1] = Crc32(payload)
      BY <2>2 DEF PayloadValid, payload_crc
    <3> QED
      BY <3>1, PayloadIsSent
  <2> QED
    BY <2>1, <2>2
<1>5. PICK j \in 1..Len(sent) : payload = sent[j].payload
  BY <1>4
<1>6. sent[j] \in Packets
  BY <1>5, ElementOfSeq
<1>7. header[1] \in Byte /\ payload \in Seq(Byte) /\ header_frame \in 1..Len(sent)
  BY <1>2, <1>5, <1>6, SerialAssumption DEF Types
<1>8. r \in Returned(sent)
  <2>1. r \in [frame : 1..Len(sent), packet : [id : Byte, payload : Seq(Byte)]]
    BY <1>7
  <2>2. /\ r.packet.id = sent[i].id /\ r.packet.payload = sent[j].payload
        /\ Len(sent[i].payload) = Len(sent[j].payload)
    BY <1>2, <1>3, <1>5
  <2> QED
    BY <2>1, <2>2 DEF Returned
<1>9. ASSUME header_frame \notin damaged
      PROVE  [id |-> header[1], payload |-> payload] = sent[header_frame]
  <2>1. Parsing(x) \/ BadHeader(x)
    BY <1>9 DEF Reader, OwnHeader
  <2>2. Parsing(x)
    BY <2>1 DEF BadHeader
  <2>3. header = Header(sent[header_frame]) /\ payload = sent[header_frame].payload
    BY <2>2 DEF Parsing, ParsingPart
  <2>4. sent[header_frame] \in Packets
    BY <1>7, ElementOfSeq
  <2>5. header[1] = sent[header_frame].id
    BY <2>3, <2>4, PacketTypes
  <2>6. sent[header_frame] \in [id : Byte, payload : Seq(Byte)]
    BY <2>4, SerialAssumption
  <2> QED
    BY <2>3, <2>5, <2>6
<1> QED
  BY <1>8, <1>9

LEMMA PayloadCheckedTypes ==
  ASSUME Types, sent \in Seq(Packets), wire \in Seq(Marked(sent)), NEW x, NEW h, Reader(x, h),
         PayloadChecked
  PROVE  Types'
<1>1. /\ reading = "payload_crc" /\ wire' = wire /\ (failed \/ Len(buffer) = 1)
      /\ reading' = "hunt" /\ buffer' = <<>> /\ escaped' = FALSE /\ failed' = FALSE
      /\ UNCHANGED <<link, sent, write_buffer, header, payload, header_frame, damaged>>
  BY DEF PayloadChecked, Done, Size, Return, Begin, writer
<1>2. CASE received' = received
  BY <1>1, <1>2, TypesBegun
<1>3. CASE received' # received
  <2>1. PICK r : r = [frame |-> header_frame, packet |-> [id |-> header[1], payload |-> payload]]
    OBVIOUS
  <2>2. PayloadValid /\ received' = Append(received, r)
    BY <1>3, <2>1 DEF PayloadChecked
  <2>3. r \in Returned(sent) /\ (r.frame \notin damaged => r.packet = sent[r.frame])
    BY <1>1, <2>1, <2>2, ReturnedIsSent
  <2>4. PICK R, n : R = Returned(sent) /\ n = Len(received)
    OBVIOUS
  <2>5. received \in Seq(R) /\ n \in Nat
    BY <2>4, LenProperties DEF Types
  <2>6. /\ received' \in Seq(R) /\ Len(received') = n + 1 /\ received'[n + 1] = r
        /\ \A k \in 1..n : received'[k] = received[k]
    BY <2>2, <2>3, <2>4, <2>5, AppendProperties
  <2>7. ASSUME NEW k \in 1..n + 1, received'[k].frame \notin damaged
        PROVE  received'[k].packet = sent[received'[k].frame]
    <3>1. CASE k = n + 1
      BY <2>3, <2>6, <2>7, <3>1
    <3>2. CASE k # n + 1
      <4>1. k \in 1..n
        BY <2>5, <3>2
      <4> QED
        BY <2>4, <2>6, <2>7, <4>1 DEF Types
    <3> QED
      BY <3>1, <3>2
  <2>8. buffer' \in Seq(AnySymbol(sent))
    BY <1>1, EmptySeq
  <2>9. /\ received' \in Seq(Returned(sent))
        /\ \A k \in 1..Len(received') :
             received'[k].frame \notin damaged => received'[k].packet = sent[received'[k].frame]
    BY <2>4, <2>6, <2>7
  <2> QED
    BY <1>1, <2>8, <2>9 DEF Types
<1> QED
  BY <1>2, <1>3

\* What OwnerFrees changes is in no part of the invariant.
LEMMA SameInv ==
  ASSUME SerialInv,
         UNCHANGED <<link, sent, out, write_buffer, wire, reading, buffer, escaped, failed, header,
                     payload, header_frame, received, damaged, unallocated>>
  PROVE  SerialInv'
<1>1. Types'
  BY DEF SerialInv, Types, Size
<1>2. PICK x, h : Reader(x, h)
  BY DEF SerialInv
<1>3. sent \in Seq(Packets) /\ Len(sent) \in Nat
  BY <1>2, ReaderTypes DEF SerialInv
<1>4. Stream(sent, damaged, link, x, wire, write_buffer, out)'
  BY <1>2 DEF Reader
<1>5. Types
  BY DEF SerialInv
<1>6. Reader(x, h)'
  BY <1>2, <1>3, <1>4, <1>5, ReaderElsewhere
<1> QED
  BY <1>1, <1>6 DEF SerialInv

-----------------------------------------------------------------------------
(* The invariant *)

LEMMA InvInit == Init => SerialInv
<1> SUFFICES ASSUME Init PROVE SerialInv
  OBVIOUS
<1>1. /\ link \in {"usb", "file", "port"}
      /\ sent = <<>> /\ out = <<>> /\ write_buffer = <<>> /\ wire = <<>>
      /\ reading = "hunt" /\ buffer = <<>> /\ escaped = FALSE /\ failed = FALSE
      /\ received = <<>> /\ damaged = {} /\ unallocated = {}
  BY DEF Init
<1>2. /\ MaxFrames \in Nat /\ WRITE_BUFFER_SIZE \in Nat /\ Capacity \in Nat
  BY SerialAssumption
<1>3. Len(<<>>) = 0 /\ \A S : <<>> \in Seq(S)
  BY EmptySeq
<1>4. Types
  <2>1. buffer \in Seq(AnySymbol(sent)) /\ received \in Seq(Returned(sent))
    BY <1>1, <1>3
  <2>2. Len(sent) <= MaxFrames /\ Len(write_buffer) <= WRITE_BUFFER_SIZE /\ Len(wire) <= Capacity
    BY <1>1, <1>2, <1>3
  <2>3. \A k \in 1..Len(received) : FALSE
    BY <1>1, <1>3
  <2> QED
    BY <1>1, <2>1, <2>2, <2>3 DEF Types
<1>5. PICK x : x = [frame |-> 0, place |-> 0]
  OBVIOUS
<1>6. PICK y : y = [frame |-> 1, place |-> 1]
  OBVIOUS
<1>7. Upcoming(sent, out) = y
  BY <1>1, <1>3, <1>6 DEF Upcoming
<1>8. x.frame = 0 /\ x.place = 0 /\ y.frame = 1 /\ y.place = 1
  BY <1>5, <1>6
<1>9. \A g \in Nat : ~(0 < g /\ g < 1)
  OBVIOUS
<1>10. Precedes(sent, damaged, link, x, y)
  BY <1>8, <1>9 DEF Precedes, Follows, Ends, LastPlace
<1>11. Linked(sent, damaged, link, x, wire, y)
  BY <1>1, <1>3, <1>10 DEF Linked
<1>12. Stream(sent, damaged, link, x, wire, write_buffer, out)
  <2>1. FirstOf(write_buffer, Upcoming(sent, out)) = y /\ LastOf(wire, x) = x
    BY <1>1, <1>7 DEF FirstOf, LastOf
  <2>2. Outstanding(sent, out)
    BY <1>1 DEF Outstanding
  <2> QED
    BY <1>1, <1>3, <1>7, <1>8, <1>9, <1>11, <2>1, <2>2 DEF Stream
<1>13. Reader(x, 0)
  <2>1. /\ HeaderFrom(x) /\ OwnHeader(x) /\ InStep(x, 0) /\ First(x, 0)
        /\ PassedUpTo(0) /\ InOrder /\ Rising(x) /\ At(sent, x)
    <3>1. HeaderFrom(x) /\ OwnHeader(x) /\ InStep(x, 0) /\ At(sent, x)
      BY <1>1, <1>8 DEF HeaderFrom, OwnHeader, InStep, At
    <3>2. First(x, 0) /\ PassedUpTo(0) /\ InOrder /\ Rising(x)
      BY <1>1, <1>3, <1>8 DEF First, PassedUpTo, InOrder, Rising
    <3> QED
      BY <3>1, <3>2
  <2> QED
    BY <1>1, <1>3, <1>8, <1>12, <2>1 DEF Reader
<1> QED
  BY <1>4, <1>13 DEF SerialInv

LEMMA InvNext == SerialInv /\ [Next]_vars => SerialInv'
<1> SUFFICES ASSUME SerialInv, [Next]_vars PROVE SerialInv'
  OBVIOUS
<1>1. Types /\ \E x, h : Reader(x, h)
  BY DEF SerialInv
<1>2. PICK x, h : Reader(x, h)
  BY <1>1
<1>3. /\ sent \in Seq(Packets) /\ wire \in Seq(Marked(sent)) /\ write_buffer \in Seq(Marked(sent))
      /\ Outstanding(sent, out)
  BY <1>2 DEF Reader, Stream
<1>4. CASE (\E p \in Packets : Send(p)) \/ Put \/ PutFails \/ PutBuffered \/ LoseByte
  <2>1. Types'
    BY <1>1, <1>3, <1>4, SenderTypes
  <2>2. Reader(x, h)'
    BY <1>1, <1>2, <1>4, Sends, Puts, Cuts, Buffers, Loses
  <2> QED
    BY <2>1, <2>2 DEF SerialInv
<1>5. CASE Hunt
  <2>1. Types'
    BY <1>1, <1>3, <1>5, HuntTypes
  <2>2. PICK y, g : Reader(y, g)'
    BY <1>1, <1>2, <1>5, ReaderHunts
  <2> QED
    BY <2>1, <2>2 DEF SerialInv
<1>6. CASE ReadByte
  <2>1. Types'
    BY <1>1, <1>3, <1>6, ReadByteTypes
  <2>2. PICK y, g : Reader(y, g)'
    BY <1>1, <1>2, <1>6, ReaderReads
  <2> QED
    BY <2>1, <2>2 DEF SerialInv
<1>7. CASE HeaderRead \/ HeaderChecked \/ PayloadRead \/ PayloadChecked
  <2>1. Types'
    BY <1>1, <1>2, <1>3, <1>7, HeaderReadTypes, HeaderCheckedTypes, PayloadReadTypes,
       PayloadCheckedTypes
  <2>2. Reader(x, h)'
    BY <1>1, <1>2, <1>7, ReaderOfHeader, ReaderOfHeaderCrc, ReaderOfPayload, ReaderOfPayloadCrc
  <2> QED
    BY <2>1, <2>2 DEF SerialInv
<1>8. CASE OwnerFrees \/ UNCHANGED vars
  <2>1. UNCHANGED <<link, sent, out, write_buffer, wire, reading, buffer, escaped, failed, header,
                    payload, header_frame, received, damaged, unallocated>>
    BY <1>8 DEF OwnerFrees, vars, writer, reader
  <2> QED
    BY <2>1, SameInv
<1> QED
  BY <1>4, <1>5, <1>6, <1>7, <1>8 DEF Next, NextPacket

\* What the invariant says of what next_packet returned.
LEMMA InvOnlySent == SerialInv => OnlyWhatWasSent
<1> SUFFICES ASSUME SerialInv PROVE OnlyWhatWasSent
  OBVIOUS
<1>1. Types
  BY DEF SerialInv
<1>2. PICK x, h : Reader(x, h)
  BY DEF SerialInv
<1>3. sent \in Seq(Packets) /\ received \in Seq(Returned(sent)) /\ Len(received) \in Nat
  BY <1>1, <1>2, ReaderTypes, LenProperties DEF Types
<1>4. \A k \in 1..Len(received) : received[k].frame \in Nat /\ received[k].frame \in 1..Len(sent)
  BY <1>1, <1>3, ReceivedFrames
<1>5. ASSUME NEW k \in 1..Len(received)
      PROVE  /\ received[k].frame \notin damaged => received[k].packet = sent[received[k].frame]
             /\ \E i, j \in 1..Len(sent) :
                  /\ received[k].packet.id = sent[i].id
                  /\ received[k].packet.payload = sent[j].payload
                  /\ Len(sent[i].payload) = Len(sent[j].payload)
  <2>1. received[k] \in Returned(sent)
    BY <1>3, ElementOfSeq
  <2> QED
    BY <1>1, <2>1 DEF Types, Returned
<1>6. ASSUME NEW j \in 1..Len(received), NEW k \in 1..Len(received), j < k,
             ~(received[j].frame < received[k].frame)
      PROVE  /\ link = "port"
             /\ \/ \E i \in 1..j : received[i].frame = received[k].frame
                \/ received[k].frame \in damaged \cup unallocated
                \/ received[k].frame - 1 \in damaged
  <2>1. link = "port"
    BY <1>2, <1>6 DEF Reader, Rising
  <2>2. PICK n : n = received[k].frame
    OBVIOUS
  <2>3. n \in 1..received[j].frame
    BY <1>4, <1>6, <2>2
  <2>4. Clear(n) /\ n \notin unallocated => \E i \in 1..j : received[i].frame = n
    BY <1>2, <2>3 DEF Reader, InOrder
  <2> QED
    BY <2>1, <2>2, <2>4 DEF Clear
<1> QED
  BY <1>5, <1>6 DEF OnlyWhatWasSent

LEMMA InvResync == SerialInv => ResyncAfterOneFrame
<1> SUFFICES ASSUME SerialInv, NEW n \in 1..Len(sent), Over(n), n \notin damaged \cup unallocated,
                    n > 1 => n - 1 \notin damaged
             PROVE  \E k \in 1..Len(received) : received[k].frame = n
  BY DEF ResyncAfterOneFrame
<1>1. Types
  BY DEF SerialInv
<1>2. PICK x, h : Reader(x, h)
  BY DEF SerialInv
<1>3. /\ sent \in Seq(Packets) /\ damaged \in SUBSET (1..Len(sent)) /\ Len(sent) \in Nat
      /\ h \in Nat /\ x.frame \in Nat /\ n \in Nat /\ n # 0
  <2>1. /\ sent \in Seq(Packets) /\ damaged \in SUBSET (1..Len(sent)) /\ Len(sent) \in Nat
        /\ h \in 0..Len(sent) /\ x.frame \in 0..Len(sent)
    BY <1>1, <1>2, ReaderTypes
  <2> QED
    BY <2>1
<1>4. Clear(n)
  <2>1. CASE n = 1
    BY <1>3, <2>1 DEF Clear
  <2>2. CASE n # 1
    BY <1>3, <2>2 DEF Clear
  <2> QED
    BY <2>1, <2>2
<1>5. PICK u : u = Upcoming(sent, out)
  OBVIOUS
<1>6. /\ Stream(sent, damaged, link, x, wire, write_buffer, out)
      /\ x.frame <= h + 1 /\ First(x, h) /\ PassedUpTo(h)
  BY <1>2 DEF Reader
<1>7. u.frame \in Nat /\ n < u.frame
  <2>1. u.frame = IF out = <<>> THEN Len(sent) + 1 ELSE Len(sent)
    BY <1>3, <1>5, <1>6, UpcomingIs DEF Stream
  <2> QED
    BY <1>3, <2>1 DEF Over
<1>8. ~(x.frame < n)
  <2> SUFFICES ASSUME x.frame < n PROVE FALSE
    OBVIOUS
  <2>1. CASE wire = <<>>
    <3>1. \A g \in Nat : x.frame < g /\ g < u.frame => g \in damaged
      BY <1>5, <1>6, <2>1 DEF Stream, LastOf
    <3> QED
      BY <1>3, <1>7, <3>1
  <2>2. CASE wire # <<>>
    <3>1. PICK y : y = Head(wire)
      OBVIOUS
    <3>2. Precedes(sent, damaged, link, x, y) /\ y \in Marked(sent)
      BY <1>6, <2>2, <3>1, StreamTaken
    <3>3. y.frame \in Nat
      <4>1. y.frame \in 1..Len(sent)
        BY <1>3, <3>2, MarkedIs
      <4> QED
        BY <4>1
    <3>4. y.frame > n
      <4>1. wire \in Seq(Marked(sent))
        BY <1>6 DEF Stream
      <4>2. 1 \in 1..Len(wire) /\ y = wire[1]
        <5>1. Len(wire) \in Nat \ {0}
          BY <2>2, <4>1, EmptySeq
        <5> QED
          BY <3>1, <5>1
      <4> QED
        BY <4>2 DEF Over
    <3>5. \A g \in Nat : x.frame < g /\ g < y.frame => g \in damaged
      BY <1>3, <3>2, <3>3, <3>4 DEF Precedes, Follows
    <3> QED
      BY <1>3, <3>3, <3>4, <3>5
  <2> QED
    BY <2>1, <2>2
<1>9. Passed(n)
  <2>1. CASE n <= h
    BY <1>3, <1>4, <1>6, <2>1 DEF PassedUpTo
  <2>2. CASE ~(n <= h)
    <3>1. x.frame = n /\ x.frame = h + 1
      BY <1>3, <1>6, <1>8, <2>2
    <3>2. ~Parsing(x)
      <4>1. reading = "hunt" \/ header_frame > n
        BY DEF Over
      <4> QED
        BY <1>3, <3>1, <4>1 DEF Parsing, ParsingPart
    <3> QED
      BY <1>4, <1>6, <3>1, <3>2 DEF First
  <2> QED
    BY <2>1, <2>2
<1> QED
  BY <1>9 DEF Passed

\* next_packet returns only what was sent, in order and none twice, but for what a port's
\* write buffer repeats: however many bytes are lost and however small queue and heap are.
THEOREM OnlyWhatWasSentHolds == Spec => []OnlyWhatWasSent
<1>1. SerialInv => OnlyWhatWasSent
  BY InvOnlySent
<1> QED
  BY <1>1, InvInit, InvNext, PTL DEF Spec

\* A damaged frame costs at most the next one: whatever was lost before, a whole frame
\* behind a whole one is returned, unless there was no memory for it.
THEOREM Resyncs == Spec => []ResyncAfterOneFrame
<1>1. SerialInv => ResyncAfterOneFrame
  BY InvResync
<1> QED
  BY <1>1, InvInit, InvNext, PTL DEF Spec

-----------------------------------------------------------------------------
(* The allocator *)

\* What the accounting rests on: NoPacketLeaks, with the values its terms take.
Accounting ==
    /\ reading \in {"hunt", "header", "header_crc", "payload", "payload_crc"}
    /\ allocated \in 0..HeapSize /\ owned \in Nat
    /\ NoPacketLeaks

LEMMA AccountingAlways == Spec => []Accounting
<1> USE SerialAssumption DEF Accounting, NoPacketLeaks
<1>1. Init => Accounting
  BY DEF Init
<1>2. Accounting /\ [Next]_vars => Accounting'
  <2> SUFFICES ASSUME Accounting, [Next]_vars PROVE Accounting'
    OBVIOUS
  <2>1. CASE (\E p \in Packets : Send(p)) \/ Put \/ PutFails \/ PutBuffered \/ LoseByte
    BY <2>1 DEF Send, Put, PutFails, PutBuffered, LoseByte, reader
  <2>2. CASE Hunt
    BY <2>2 DEF Hunt, Begin
  <2>3. CASE ReadByte
    BY <2>3 DEF ReadByte
  <2>4. CASE HeaderRead
    BY <2>4 DEF HeaderRead, Done, Return, Begin
  <2>5. CASE HeaderChecked
    <3>1. reading = "header_crc"
      BY <2>5 DEF HeaderChecked, Done
    <3>2. CASE Return /\ UNCHANGED <<allocated, owned>>
      BY <3>1, <3>2 DEF Return, Begin
    <3>3. CASE /\ Begin("payload") /\ allocated < HeapSize
               /\ allocated' = allocated + 1 /\ UNCHANGED owned
      BY <3>1, <3>3 DEF Begin
    <3> QED
      BY <2>5, <3>2, <3>3 DEF HeaderChecked
  <2>6. CASE PayloadRead
    BY <2>6 DEF PayloadRead, Done, Begin
  <2>7. CASE PayloadChecked
    <3>1. reading = "payload_crc"
      BY <2>7 DEF PayloadChecked, Done
    <3>2. CASE Return /\ owned' = owned + 1 /\ UNCHANGED allocated
      BY <3>1, <3>2 DEF Return, Begin
    <3>3. CASE Return /\ allocated' = allocated - 1 /\ UNCHANGED owned
      BY <3>1, <3>3 DEF Return, Begin
    <3> QED
      BY <2>7, <3>2, <3>3 DEF PayloadChecked
  <2>8. CASE OwnerFrees
    BY <2>8 DEF OwnerFrees
  <2>9. CASE UNCHANGED vars
    BY <2>9 DEF vars, reader
  <2> QED
    BY <2>1, <2>2, <2>3, <2>4, <2>5, <2>6, <2>7, <2>8, <2>9 DEF Next, NextPacket
<1> QED
  BY <1>1, <1>2, PTL DEF Spec

\* Whatever becomes of a frame, a block taken from the allocator is in one hand:
\* next_packet's while it reads the payload, its caller's after that.
THEOREM NoPacketIsLeaked == Spec => []NoPacketLeaks
<1>1. Accounting => NoPacketLeaks
  BY DEF Accounting
<1> QED
  BY <1>1, AccountingAlways, PTL

\* The queue, the write buffer, the reader's buffer and the allocator keep to their sizes.
THEOREM SerialTypes == Spec => []SerialTypeOK
<1>1. SerialInv /\ Accounting => SerialTypeOK
  <2> SUFFICES ASSUME SerialInv, Accounting PROVE SerialTypeOK
    OBVIOUS
  <2>1. Types
    BY DEF SerialInv
  <2>2. allocated \in 0..HeapSize /\ owned \in 0..HeapSize
    BY SerialAssumption DEF Accounting, NoPacketLeaks
  <2> QED
    BY <2>1, <2>2 DEF Types, SerialTypeOK
<1> QED
  BY <1>1, InvInit, InvNext, AccountingAlways, PTL DEF Spec
=============================================================================
