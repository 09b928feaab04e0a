--------------------------- MODULE CsvOutputProofs ---------------------------
(***************************************************************************)
(* Theorems about CsvOutput: the time in the rows of a file, for every     *)
(* counter and however often it wraps.                                     *)
(***************************************************************************)
EXTENDS CsvOutput, TLAPS

\* The CSV driver is one of these drivers, so what OutputDriverProofs shows is about it too.
LEMMA CsvIsDriver == FairCsvSpec => DriverSpec
<1>1. CsvInit => DriverInit
  BY DEF CsvInit
<1>2. [CsvNext]_csvVars => [DriverNext]_allVars
  BY DEF CsvNext, csvVars
<1> QED
  BY <1>1, <1>2, PTL DEF FairCsvSpec, DriverSpec

\* A time is so many turns of a counter of B values, and the rest.
LEMMA Turns ==
  ASSUME NEW B \in Nat \ {0}, NEW a \in Nat
  PROVE  \E q \in Nat : \E r \in 0..B - 1 : q = a \div B /\ r = a % B /\ a = B * q + r
<1>1. PICK q \in Int : q = a \div B
  OBVIOUS
<1>2. PICK r \in Int : r = a % B
  OBVIOUS
<1>3. a = B * q + r /\ 0 <= r /\ r < B /\ q >= 0
  BY <1>1, <1>2
<1>4. q \in Nat /\ r \in 0..B - 1
  BY <1>3
<1> QED
  BY <1>1, <1>2, <1>3, <1>4

\* More turns are a whole turn more at least.
LEMMA MoreTurns ==
  ASSUME NEW B \in Nat \ {0}, NEW p \in Int, NEW q \in Int, p < q
  PROVE  B * p + B <= B * q
OBVIOUS

\* What clocks_between finds between two stamps of which the second is later: at most
\* the time between them, and all of it if the counter has not wrapped.
LEMMA ClocksBetween ==
  ASSUME NEW previous \in Nat, NEW current \in Nat, previous <= current
  PROVE  LET between == clocks_between(Counter(previous), Counter(current))
             B == 2^CounterBits
         IN  /\ between \in Nat /\ between <= current - previous
             /\ previous \div B = current \div B => between = current - previous
<1> DEFINE B == 2^CounterBits
           between == clocks_between(Counter(previous), Counter(current))
<1>1. B \in Nat \ {0}
  BY CsvAssumption
<1>2. \A n : Counter(n) = n % B
  BY DEF Counter
<1> HIDE DEF B
<1>3. PICK p \in Nat, r \in 0..B - 1 : p = previous \div B /\ r = previous % B /\ previous = B * p + r
  BY <1>1, Turns
<1>4. PICK q \in Nat, k \in 0..B - 1 : q = current \div B /\ k = current % B /\ current = B * q + k
  BY <1>1, Turns
<1>5. between = (IF r > k THEN k + (B - 1) - r ELSE k + 0 - r) % B
  BY <1>2, <1>3, <1>4 DEF clocks_between, B
<1>6. between = IF r > k THEN k + (B - 1) - r ELSE k - r
  BY <1>1, <1>5
<1> HIDE DEF between
<1>7. ~(q < p)
  <2>1. SUFFICES ASSUME q < p PROVE FALSE
    OBVIOUS
  <2>2. B * q + B <= B * p
    BY <1>1, <2>1, MoreTurns
  <2> QED
    BY <1>1, <1>3, <1>4, <2>2
<1>8. CASE p = q
  <2>1. r <= k /\ current - previous = k - r
    <3>1. PICK whole \in Int : whole = B * p /\ whole = B * q
      BY <1>1, <1>8
    <3>2. previous = whole + r /\ current = whole + k
      BY <1>3, <1>4, <3>1
    <3> QED
      BY <1>1, <3>2
  <2> QED
    BY <1>6, <2>1 DEF between, B
<1>9. CASE p < q
  <2>1. B * p + B <= B * q
    BY <1>1, <1>9, MoreTurns
  <2>2. current - previous >= B + k - r
    BY <1>1, <1>3, <1>4, <2>1
  <2>3. between \in Nat /\ between <= current - previous
    BY <1>1, <1>6, <2>2
  <2> QED
    BY <1>3, <1>4, <1>9, <2>3 DEF between, B
<1> QED
  BY <1>7, <1>8, <1>9

\* A time before the end of the turn it began in is in that turn.
LEMMA SameTurn ==
  ASSUME NEW from \in Nat, NEW time \in Nat, from <= time,
         time < 2^CounterBits * (from \div 2^CounterBits + 1)
  PROVE  \A t \in from..time :
           /\ t < 2^CounterBits * (from \div 2^CounterBits + 1)
           /\ t \div 2^CounterBits = from \div 2^CounterBits
           /\ t - from = Counter(t) - Counter(from)
<1> DEFINE B == 2^CounterBits
<1>1. B \in Nat \ {0}
  BY CsvAssumption
<1>2. \A n : Counter(n) = n % B
  BY DEF Counter
<1> SUFFICES ASSUME NEW t \in from..time
             PROVE  /\ t < B * (from \div B + 1) /\ t \div B = from \div B
                    /\ t - from = Counter(t) - Counter(from)
  OBVIOUS
<1>3. time < B * (from \div B + 1)
  OBVIOUS
<1> HIDE DEF B
<1>4. PICK p \in Nat, r \in 0..B - 1 : p = from \div B /\ r = from % B /\ from = B * p + r
  BY <1>1, Turns
<1>5. PICK q \in Nat, k \in 0..B - 1 : q = t \div B /\ k = t % B /\ t = B * q + k
  BY <1>1, Turns
<1>6. time < B * (p + 1)
  BY <1>3, <1>4
<1>7. B * (p + 1) = B * p + B
  BY <1>1
<1>8. B * (p + 1) \in Nat
  BY <1>1
<1>9. t < B * (p + 1)
  BY <1>6, <1>8
<1>10. ~(q < p)
  <2>1. SUFFICES ASSUME q < p PROVE FALSE
    OBVIOUS
  <2>2. B * q + B <= B * p
    BY <1>1, <2>1, MoreTurns
  <2> QED
    BY <1>1, <1>4, <1>5, <2>2
<1>11. ~(p < q)
  <2>1. SUFFICES ASSUME p < q PROVE FALSE
    OBVIOUS
  <2>2. B * p + B <= B * q
    BY <1>1, <2>1, MoreTurns
  <2> QED
    BY <1>1, <1>5, <1>7, <1>9, <2>2
<1>12. p = q
  BY <1>10, <1>11
<1>13. t - from = k - r
  BY <1>1, <1>4, <1>5, <1>12
<1> QED
  BY <1>2, <1>4, <1>5, <1>9, <1>12, <1>13

\* The last timestamp is the counter at the last row, and 0 when there is none.
ClocksOf(s) ==
    IF first[s] = None THEN last_timestamp[s] = 0 /\ timestamp[s] = 0
    ELSE /\ first[s] \in Nat /\ first[s] <= clock[s]
         /\ last_timestamp[s] = Counter(clock[s])

ClocksTypeOK ==
    /\ timestamp \in [Sensors -> Nat] /\ last_timestamp \in [Sensors -> Nat]
    /\ clock \in [Sensors -> Nat] /\ first \in [Sensors -> Nat \cup {None}]

ClocksInv == ClocksTypeOK /\ TimeOfRows /\ \A s \in Sensors : ClocksOf(s)

\* What TimeOfRows says of a sensor, once it has a row.
RowsOf(sum, from, time) ==
    /\ sum <= time - from
    /\ time < 2^CounterBits * (from \div 2^CounterBits + 1) /\ Counter(from) # 0
         => sum = time - from

\* The sum stays right when another row is written.
LEMMA RowsGoOn ==
  ASSUME NEW sum \in Nat, NEW from \in Nat, NEW time \in Nat, NEW now \in Nat,
         from <= time, time <= now, RowsOf(sum, from, time),
         NEW between \in Nat,
         between = IF Counter(time) = 0 THEN 0
                   ELSE clocks_between(Counter(time), Counter(now))
  PROVE  RowsOf(sum + between, from, now)
<1>0. 2^CounterBits \in Nat \ {0}
  BY CsvAssumption
<1>1. between <= now - time
  <2>1. CASE Counter(time) = 0
    BY <2>1
  <2>2. CASE Counter(time) # 0
    BY <2>2, ClocksBetween
  <2> QED
    BY <2>1, <2>2
<1>2. sum + between <= now - from
  BY <1>1 DEF RowsOf
<1>3. ASSUME now < 2^CounterBits * (from \div 2^CounterBits + 1), Counter(from) # 0
      PROVE  sum + between = now - from
  <2>1. /\ time < 2^CounterBits * (from \div 2^CounterBits + 1)
        /\ time \div 2^CounterBits = now \div 2^CounterBits
        /\ time - from = Counter(time) - Counter(from)
    BY <1>3, SameTurn
  <2>2. sum = time - from
    BY <1>3, <2>1 DEF RowsOf
  <2>3. Counter(time) # 0
    <3>1. Counter(from) \in Nat /\ Counter(from) > 0
      BY <1>0, <1>3 DEF Counter
    <3>2. Counter(time) \in Nat
      BY <1>0 DEF Counter
    <3> QED
      BY <2>1, <3>1, <3>2
  <2>4. between = now - time
    BY <2>1, <2>3, ClocksBetween
  <2> QED
    BY <2>2, <2>4
<1> QED
  BY <1>2, <1>3 DEF RowsOf

\* The rest of the invariant, and the two steps of CsvNext that touch the clocks.
LEMMA CountTimeKept ==
  ASSUME ClocksInv, NEW s \in Sensors, NEW time \in clock[s]..MaxClock, CountTime(s, time)
  PROVE  ClocksInv'
<1>0. MaxClock \in Nat /\ clock[s] \in Nat /\ time \in Nat /\ clock[s] <= time /\ time # None
      /\ 2^CounterBits \in Nat \ {0}
  BY CsvAssumption DEF ClocksInv, ClocksTypeOK
<1> DEFINE between == IF last_timestamp[s] = 0 THEN 0
                      ELSE clocks_between(last_timestamp[s], Counter(time))
<1>1. Counter(time) \in Nat
  BY <1>0 DEF Counter
<1>2. /\ first[s] = None => between = 0
      /\ first[s] # None => between = IF Counter(clock[s]) = 0 THEN 0
                                    ELSE clocks_between(Counter(clock[s]), Counter(time))
  BY DEF ClocksInv, ClocksOf
<1>3. between \in Nat
  BY <1>0, <1>2, ClocksBetween
<1>4. /\ timestamp' = [timestamp EXCEPT ![s] = @ + between]
      /\ last_timestamp' = [last_timestamp EXCEPT ![s] = Counter(time)]
      /\ clock' = [clock EXCEPT ![s] = time]
      /\ first' = [first EXCEPT ![s] = IF @ = None THEN time ELSE @]
  BY DEF CountTime
<1> HIDE DEF between
<1>5. ClocksTypeOK'
  BY <1>0, <1>1, <1>3, <1>4 DEF ClocksInv, ClocksTypeOK
<1>6. /\ timestamp'[s] = timestamp[s] + between /\ last_timestamp'[s] = Counter(time)
      /\ clock'[s] = time /\ first'[s] = IF first[s] = None THEN time ELSE first[s]
      /\ \A r \in Sensors \ {s} : /\ timestamp'[r] = timestamp[r]
                                 /\ last_timestamp'[r] = last_timestamp[r]
                                 /\ clock'[r] = clock[r] /\ first'[r] = first[r]
  BY <1>4 DEF ClocksInv, ClocksTypeOK
<1>7. ASSUME NEW r \in Sensors PROVE ClocksOf(r)'
  <2>1. CASE r = s
    BY <1>0, <1>6, <2>1 DEF ClocksInv, ClocksOf, ClocksTypeOK
  <2>2. CASE r # s
    BY <1>6, <2>2 DEF ClocksInv, ClocksOf
  <2> QED
    BY <2>1, <2>2
<1>8. ASSUME NEW r \in Sensors, first'[r] # None PROVE RowsOf(timestamp'[r], first'[r], clock'[r])
  <2>1. CASE r # s
    BY <1>6, <1>8, <2>1 DEF ClocksInv, TimeOfRows, RowsOf
  <2>2. CASE r = s /\ first[s] = None
    <3>1. timestamp'[s] = 0 /\ first'[s] = time /\ clock'[s] = time
      BY <1>2, <1>6, <2>2 DEF ClocksInv, ClocksOf
    <3> QED
      BY <1>0, <2>2, <3>1 DEF RowsOf
  <2>3. CASE r = s /\ first[s] # None
    <3>1. /\ first[s] \in Nat /\ first[s] <= clock[s] /\ timestamp[s] \in Nat
          /\ RowsOf(timestamp[s], first[s], clock[s])
      BY <2>3 DEF ClocksInv, ClocksOf, ClocksTypeOK, TimeOfRows, RowsOf
    <3>2. RowsOf(timestamp[s] + between, first[s], time)
      BY <1>0, <1>2, <1>3, <2>3, <3>1, RowsGoOn
    <3> QED
      BY <1>6, <2>3, <3>2
  <2> QED
    BY <2>1, <2>2, <2>3
<1>9. TimeOfRows'
  BY <1>8 DEF TimeOfRows, RowsOf
<1> QED
  BY <1>5, <1>7, <1>9 DEF ClocksInv

\* The time in the rows of a file never runs ahead of the time that has passed, and is
\* that time until the counter wraps: the driver starts each file without a last
\* timestamp, and what clocks_between misses it misses only when the counter wraps.
THEOREM RowsTellTime == FairCsvSpec => []TimeOfRows
<1>1. CsvInit => ClocksInv
  BY CsvAssumption DEF CsvInit, ClocksInv, ClocksTypeOK, TimeOfRows, ClocksOf
<1>2. ClocksInv /\ [CsvNext]_csvVars => ClocksInv'
  <2> SUFFICES ASSUME ClocksInv, [CsvNext]_csvVars PROVE ClocksInv'
    OBVIOUS
  <2>1. CASE ResetClocks
    BY <2>1 DEF ResetClocks, ClocksInv, ClocksTypeOK, TimeOfRows, ClocksOf
  <2>2. CASE WritesRow /\ \E time \in clock[message[reader]]..MaxClock :
                             CountTime(message[reader], time)
    <3>1. PICK s \in Sensors : s = message[reader]
      BY <2>2 DEF WritesRow
    <3> QED
      BY <2>2, <3>1, CountTimeKept
  <2>3. CASE UNCHANGED clockVars
    BY <2>3 DEF clockVars, ClocksInv, ClocksTypeOK, TimeOfRows, ClocksOf
  <2> QED
    BY <2>1, <2>2, <2>3 DEF CsvNext, csvVars
<1>3. ClocksInv => TimeOfRows
  BY DEF ClocksInv
<1> QED
  BY <1>1, <1>2, <1>3, PTL DEF FairCsvSpec
=============================================================================
