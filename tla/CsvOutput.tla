------------------------------ MODULE CsvOutput ------------------------------
(***************************************************************************)
(* CSVOutputFileDriver.cpp, a driver of OutputDriver whose rows say how    *)
(* much time has passed: it adds up what src/time_utils.c finds between    *)
(* the timestamps of a sensor's packets.  Those are a counter of the board *)
(* that wraps; packets of a sensor come in the order they were stamped.    *)
(*                                                                         *)
(* The driver with ~terminate_first is the CSV driver here;                *)
(* OutputFileDriver lives the same way and counts nothing.                 *)
(***************************************************************************)
EXTENDS OutputDriver

CONSTANTS
    Sensors,            \* the messages whose time is counted, one of each sensor
    CounterBits,        \* 32 in the source
    MaxClock            \* bound: the time the stamps go up to

ASSUME CsvAssumption ==
    /\ Sensors \subseteq Messages /\ CounterBits \in Nat /\ MaxClock \in Nat
    /\ 2^CounterBits \in Nat \ {0}     \* so it is, but the provers know nothing of ^
    /\ None \notin Nat

VARIABLES
    timestamp,          \* mpu_timestamp and adis_timestamp
    last_timestamp,     \* last_mpu_timestamp and last_adis_timestamp
    clock,              \* when the last packet of each sensor that was written was
                        \* stamped, in ticks that do not wrap
    first               \* for the properties: clock at the first row of this file

clockVars == <<timestamp, last_timestamp, clock, first>>
csvVars == <<allVars, clockVars>>

CsvInit ==
    /\ DriverInit
    /\ timestamp = [s \in Sensors |-> 0] /\ last_timestamp = [s \in Sensors |-> 0]
    /\ clock = [s \in Sensors |-> 0]
    /\ first = [s \in Sensors |-> None]

-----------------------------------------------------------------------------
Counter(time) == time % 2^CounterBits

\* A counter that has overflowed is moved on by its largest value
clocks_between(previous, current) ==
    Counter(current + (IF previous > current THEN 2^CounterBits - 1 ELSE 0) - previous)

\* Mutant: the last timestamps of the last file are left
ResetSums ==
    /\ timestamp' = [s \in Sensors |-> 0]
    /\ first' = [s \in Sensors |-> None]
    /\ UNCHANGED <<last_timestamp, clock>>

\* In the constructor
ResetClocks ==
    /\ timestamp' = [s \in Sensors |-> 0] /\ last_timestamp' = [s \in Sensors |-> 0]
    /\ first' = [s \in Sensors |-> None]
    /\ UNCHANGED clock

\* receive_packet, for a packet of s stamped at time; a last timestamp of 0 is none
CountTime(s, time) ==
    /\ timestamp' = [timestamp EXCEPT ![s] = @ +
         (IF last_timestamp[s] = 0 THEN 0 ELSE clocks_between(last_timestamp[s], Counter(time)))]
    /\ last_timestamp' = [last_timestamp EXCEPT ![s] = Counter(time)]
    /\ clock' = [clock EXCEPT ![s] = time]
    /\ first' = [first EXCEPT ![s] = IF @ = None THEN time ELSE @]

\* Does the step write a row of a sensor?
WritesRow ==
    /\ ~terminate_first
    /\ pc[reader] = "callback" /\ pc'[reader] # "callback" /\ message[reader] \in Sensors

CsvNext ==
    /\ DriverNext
    /\ \/ files' # files /\ ResetClocks
       \/ WritesRow /\ \E time \in clock[message[reader]]..MaxClock :
                         CountTime(message[reader], time)
       \/ files' = files /\ ~WritesRow /\ UNCHANGED clockVars

FairCsvSpec == CsvInit /\ [][CsvNext]_csvVars /\ DriverFairness

-----------------------------------------------------------------------------
\* The time in the rows of a file never runs ahead of the time that has passed
\* since its first row, however the counter wraps and whatever earlier files
\* counted; until the counter wraps, and unless it began at 0, it is that time.
TimeOfRows ==
    \A s \in Sensors : first[s] # None =>
        LET passed == clock[s] - first[s]
            exact == clock[s] < 2^CounterBits * (first[s] \div 2^CounterBits + 1)
        IN /\ timestamp[s] <= passed
           /\ exact /\ Counter(first[s]) # 0 => timestamp[s] = passed
=============================================================================
