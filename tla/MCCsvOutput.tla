---------------------------- MODULE MCCsvOutput ----------------------------
(* Small instances of CsvOutput, and with it of OutputDriver, for TLC. *)
EXTENDS CsvOutput

MCReads == [t \in Receivers |-> Consumers]
MCControls == [t \in Controllers |-> Consumers]
MCAccepts == [c \in Consumers |-> Messages]
=============================================================================
