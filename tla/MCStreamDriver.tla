--------------------------- MODULE MCStreamDriver ---------------------------
(* Small instances of StreamDriver for TLC. *)
EXTENDS StreamDriver

MCReads == [t \in Receivers |-> Consumers]
MCControls == [t \in Controllers |-> Consumers]
MCAccepts == [c \in Consumers |-> Messages]
=============================================================================
