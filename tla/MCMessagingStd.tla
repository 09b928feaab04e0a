--------------------------- MODULE MCMessagingStd ---------------------------
(* Small instances of MessagingStd for TLC. *)
EXTENDS MessagingStd, TLC

CONSTANT c1

MCReads == [t \in Receivers |-> {c1}]
MCControls == [t \in Controllers |-> Consumers]

\* The masks of the other consumers match none of these messages
MCAccepts == [c \in Consumers |-> IF c = c1 THEN Messages ELSE {}]

Symmetry ==
    Permutations(Receivers) \cup Permutations(Messages) \cup Permutations(Consumers \ {c1})
=============================================================================
