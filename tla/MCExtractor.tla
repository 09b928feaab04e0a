----------------------------- MODULE MCExtractor -----------------------------
(* A small instance of Extractor for TLC. *)
EXTENDS Extractor, TLC

MCReads == (reader :> {port}) @@ (out_reader :> {out_file})
MCControls == [t \in Controllers |-> Consumers]
MCAccepts == [c \in Consumers |-> Messages]
=============================================================================
