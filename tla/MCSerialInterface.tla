-------------------------- MODULE MCSerialInterface --------------------------
(* Packets with the two bytes that are stuffed, of the same length with none, and *)
(* without payload.                                                              *)
EXTENDS SerialInterface

plain == [id |-> <<1>>, payload |-> <<<<7>>, <<8>>>>]
special == [id |-> <<94>>, payload |-> <<<<126>>, <<125>>>>]
empty == [id |-> <<2>>, payload |-> <<>>]

MCPackets == {plain, special, empty}
=============================================================================
