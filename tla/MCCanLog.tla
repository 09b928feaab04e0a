--------------------------- MODULE MCCanLog ------------------------------
(* Small instances of CanLog for TLC: a mapping of three frames, one of one *)
(* frame, and a wrapped packet.                                             *)
EXTENDS CanLog, TLC

mpu9250 == 2056             \* ts_mpu9250_data
component == 0              \* ts_component_state
wrapped == ts_m3_can + 1283 \* CAN identifier 5 << 8 | 3

collides == ts_m3_can + 5   \* the CAN identifier of the component state

MCMappings ==
    (mpu9250 :> [size_in_bytes |-> 20, remapped_id |-> 7, remapped_board |-> 5]) @@
    (component :> [size_in_bytes |-> 4, remapped_id |-> 0, remapped_board |-> 5])

\* One of each kind: mapped, wrapped, too long to be wrapped, wrapped with the
\* identifier of a mapping, and of a length that is not its mapping's
MCPackets == {[id |-> mpu9250, length |-> 20], [id |-> wrapped, length |-> 8],
              [id |-> wrapped, length |-> 9], [id |-> collides, length |-> 8],
              [id |-> component, length |-> 5]}

\* A record of one frame, the first frame of a packet of several, one that is too long, two
\* without a mapping, of 11 bits and of more, and an empty one
MCStrays == {[sid |-> 5, len |-> 4], [sid |-> 1797, len |-> 8], [sid |-> 5, len |-> 200],
             [sid |-> 9, len |-> 8], [sid |-> 2057, len |-> 8], [sid |-> 9, len |-> 0]}

\* What the theorems about packets assume is true of this instance.
ASSUME MCHypotheses == TableOK
=============================================================================
