--------------------------- MODULE MCUsbTelemetry ---------------------------
(* Small instances of UsbTelemetry for TLC. *)
EXTENDS UsbTelemetry

CONSTANTS s1, s2, c1, c2, m1, m2

MCHeap == [s \in Senders |-> Packets]

\* What the host sends has ids of its own ...
MCProduces == [s \in Senders |-> IF s = rx THEN {m2} ELSE {m1}]

\* ... and the flag dont_send_over_usb; others take every message
MCUsbAccepts == [c \in Consumers |-> IF c = usb THEN {m1} ELSE Messages]

MCWideMailbox == [c \in Consumers |-> 3]
=============================================================================
