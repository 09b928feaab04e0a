----------------------------- MODULE MCMessaging -----------------------------
(* Small instances of Messaging for TLC. *)
EXTENDS Messaging, TLC

CONSTANTS s1, s2, c1, c2, m1, m2

\* One heap for all senders: the packets are then interchangeable
MCHeap == [s \in Senders |-> Packets]

\* The producers have packet ids of their own
MCProduces == [s \in Senders |-> IF s = s1 THEN {m1} ELSE {m2}]

\* c1 takes every message, as the telemetry outputs do; other consumers only m1
MCAccepts == [c \in Consumers |-> IF c = c1 THEN Messages ELSE {m1}]

MCMailboxSize == [c \in Consumers |-> IF c = c1 THEN 1 ELSE 2]

Symmetry == Permutations(Refs) \cup Permutations(Packets)
=============================================================================
