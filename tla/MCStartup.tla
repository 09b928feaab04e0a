------------------------------ MODULE MCStartup ------------------------------
(* Small instances of Startup for TLC: the two components of messaging, and    *)
(* more, of which both threads report the last; a thread with a producer and   *)
(* an interface of its own, and a producer that both threads initialise.       *)
EXTENDS Startup, TLC

CONSTANTS main, t1, p0, p1, p2, a0, a1, a2

MCReports == (main :> Components) @@ (t1 :> {avionics_component_max - 1})
MCAllocatorOf == (p0 :> a0) @@ (p1 :> a1) @@ (p2 :> a1)
MCProducersOf == (main :> {p1}) @@ (t1 :> {p1, p2})
MCAllocatorsOf == (main :> {}) @@ (t1 :> {a2})
=============================================================================
