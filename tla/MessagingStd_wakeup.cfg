SPECIFICATION Spec
CONSTANTS
    c1 = c1
    Senders = {s1}
    Receivers = {r1, r2}
    Controllers = {k1}
    Consumers = {c1, c2, c3}
    Reads <- MCReads
    Controls <- MCControls
    Messages = {m1, m2}
    Accepts <- MCAccepts
    MAX_NUM_CONSUMERS = 2
    MaxQueue = 2
    None = None
SYMMETRY Symmetry
INVARIANTS StdTypeOK NoLostWakeup NobodyWaitsOnClosed
PROPERTIES ImplementsBus ClosedOnlyDrains
