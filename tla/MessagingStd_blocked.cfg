SPECIFICATION Spec
CONSTANTS
    c1 = c1
    Senders = {s1}
    Receivers = {r1}
    Controllers = {k1}
    Consumers = {c1}
    Reads <- MCReads
    Controls <- MCControls
    Messages = {m1}
    Accepts <- MCAccepts
    MAX_NUM_CONSUMERS = 1
    MaxQueue = 1
    None = None
INVARIANT NonBlockingNeverWaits
