SPECIFICATION Spec
CONSTANTS
    Packets <- MCPackets
    Capacity = 3
    WRITE_BUFFER_SIZE = 8
    HeapSize = 1
    MaxFrames = 3
    MaxLost = 4
    None = None
CHECK_DEADLOCK FALSE
INVARIANTS SerialTypeOK OnlyWhatWasSent NoPacketLeaks ResyncAfterOneFrame
