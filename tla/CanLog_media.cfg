SPECIFICATION FairLogSpec
CONSTANTS
    can_mappings <- MCMappings
    Packets <- MCPackets
    TxMailboxes = 3
    MaxMessages = 4
    MaxLosses = 3
    Strays <- MCStrays
    BUFFER_SIZE = 2
    message_metadata_mask = 1
    MaxLogged = 3
    MaxFaults = 2
    MaxRestarts = 1
    None = None
CHECK_DEADLOCK FALSE
INVARIANTS CanTypeOK WholeMessages BusResyncsAfterOne BusDeliversInOrder
    FramesKept CutIsReported ReplayFaithful
PROPERTY FlushEnds
