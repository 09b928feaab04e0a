SPECIFICATION DriverSpec
CONSTANTS
    main = main
    reader = reader
    writer = writer
    port = port
    Senders = {s1, writer}
    Receivers = {reader}
    Controllers = {main}
    Consumers = {port}
    Reads <- MCReads
    Controls <- MCControls
    Messages = {m}
    Accepts <- MCAccepts
    MAX_NUM_CONSUMERS = 1
    MaxQueue = 2
    READ_BUFFER_SIZE = 2
    MaxOpens = 2
    None = None
CHECK_DEADLOCK FALSE
INVARIANT NullPortEndsTheRead
