SPECIFICATION FairCsvSpec
CONSTANTS
    main = main
    reader = reader
    file = file
    Senders = {s1, s2}
    Receivers = {reader}
    Controllers = {main}
    Consumers = {file}
    Reads <- MCReads
    Controls <- MCControls
    Messages = {m}
    Accepts <- MCAccepts
    MAX_NUM_CONSUMERS = 1
    MaxQueue = 2
    MaxFiles = 2
    Sensors = {m}
    CounterBits = 2
    MaxClock = 5
    None = None
CHECK_DEADLOCK FALSE
INVARIANTS NothingLost NothingLeftBehind TimeOfRows
PROPERTY DestructorReturns
