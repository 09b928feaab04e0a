SPECIFICATION FairProgramSpec
CONSTANTS
    main = main
    reader = reader
    writer = writer
    port = port
    out_reader = out_reader
    out_file = out_file
    Senders = {s1, writer}
    Receivers = {reader, out_reader}
    Controllers = {main}
    Consumers = {port, out_file}
    Reads <- MCReads
    Controls <- MCControls
    Messages = {m}
    Accepts <- MCAccepts
    MAX_NUM_CONSUMERS = 2
    MaxQueue = 2
    READ_BUFFER_SIZE = 2
    MaxOpens = 2
    MaxDiscard = 1
    None = None
CHECK_DEADLOCK FALSE
INVARIANTS CrashesOnlyWhileClosing CrashCostsNoOutput
PROPERTIES DestructorReturns ThreadStopsAtEnd ExtractorEnds
