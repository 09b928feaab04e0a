SPECIFICATION FairStartupSpec
CONSTANTS
    main = main
    t1 = t1
    p0 = p0
    p1 = p1
    p2 = p2
    a0 = a0
    a1 = a1
    a2 = a2
    Threads = {main, t1}
    Main = main
    avionics_component_max = 4
    Reports <- MCReports
    messaging_enabled = TRUE
    SendsOverall = {main}
    MaxUpdates = 2
    Producers = {p0, p1, p2}
    state_producer = p0
    Allocators = {a0, a1, a2}
    AllocatorOf <- MCAllocatorOf
    ProducersOf <- MCProducersOf
    AllocatorsOf <- MCAllocatorsOf
    MAX_NUM_PRODUCERS = 2
    MAX_NUM_ALLOCATORS = 2
    None = None
CHECK_DEADLOCK FALSE
INVARIANTS ComponentTypeOK NoErrorLoop ErrorInOverall LossIsVisible SlotsExact
PROPERTY InitsReturn
