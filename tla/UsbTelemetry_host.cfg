SPECIFICATION FairUsbSpec
CONSTANTS
    s1 = s1
    s2 = s2
    c1 = c1
    usb = c1
    rx = s2
    OutputSize = 1
    c2 = c2
    m1 = m1
    m2 = m2
    Senders = {s1, s2}
    Consumers = {c1, c2}
    Refs = {r1, r2}
    Packets = {p1, p2}
    Messages = {m1, m2}
    Produces <- MCProduces
    Heap <- MCHeap
    Accepts <- MCUsbAccepts
    MailboxSize <- MCWideMailbox
    MAX_NUM_CONSUMERS = 1
    FetchBeforeRetain = FALSE
    None = None
INVARIANT LateEnqueuesBounded
PROPERTIES HostServedAgain EveryRefReturns
