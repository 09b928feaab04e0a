SPECIFICATION Spec
CONSTANTS
    s1 = s1
    s2 = s2
    c1 = c1
    c2 = c2
    m1 = m1
    m2 = m2
    Senders = {s1}
    Consumers = {c1}
    Refs = {r1, r2}
    Packets = {p1, p2}
    Messages = {m1, m2}
    Produces <- MCProduces
    Heap <- MCHeap
    Accepts <- MCAccepts
    MailboxSize <- MCMailboxSize
    MAX_NUM_CONSUMERS = 1
    FetchBeforeRetain = TRUE
    None = None
INVARIANT NoUseAfterFree
