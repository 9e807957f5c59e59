SPECIFICATION FairSpec
CONSTANTS
    None = None
    Cases = {c1, c2}
    States = {x1, x2}
    Threads = {t1, t2}
    MaxPackets = 1
INVARIANTS
    PsdNeedsSniffer
    FlagsTellThreads
PROPERTIES
    CancelledThreadsEnd
CHECK_DEADLOCK FALSE
