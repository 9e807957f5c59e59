SPECIFICATION Spec
CONSTANTS
    Slots = 3
    Threads = {t1, t2}
    MaxPackets = 3
    IPv6 = {2, 3}
    Display = Display
INVARIANTS
    LogTellsPackets
    RowsAreLatest
CHECK_DEADLOCK FALSE
