SPECIFICATION MCFairSpec
CONSTANTS
    N = 6
    Records = 2
    Cells = 4
    MaxListed = 2
    MaxFaults = 1
    Byte = 4
    Years = {0, 1, 2, 4, 8, 16, 32, 64, 127}
INVARIANTS
    ListsDeletedFiles
    NamesAreComplete
    ListsDeletedNames
    ReadAsWritten
PROPERTIES
    ScanEnds
