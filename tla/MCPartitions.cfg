SPECIFICATION MCFairSpec
CONSTANTS
    Entries = 2
    Sectors = 4
    Wrap = 5
    MaxFaults = 1
    MaxEbrs = 3
INVARIANTS
    ListsTheChain
    OnlySignedListed
PROPERTIES
    SoundDiskEnds
