SPECIFICATION EvidenceSpec
SYMMETRY EqualOriginals
CONSTANTS
    s1 = s1
    s2 = s2
    p1 = p1
    None = None
    Procs = {p1, p2}
    Sessions = {s1, s2}
    Consoles = {s1}
    Home <- SessionsOfOne
    Cases = {c1}
    MaxEntries = 2
    Originals = {o1, o2}
    FileNames = {n1}
    Size = 2
    MaxFaults = 1
INVARIANTS
    ExclusiveUnlessBroken
    SessionLogBracketed
    RacesBreakLocks
    CopiesAreGenuine
    LoggedOnce
PROPERTIES
    NothingOverwritten
