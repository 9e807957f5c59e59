SPECIFICATION Spec
CONSTANTS
    s1 = s1
    s2 = s2
    p1 = p1
    None = None
    Free = Free
    Stale = Stale
    Procs = {p1}
    Sessions = {s1, s2}
    Consoles = {s1}
    Home <- OneProcess
    Cases = {c1}
    MaxEntries = 2
INVARIANTS
    MutualExclusion
