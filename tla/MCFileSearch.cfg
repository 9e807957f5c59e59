SPECIFICATION Spec
CONSTANTS
    Root = r
    Dirs = {r, d1, d2}
    Files = {f1}
    Names <- SomeNames
    Lines <- SomeLines
    Keys <- SomeKeys
    MaxFaulty = 1
    MaxGone = 2
    MaxPicks = 2
SYMMETRY DirSymmetry
INVARIANTS
    
    ActsOnWhatIsListed
CHECK_DEADLOCK FALSE
