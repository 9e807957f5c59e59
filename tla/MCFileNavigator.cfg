SPECIFICATION FairSpec
CONSTANTS
    Dirs <- SmallTree
    Typed <- SmallTyped
    historyMaxSize = 3
INVARIANTS
    HistoryOK
    NoRepeats
    ShowsCurrent
PROPERTIES
    HandlerReturns
    IsBrowserHistory
