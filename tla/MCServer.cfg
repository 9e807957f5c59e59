SPECIFICATION FairSpec
CONSTANTS
    None = None
    Clients = {a, b}
    Listeners = {l1, l2}
    MaxLines = 2
    MaxStarts = 3
    PromptThreads = TRUE
INVARIANTS
    TalkerOwnsItsSocket
    OneLinePerCommand
    QuietLeaverIsHarmless
PROPERTIES
    PortIsReleased
    TalkersEnd
CHECK_DEADLOCK FALSE
