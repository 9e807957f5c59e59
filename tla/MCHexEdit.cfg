SPECIFICATION Spec
CONSTANTS
    Eof = Eof
    Sessions = {s1, s2}
    sp = sp
    ff = ff
    Bytes = {sp, ff}
    FF = ff
    White = {sp}
    Size = 2
    p1 = p1
    p1s = p1s
    p2 = p2
    p3 = p3
    vsp = vsp
    vff = vff
    Positions = {p1, p1s, p2, p3}
    Atoi <- Numbered
    Values = {vsp, vff}
    FromHex <- Valued
    MaxEdits = 2
SYMMETRY SessionSymmetry
INVARIANTS
    LogTellsHistory
    ReplacesWhatIsShown
CHECK_DEADLOCK FALSE
