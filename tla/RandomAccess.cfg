CONSTANTS
    Ue = {a, b}
    Preambles = {p, q}
    PrachPeriod = 4
    NofTtis = 12
    SchedTtis = 12
    NofRaRnti = 4
    responseWindowSize = 3
    prach_rar_window = 3
    preambleTransMax = 1
    RachDelay = 2
    DecodeTtis = 2
    NofRnti = 2
    NoRoom <- MCNoRoom
SPECIFICATION Spec
SYMMETRY MCSymmetry
INVARIANTS RarInTime OneUePerRnti ContentionEnds RarIsAnswer
