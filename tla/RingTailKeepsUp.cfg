SPECIFICATION TailSpec
CONSTANTS
    a = a
    b = b
    c = c
    Id = {a, b, c}
    Words <- MCWordsAlike
    BufEnd = 11
    TrailerSize = 6
    QtctlIds = {}
    MaxTsc = 8
    Threshold = 2
    KeepsUp = TRUE
    Patient = TRUE
INVARIANTS
    HoldsItsPlace
    LinesExact
PROPERTIES
    ImplementsLog
CHECK_DEADLOCK FALSE
