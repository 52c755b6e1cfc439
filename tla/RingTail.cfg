SPECIFICATION TailSpec
CONSTANTS
    a = a
    b = b
    c = c
    Id = {a, b}
    Words <- MCWords
    BufEnd = 6
    TrailerSize = 5
    QtctlIds = {}
    MaxTsc = 10
    Threshold = 1
    KeepsUp = FALSE
    Patient = FALSE
INVARIANTS
    NoFalseLine
    LinesInOrder
PROPERTIES
    Recovers
CHECK_DEADLOCK FALSE
