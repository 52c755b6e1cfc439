SPECIFICATION CatSpec
CONSTANTS
    a = a
    b = b
    Id = {a, b}
    Words <- MCWords
    BufEnd = 11
    TrailerSize = 5
    QtctlIds = {b}
    MaxTsc = 18
INVARIANTS
    TypeOK
    LapReadable
    OldLapReadable
    Delimited
    CatSuffix
    CatComplete
    CatRefusesOnlyTorn
    BackWalkInStep
CHECK_DEADLOCK FALSE
