CONSTANTS
    NumLevels = 2
    Enabled <- MCEnabled
    TailFiles <- MCTailFiles
    CatFiles <- MCCatFiles
    CatLevels <- MCCatLevels
    MaxTsc = 3
    Torn <- MCTorn

SPECIFICATION Spec

INVARIANTS
    LevelsInOrder
    CatSorted

PROPERTIES
    Shown

CHECK_DEADLOCK FALSE
