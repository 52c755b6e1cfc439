SPECIFICATION Spec
CONSTANTS
    NumTraceLevels = 2
    MaxLevel = 4
    MaxTotal = 2
    KB = 2
    Headers = 3
    Width = 64
    FloatError = 1
    Sizes <- MCSizes
    BackupName <- MCBackupName
    CompressAnyTime = FALSE
    MaxWork = 6
    MaxIndex = 2
INVARIANTS
    RingsFit
    RotationKeeps
    BackupsHoldEverything
CHECK_DEADLOCK FALSE
