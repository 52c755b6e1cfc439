SPECIFICATION Spec
CONSTANTS
    NumNames = 2
    MaxFiles <- Files
    MaxMsgs <- Msgs
INVARIANTS
    AwaitsModification
    EndsRead
    AbortsOnlyBehind
PROPERTIES
    OldFileRead
    OpensOnce
    Follows
CHECK_DEADLOCK FALSE
