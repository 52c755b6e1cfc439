SPECIFICATION Spec
CONSTANTS
    main = main
    worker = worker
    mt = mt
    again = again
    plain = plain
    None = None
    Thread = {main, worker}
    Handle = {mt, again, plain}
    Mt = {mt, again}
    Default = {mt, again}
    Suffix <- MCSuffix
    Uses <- MCUses
    MaxCalls = 5
INVARIANTS
    OneWriter
    FilesAccounted
PROPERTIES
    FindsOpenFile
    ForkCloses
    CallsReturn
CHECK_DEADLOCK FALSE
