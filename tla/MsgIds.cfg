SPECIFICATION Spec
CONSTANTS
    s1 = s1
    s2 = s2
    s3 = s3
    t1 = t1
    t2 = t2
    default = default
    other = other
    NoOne = NoOne
    Thread = {t1, t2}
    Stmt = {s1, s2, s3}
    Handle = {default, other}
    Used <- MCUsed
    MaxId = 2
    WritesFail = FALSE
    MaxMsgs = 2
INVARIANTS
    Readable
PROPERTIES
    TraceReturns
CHECK_DEADLOCK FALSE
