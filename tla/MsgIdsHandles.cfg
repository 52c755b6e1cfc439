SPECIFICATION Spec
CONSTANTS
    s1 = s1
    s2 = s2
    s3 = s3
    t1 = t1
    t2 = t2
    default = default
    other = other
    NoOne = NoOne
    Thread = {t1}
    Stmt = {s1, s2}
    Handle = {default, other}
    Used <- MCUsedBoth
    MaxId = 3
    WritesFail = FALSE
    MaxMsgs = 2
INVARIANTS
    Readable
CHECK_DEADLOCK FALSE
