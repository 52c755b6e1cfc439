SPECIFICATION TimersSpec
CONSTANTS
    prof = prof
    msg = msg
    self = self
    selfmsg = selfmsg
    Id = {prof, msg, self, selfmsg}
    Kind <- MCKind
    MaxClock = 5
    MaxDepth = 3
    MaxBlocks = 4
INVARIANTS
    SelfExact
CHECK_DEADLOCK FALSE
