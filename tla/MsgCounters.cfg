SPECIFICATION CountersSpec
CONSTANTS
    NumIds = 3
    NumCounters = 2
    Half = 2
    MaxHits = 3
    MaxCommands = 2
INVARIANTS
    CommandHolds
    CountsExact
CHECK_DEADLOCK FALSE
