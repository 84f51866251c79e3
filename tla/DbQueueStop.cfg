CONSTANTS
    c1 = c1
    c2 = c2
    None = None
    Slots = 2
    Shards = 1
    Caller = {c1}
    MaxJob = 1
    ShardOf <- Alternating
    FreedByJob = TRUE
    Drains = TRUE
SPECIFICATION FairSpec
CHECK_DEADLOCK FALSE
PROPERTIES
    StopReturns
