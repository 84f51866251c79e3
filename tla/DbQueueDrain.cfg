CONSTANTS
    c1 = c1
    c2 = c2
    None = None
    Slots = 2
    Shards = 2
    Caller = {c1, c2}
    MaxJob = 4
    ShardOf <- Alternating
    FreedByJob = TRUE
    Drains = TRUE
SPECIFICATION Spec
CHECK_DEADLOCK FALSE
INVARIANTS
    DrainedIsDone
