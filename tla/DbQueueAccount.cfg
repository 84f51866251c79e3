CONSTANTS
    c1 = c1
    c2 = c2
    None = None
    Slots = 2
    Shards = 2
    Caller = {c1}
    MaxJob = 5
    ShardOf <- Alternating
    FreedByJob = FALSE
    Drains = FALSE
SPECIFICATION FairSpec
CHECK_DEADLOCK FALSE
INVARIANTS
    SlotOwned
    RequestHeldOnce
PROPERTIES
    RequestAnswered
