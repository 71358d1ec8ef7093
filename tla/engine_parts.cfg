SPECIFICATION EngineSpec
CONSTANTS
    Writers = {"w1", "w2"}
    Payloads <- SmallPayloads
    Blocks <- SmallBlocks
    MaxBlocks = 2
    NoRecord = "none"
    Names <- ListedNames
    Lists <- UserLists
    Catalogues <- TwoLanes
    Ingests = {1, 2}
    MaxDay = 2
    Queries = {1, 2}
    Published <- Schedule
    Kept = 2
    pq_enabled = TRUE
    MaxNow = 4
    MaxRegressions = 1
    Networks = {"home", "cafe"}
    Resolvers = {"r"}
    capacity = 1
    ttl = 1
    MaxClock = 2
    STOP_COUNTER_DELAY = 1
    PENDING_START_GRACE = 1
    MaxCommands = 1
    Requests = {"on", "off", "restart", "revoke"}
    PortBusy = {FALSE, TRUE}
    Starts = {"plain", "sticky", "broadcast"}
    Leftovers <- AnyLeftovers
INVARIANTS
    HalfRecordOnlyIfOverlapped
    SetIsUnion
    TagsEarned
    UsedInWindow
    
    CacheIsLatest
    PoolFollowsLoop
PROPERTY OkMeansRecorded
CHECK_DEADLOCK FALSE
