SPECIFICATION Spec
CONSTANTS
    e1 = e1
    e2 = e2
    e3 = e3
    e4 = e4
    s1 = s1
    s2 = s2
    Entries = {e1, e2, e3, e4}
    Symbols = {s1, s2}
    Indexed = {s1, s2}
    About <- MCAbout
    GateBatch = 2
    SyncBatch = 2
    StatsLimit = 1
    RerankAt = 1
    BuildAt = 2
    MaxBuilds = 2
    MaxCount = 2
    Submitted <- MCSubmitted
PROPERTIES
    BacklogConsumed
CHECK_DEADLOCK FALSE
