SPECIFICATION FairSpec
CONSTANTS
    r1 = r1
    r2 = r2
    Repos = {r1, r2}
    Queries <- TwoQueries
    Unsendable = {}
    TooLong = {}
    START = 1
    SETTLE = 1
    OVERLAP = 1
    LAG = 2
    CAP = 2
    PAGE = 1
    MAX_WINDOWS = 2
    MAX_PAGES = 2
    Horizon = 5
    MaxTouches = 1
    MaxAborts = 1
    MaxDeletes = 1
CHECK_DEADLOCK FALSE
INVARIANTS NoSilentGap QueueTiles CheckpointLoads
PROPERTY SearchDrains
