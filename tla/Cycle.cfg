SPECIFICATION FairSpec
CONSTANTS
    N = 2
    MAX_PENDING = 1
    ENRICH = 1
    WATCH = 1
    PAGES = 1
    PAGE_SIZE = 1
    Unsafe = {}
    MaxMoves = 2
    MaxCrashes = 1
INVARIANTS DataBehindCursor 
PROPERTIES ReferencesAreKept QuarantineIsFinal SequentialCatchesUp
