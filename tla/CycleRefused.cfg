SPECIFICATION Spec
CONSTANTS
    N = 2
    MAX_PENDING = 0
    ENRICH = 1
    WATCH = 1
    PAGES = 1
    PAGE_SIZE = 1
    Unsafe = {}
    MaxMoves = 1
    MaxCrashes = 0
PROPERTY PagesAreCommitted
