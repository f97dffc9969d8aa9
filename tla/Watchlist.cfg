SPECIFICATION FairSpec
CONSTANTS
    N = 2
    WATCH = 1
    Faults = {"private", "gone"}
    MaxRelease = 1
    MaxMoves = 1
    MaxCancels = 1
    MaxToggles = 2
PROPERTIES ClockMeansFresh WatchedAreRefreshed
