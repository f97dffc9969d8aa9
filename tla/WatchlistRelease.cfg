SPECIFICATION Spec
CONSTANTS
    N = 1
    WATCH = 1
    Faults = {}
    MaxRelease = 1
    MaxMoves = 0
    MaxCancels = 0
    MaxToggles = 1
INVARIANT RecordedChangesHappened
