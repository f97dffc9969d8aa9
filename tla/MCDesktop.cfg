SPECIFICATION FairSpec
CONSTANTS
    Commands = 2
    Events = 1
    Monitored = FALSE
    Watch = 1
    None = None
    Users <- MCUsers
    MaxClicks = 3
    MaxCycles = 1
    MaxErrors = 1
INVARIANTS WindowIsTruthful CancelIsHonest
PROPERTIES NoReportIsDropped RequestsAreAnswered WorkersStop
CHECK_DEADLOCK FALSE
