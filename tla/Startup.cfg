SPECIFICATION StartupSpec
CONSTANTS
    Procs = {p1, p2}
    None = None
    Corrupt = Corrupt
    MaxStarts = 3
    MaxCycles = 3
    MaxBusy = 1
INVARIANTS MigrationIsSafe OldRowsAreNotAnnounced
PROPERTIES CheckpointSurvives
CHECK_DEADLOCK FALSE
