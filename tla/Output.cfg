SPECIFICATION FairSpec
CONSTANTS
    Events = {e1}
    Pids = {p1, p2}
    None = None
    MAX_ATTEMPTS = 2
    MaxErrors = 3
    MaxExits = 2
    MaxPower = 1
    MaxRetries = 1
INVARIANTS PublishedIsWhole LeftoversAreHarmless
PROPERTIES NeverOverwritten RowsAreSettled
CHECK_DEADLOCK FALSE
