SPECIFICATION FairSpec
CONSTANTS
    Repos = {r1}
    Channels = {c1}
    Filtered = {}
    MAX_ATTEMPTS = 2
    LEASE = 2
    BASE_DELAY = 1
    MAX_DELAY = 2
    PASS_BUDGET = 2
    MaxRev = 1
    MaxCrashes = 1
    MaxRetries = 1
INVARIANTS LiveRowsEligible RowsAreHistory HeldRowIsMine SendsAreBounded
PROPERTIES ImplementsLedger SettledStaysSettled EverythingSettles
