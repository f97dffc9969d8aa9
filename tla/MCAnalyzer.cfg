SPECIFICATION FairSpec
CONSTANTS
    MAX_FILES = 3
    MAX_ENTRIES = 5
    MAX_DEPTH = 1
    MAX_FILE_BYTES = 2
    MAX_TOTAL_BYTES = 4
    MAX_DEPENDENCIES = 2
    MAX_FINDINGS = 3
    MAX_OSV_QUERIES = 2
    LOCAL_TIMEOUT = 1
    OSV_TIMEOUT = 1
    Tree <- MCTree
    Packages <- MCPackages
    Roots <- MCRoots
    None = None
    Valid <- MCValid
    Vulnerable <- MCVulnerable
    MaxErrors = 1
INVARIANTS HonestReport WorkIsBounded
PROPERTY CallerReturns
CHECK_DEADLOCK FALSE
