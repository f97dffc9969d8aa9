SPECIFICATION FairSpec
CONSTANTS
    tok = tok
    c1 = c1
    c2 = c2
    c3 = c3
    Callers = {c1, c2, c3}
    Permits = 2
    Credentials <- MCCredentials
    Malformed = Malformed
    Anonymous = Anonymous
    Resources = {"core"}
    Quota = 1
    Window = 2
    Default = 2
    MaxRequests = 3
    MaxFaults = 2
INVARIANTS RefusalsAreBounded
PROPERTIES SendsAreAllowed RequestsEnd
CHECK_DEADLOCK FALSE
