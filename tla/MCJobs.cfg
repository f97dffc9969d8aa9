SPECIFICATION JobsFairSpec
CONSTANTS
    f = f
    t = t
    w = w
    Files = {f}
    Toasts = {t}
    Webs = {w}
    Permits <- MCPermits
    Threads = 2
    MAX_ATTEMPTS = 3
    Timeout = 1
    None = None
    MaxClaims <- MCMaxClaims
    MaxAborts = 1
INVARIANTS WorkersAreAdmitted DeliveredTookEffect
PROPERTIES DeliveriesReturn AbandonedToastsEnd
CHECK_DEADLOCK FALSE
