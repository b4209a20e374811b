SPECIFICATION FairSpec
CONSTANTS
    Root = root
    Kids = {k1}
    Reqs = {r1}
    Host = host
    MaxAttempt = 2
    MaxPending = 1
    MaxRequests = 1
    MaxActive = 2
    MaxTree = 2
    Faults = TRUE
    None = None
INVARIANTS DispatchedOnce
PROPERTIES SubtreeStaysDown CancelledTreeEnds
CHECK_DEADLOCK FALSE
