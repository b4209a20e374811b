SPECIFICATION Spec
CONSTANTS
    Root = root
    Kids = {k1, k2}
    Reqs = {r1, r2}
    Host = host
    MaxAttempt = 1
    MaxPending = 1
    MaxRequests = 2
    MaxActive = 3
    MaxTree = 3
    Faults = FALSE
    None = None
SYMMETRY Symmetry
INVARIANTS TypeOK SuccessMeansJoined StopReaches
CHECK_DEADLOCK FALSE
