SPECIFICATION FairSpec
CONSTANTS
    Clients = {c1}
    Resumers = {c1}
    Cancellers = {c1}
    Sups = {s1, s2, s3}
    MaxAttempt = 2
    StopReasons = {"timed_out", "boundary_violation"}
    Faults = TRUE
    None = None
PROPERTIES SpawnVerified PastIsFrozen AttemptEnds
CHECK_DEADLOCK FALSE
