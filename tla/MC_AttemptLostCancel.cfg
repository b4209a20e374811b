SPECIFICATION Spec
CONSTANTS
    Clients = {c1, c2}
    Resumers = {c1}
    Cancellers = {c2}
    Sups = {s1, s2}
    MaxAttempt = 3
    StopReasons = {"timed_out", "boundary_violation"}
    Faults = FALSE
    None = None
PROPERTIES CancelHonoured
CHECK_DEADLOCK FALSE
