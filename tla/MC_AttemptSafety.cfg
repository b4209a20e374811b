SPECIFICATION Spec
CONSTANTS
    Clients = {c1, c2}
    Resumers = {c1, c2}
    Cancellers = {c1, c2}
    Sups = {s1, s2, s3}
    MaxAttempt = 2
    StopReasons = {"timed_out"}
    Faults = FALSE
    None = None
SYMMETRY Symmetry
INVARIANTS SpawnOnce
PROPERTIES CancelBlocksSpawn WorktreeKept
CHECK_DEADLOCK FALSE
