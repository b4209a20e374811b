SPECIFICATION Spec
CONSTANTS
    Workers = {w1, w2}
    Jobs = {j1, j2}
    Operators = {o1}
    Resumers = {p1}
    Reqs = {r1, r2}
    MaxAttempt = 1
    None = None
SYMMETRY Symmetry
INVARIANTS ApprovedOnce Attributable
PROPERTIES CancellationWins RejectionStands
CHECK_DEADLOCK FALSE
