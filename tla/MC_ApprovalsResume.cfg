SPECIFICATION FairSpec
CONSTANTS
    Workers = {w1}
    Jobs = {j1}
    Operators = {o1}
    Resumers = {p1}
    Reqs = {r1, r2}
    MaxAttempt = 2
    None = None
PROPERTIES ApprovalKept OnlyResumeRevives WaitEnds
CHECK_DEADLOCK FALSE
