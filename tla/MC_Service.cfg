SPECIFICATION Spec
CONSTANTS
    Sessions = {c1}
    Cores = {k1, k2}
    Ops = {o1, o2}
    Window = 2
    MaxOperations = 2
    MaxRevision = 6
    None = None
SYMMETRY Symmetry
INVARIANTS EntryValid AnswersAgree ReplayComplete AtMostOnce TerminalMeansOver
PROPERTIES KeepsPromise
CHECK_DEADLOCK FALSE
