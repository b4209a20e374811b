SPECIFICATION Spec
CONSTANTS
    Migrators = {m1, m2}
    MaxEdits = 2
    None = None
SYMMETRY Symmetry
INVARIANTS PhaseTruthful Recoverable
PROPERTIES EditsStand JournalKept
CHECK_DEADLOCK FALSE
