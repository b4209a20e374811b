SPECIFICATION Spec
CONSTANTS
    Headless = {h1, h2}
    Interactive = {i1}
    Names = {1, 2}
    Owners = {p1}
    Remover = remover
    MaxInode = 2
    None = None
SYMMETRY Symmetry
INVARIANTS LaunchedIsFound RecordHasCheckout OrphanCovered OwnersApart
PROPERTIES HandleStable
CHECK_DEADLOCK FALSE
