SPECIFICATION Spec
CONSTANTS
    Versions = {v1, v2}
    Launches = {l1}
    Headless = {h1}
    Commands = {c1}
    Removers = {r1}
    Faults = TRUE
    None = None
SYMMETRY Symmetry
INVARIANTS SessionKeepsPackage HeadlessQuiet
CHECK_DEADLOCK FALSE
