SPECIFICATION FairSpec
CONSTANTS
    Runners = {r1, r2}
    Clients = {c1}
    Listing = listing
    None = None
    Faults = TRUE
INVARIANTS ConfirmedMeansStopped CancelledSessionClosed OutcomeStands
PROPERTIES CancelStops
CHECK_DEADLOCK FALSE
