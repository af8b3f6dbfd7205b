SPECIFICATION FairSpec
CONSTANTS
    PidMax = 5
    Scenarios <- MCScenarios
    HaveMgmt = TRUE
    None = None
CHECK_DEADLOCK FALSE
INVARIANTS Supervised Named
PROPERTIES PidKept Shutdown Recovers Noted
