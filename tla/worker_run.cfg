SPECIFICATION FairSpec
CONSTANTS
    N = 2
    MaxFlush = 1
    Inputs <- RunInputs
INVARIANTS TypeOK SetupCleanupApart MonitorsGone ToldBeforeCleanup
PROPERTIES CancelReturns
CHECK_DEADLOCK FALSE
