SPECIFICATION Spec
CONSTANTS
    N = 2
    MaxFlush = 2
    Inputs <- FlushInputs
INVARIANTS FlushCovers
CHECK_DEADLOCK FALSE
