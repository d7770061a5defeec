SPECIFICATION FairSpec
CONSTANTS
    Threads = {a, b}
    Sites = {1}
    FarReturns = TRUE
    MaxSignals = 1
    MaxFails = 2
CHECK_DEADLOCK FALSE
INVARIANTS Unharmed
PROPERTIES StabilizeEnds
