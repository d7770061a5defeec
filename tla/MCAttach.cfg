SPECIFICATION FairSpec
CONSTANTS
    Tids = {p, a, b, c}
    Leader = p
    NoTid = NoTid
    MaxBirths = 6
    MaxSignals = 1
CHECK_DEADLOCK FALSE
INVARIANTS HeldExactly
PROPERTIES AttachEnds
