SPECIFICATION FairSpec
CONSTANTS
    Threads = {t1, t2, t3}
    NoThread = NoThread
    MaxPieces = 2
INVARIANTS MutualExclusion NoLostWakeup
PROPERTIES WholeMessages Progress ImplementsLock
