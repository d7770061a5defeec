SPECIFICATION Spec
CONSTANTS
    Tids = {p, a, b}
    NoTid = NoTid
    Leader = p
    Handlers = FALSE
    MaxUsr = 1
    Commands = {"STRT", "STOP"}
    Env = {"signal", "clone"}
    MaxCmds = 3
SYMMETRY Symmetry
CHECK_DEADLOCK FALSE
INVARIANTS NoServerBug ViewTruthful StopMeansStopped SignalConserved TracingRuns
