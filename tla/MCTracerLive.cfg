SPECIFICATION FairSpec
CONSTANTS
    Tids = {p, a}
    NoTid = NoTid
    Leader = p
    Handlers = FALSE
    MaxUsr = 1
    Commands = {"STRT", "STOP"}
    Env = {"clone", "signal"}
    MaxCmds = 3
CHECK_DEADLOCK FALSE
PROPERTIES StopCompletes BornRuns
