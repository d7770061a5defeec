SPECIFICATION Spec
CONSTANTS
    Tids = {p, a}
    NoTid = NoTid
    Leader = p
    Handlers = TRUE
    MaxUsr = 1
    Commands = {"STRT", "STOP", "INJL", "INJU", "DETC", "KILL"}
    Env = {"signal", "clone", "fork", "exec", "exit", "group_exit"}
    MaxCmds = 3
CHECK_DEADLOCK FALSE
INVARIANTS StoppedStaysStopped NoStaleStopme HeldWhileStopped
