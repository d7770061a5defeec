SPECIFICATION FairSpec
CONSTANTS
    Tids = {p, a}
    NoTid = NoTid
    Leader = p
    Handlers = FALSE
    MaxUsr = 0
    Commands = {"STRT", "KILL"}
    Env = {"clone"}
    MaxCmds = 2
CHECK_DEADLOCK FALSE
PROPERTIES KillCompletes
