CONSTANTS
    None = None
    Handle = {h1, h2}
    Pid = {p1, p2}
    MaxOutput = 1
    ForeignReaper = TRUE
    KillMayFail = FALSE
    ReadMayFail = FALSE
SPECIFICATION FairSpec
PROPERTIES StopReturns
CHECK_DEADLOCK FALSE
