CONSTANTS
    None = None
    Handle = {h1}
    Pid = {p1, p2}
    MaxOutput = 1
    ForeignReaper = FALSE
    KillMayFail = TRUE
    ReadMayFail = FALSE
SPECIFICATION Spec
PROPERTIES KillFailureReported
CHECK_DEADLOCK FALSE
