CONSTANTS
    None = None
    Handle = {h1, h2}
    Pid = {p1, p2, p3}
    MaxOutput = 1
    ForeignReaper = FALSE
    KillMayFail = TRUE
    ReadMayFail = TRUE
SPECIFICATION Spec
SYMMETRY Symmetry
INVARIANTS TypeOK EveryChildHasOwner ResultIsComplete
PROPERTIES OnlyOwnChildKilled ImplementsChildren
CHECK_DEADLOCK FALSE
