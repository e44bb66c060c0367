CONSTANTS
    Task = {t1, t2, t3}
    Hierarchy = {freezer}
    FreezerHierarchy = freezer
    Guard = {g1, g2}
    Attacher = {a1}
    Serial = TRUE
    ReleaseAgent = FALSE
SPECIFICATION FairSpec
INVARIANTS NeverThrows
PROPERTIES NoStrayKill Returns ImplementsShutdown
CHECK_DEADLOCK FALSE
