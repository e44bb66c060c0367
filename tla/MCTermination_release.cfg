CONSTANTS
    Task = {t1, t2}
    Hierarchy = {freezer}
    FreezerHierarchy = freezer
    Guard = {g1}
    Attacher = {a1}
    Serial = TRUE
    ReleaseAgent = TRUE
SPECIFICATION Spec
INVARIANTS GuardNeverAborts
CHECK_DEADLOCK FALSE
