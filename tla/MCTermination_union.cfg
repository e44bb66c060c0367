CONSTANTS
    Task = {t1, t2}
    Hierarchy = {freezer, cpu}
    FreezerHierarchy = freezer
    Guard = {g1}
    Attacher = {a1}
    Serial = TRUE
    ReleaseAgent = FALSE
SPECIFICATION Spec
INVARIANTS AllTasksDoomed
CHECK_DEADLOCK FALSE
