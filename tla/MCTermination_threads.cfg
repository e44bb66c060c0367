CONSTANTS
    Task = {t1, t2}
    Hierarchy = {freezer}
    FreezerHierarchy = freezer
    Guard = {g1, g2}
    Attacher = {a1}
    Serial = FALSE
    ReleaseAgent = TRUE
SPECIFICATION Spec
SYMMETRY Symmetry
INVARIANTS NobodyLeavesFrozen
CHECK_DEADLOCK FALSE
