CONSTANTS
    Task = {t1, t2, t3}
    Hierarchy = {freezer, cpu}
    FreezerHierarchy = freezer
    Guard = {g1}
    Attacher = {a1}
    Serial = TRUE
    ReleaseAgent = FALSE
SPECIFICATION Spec
SYMMETRY Symmetry
INVARIANTS NoEscape
PROPERTIES EmptyOnReturn
CHECK_DEADLOCK FALSE
