CONSTANTS
    None = None
    Thread = {t1, t2}
    Catalogue = {c1, c2, c3, c4}
    Id = {i1}
    Subsystem = {cpu}
    Dir = {d1}
    MaxChanges = 0
    Forced = FALSE
SPECIFICATION Spec
INVARIANTS NoFreedCatalogue
CHECK_DEADLOCK FALSE
