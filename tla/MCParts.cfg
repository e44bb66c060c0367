CONSTANTS
    None = None
    Object = {o1, o2, o3}
    Number = {n1, n2, n3}
    Library = {l1, l2}
    MaxRefs = 3
    UserId = {0, 1}
    Char = {32, 12, 92}
    MaxLength = 2
    MaxEntries = 2
    MaxKept = 0
    Garbage <- Texts
    Path = {p, q}
    Caller = {c1, c2}
    Limit = {1, 2}
    MaxTicks = 3
    Den = 3
    ClkTck = 2
    Modulus = 8
    MaxSeen = 3
    Thread = {t1}
    Catalogue = {y1, y2}
    HierId = {i1, i2}
    Subsystem = {cpu, freezer}
    Dir = {d1, d2}
    MaxChanges = 2
    Forced = TRUE
    Multiple = {m1, m2}
    h1 = h1
    f1 = f1
    Hier = {h1, h2}
    ChildName = {n1}
    Root = Root
    Field = {f1}
    Has <- OneField
SPECIFICATION PartsSpec
SYMMETRY Symmetry
INVARIANTS PartsTypeOK OwnedOnce Accounted DroppedForGood RootMayDrop WrittenIsRead KindsSeen ReadIsCurrent CatalogueTrue AskedFor CacheIsCurrent GroupsNothingLeft AnswerTrue
PROPERTIES ActsLikeSets StableUnlessForced
CHECK_DEADLOCK FALSE
