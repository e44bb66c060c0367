CONSTANTS
    a = a
    None = None
    Thread = {t1, t2}
    Object = {o1, o2, o3, o4}
    Name <- OneName
    Request <- SharedRequests
    MaxDepth = 2
    MaxTrees = 1
    MaxHandles = 2
    CpuSet = TRUE
    Tasks = TRUE
    Others = TRUE
SPECIFICATION Spec
SYMMETRY Symmetry
INVARIANTS TypeOK NothingLeftBehind NoDanglingPointer OneObjectPerGroup OneCreator
PROPERTIES ActsOnPaths
CHECK_DEADLOCK FALSE
