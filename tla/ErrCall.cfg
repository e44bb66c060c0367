CONSTANTS
    None = None
    MaxErr = 2
    PipeSize = 1
SPECIFICATION Spec
INVARIANTS OutputComplete NothingLeft OthersFilesStay ChildStreams
PROPERTIES CallEnds
CHECK_DEADLOCK FALSE
