SPECIFICATION Spec
CONSTANTS
    Tasks = {t1, t2}
    AlgoCount = 2
    FrameCount = 2
    Entries = 1
    Names = {n1, n2}
    Blobs = {b1, b2}
    MaxRevision = 3
    MaxExecutions = 2
SYMMETRY TaskSymmetry
INVARIANTS
    ResultsAreExact
    UsableIsComplete
PROPERTIES
    StagingIsQuiet
CHECK_DEADLOCK FALSE
