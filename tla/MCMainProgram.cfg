SPECIFICATION FairMainSpec
CHECK_DEADLOCK FALSE
CONSTANTS
    Graphs = {1, 2}
    WarmupCount = 1
    TimedCount = 2
INVARIANTS
    PhasesAreCommon
    ExitIsHonest
PROPERTY MainReturns
