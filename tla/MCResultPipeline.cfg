SPECIFICATION FairSpec
CHECK_DEADLOCK FALSE
CONSTANTS
    FrameCount = 4
    InFlight = 2
    Entries = 2
    CpuStages = 2
INVARIANTS
    SlotsAreConserved
    NoSpuriousFailure
    NoLeaseAcrossCpuGap
    VerdictIsHonest
PROPERTY PipelineReturns
