SPECIFICATION FairSpec
CONSTANTS
    Workers = {w1, w2, w3}
    TaskCount = 2
    WarmupCount = 1
    TimedCount = 3
    Params = {p1, p2}
    MaxRevision = 1
INVARIANTS
    SchedulerAccounting
    GateOutlivesItsWorkers
    ExecutionsAreFenced
PROPERTIES
    ImplementsContract
    PhaseEnds
    CallsReturn
