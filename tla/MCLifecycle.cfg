CONSTANTS
    k0 = k0
    k1 = k1
    k2 = k2
    s1 = s1
    s2 = s2
    DefaultShape = noShape
    Accesses = {a1, a2}
    Admins = {m1, m2}
    Keys <- TwoKeys
    DefaultKey = k0
    Shapes <- OneShape
    MaxEntryCount = 2
    WaitTimeouts <- AnyWait
    Policies <- LRU
SPECIFICATION FairSpec
INVARIANTS
    UseImpliesRunning
PROPERTIES
    FailureIsSticky
    EveryRequestReturns
