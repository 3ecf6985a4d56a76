CONSTANTS
    k0 = k0
    k1 = k1
    k2 = k2
    s1 = s1
    s2 = s2
    DefaultShape = noShape
    Accesses = {a1, a2, a3}
    Admins = {m1}
    Keys <- TwoKeys
    DefaultKey = k0
    Shapes <- TwoShapes
    MaxEntryCount = 1
    WaitTimeouts <- AnyWait
    Policies <- LRU
SPECIFICATION Spec
SYMMETRY AccessSymmetry
INVARIANTS
    FillIsExclusive
    ReaderSeesItsFrame
    NoFillOverUndrainedWork
    NoLostWakeup
PROPERTIES
    DiscardIsFinal
