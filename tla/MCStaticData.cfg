CONSTANTS
    k0 = k0
    s1 = s1
    s2 = s2
    DefaultShape = noShape
    Accesses = {a1, a2}
    Admins = {m1}
    Keys <- OneKey
    DefaultKey = k0
    Shapes <- TwoShapes
    MaxEntryCount = 2
    WaitTimeouts <- AnyWait
    Policies <- LRU
    SizeBits = 2
SPECIFICATION DataSpec
SYMMETRY AccessSymmetry
INVARIANTS
    StaticBuffersOutliveLeases
    ReadyIsComplete
    FreshStart
    SizesAreExact
