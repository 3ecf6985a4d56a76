CONSTANTS
    k0 = k0
    k1 = k1
    s1 = s1
    DefaultShape = noShape
    Accesses = {a1, a2}
    Admins = {m1}
    Keys <- TwoKeys
    DefaultKey = k0
    Shapes <- OneShape
    MaxEntryCount = 1
    WaitTimeouts <- AnyWait
    Policies <- LRU
    MaxRequests = 4
SPECIFICATION StatSpec
SYMMETRY AccessSymmetry
INVARIANT CountersReconcile
