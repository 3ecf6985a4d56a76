CONSTANTS
    k0 = k0
    k1 = k1
    k2 = k2
    s1 = s1
    s2 = s2
    DefaultShape = noShape
    Accesses = {a1, a2}
    Admins = {m1}
    Keys <- ThreeKeys
    DefaultKey = k0
    Shapes <- OneShape
    MaxEntryCount = 2
    WaitTimeouts <- Waiting
    Policies <- AnyPolicy
SPECIFICATION Spec
SYMMETRY AccessSymmetry
INVARIANTS
    RequestsAreServable
    Bookkeeping
PROPERTIES
    ImplementsStore
