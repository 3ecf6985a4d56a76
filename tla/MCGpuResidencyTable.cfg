CONSTANTS
    Keys = {k1, k2, k3, k4}
    EntryIndices = {e1, e2}
    NoEntry = NoEntry
    HashValues <- SmallHashes
    Limits = {0, 2, 3, 5, 9}
    Width = 4
SPECIFICATION FairSpec
INVARIANTS
    FindIsExact
PROPERTIES
    ImplementsMap
    EraseTerminates
