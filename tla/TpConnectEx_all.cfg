SPECIFICATION FairSpec
CONSTANTS
    AddrCounts = {1, 2, 3}
    MaxTries = {0, 1, 2}
    TryBound = 3
INVARIANTS
    TriesLimited
    NoDescriptorLost
PROPERTIES
    Ends
