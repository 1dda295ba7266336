SPECIFICATION FairSpec
CONSTANTS
    Inserts = {i1, i2}
    MaxAlters = 2
INVARIANTS
    CacheInv
PROPERTIES
    Refetches
    Recovers
