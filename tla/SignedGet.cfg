SPECIFICATION FairSpec
CHECK_DEADLOCK FALSE
CONSTANTS
    Caller = {k1, k2, k3}
    MaxAttempts = 2
    CacheTTL = 2
    HTTPTimeout = 2
    MaxWrites = 1
INVARIANTS
    BurstCollapses
    BoundedStaleness
PROPERTIES
    EveryCallerReturns
