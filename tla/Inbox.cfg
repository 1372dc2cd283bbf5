SPECIFICATION FairSpec
CHECK_DEADLOCK FALSE
CONSTANTS
    Actor = {a1, a2}
    MaxInflight = 2
    MaxConcurrent = 2
    MaxRequests = 3
    MaxUndos = 1
    MaxPublishes = 1
    MaxRestarts = 1
    Faults = {"key", "user", "resolve", "accept", "answer", "add"}
    MaxFaults = 1
    MaxHangs = 2
INVARIANTS
    SlotsAccounted
    SignerOwnsFollow
    AcceptedIsPersisted
PROPERTIES
    PoolServesEveryone
