SPECIFICATION FairSpec
CHECK_DEADLOCK FALSE
CONSTANTS
    NumTweets = 5
    Original = {1, 2, 3, 5}
    PageSize = 2
    SeenSize = 4
    TTL = 3
    MaxMissed = 1
    SeedMayFail = TRUE
    MaxDeletes = 1
    MaxLost = 1
INVARIANTS
    PublishedAtMostOnce
    HistoryNotReplayed
PROPERTIES
    NewPostFederated
