SPECIFICATION Spec
CHECK_DEADLOCK FALSE
CONSTANTS
    NumTweets = 3
    Original = {1, 2, 3}
    PageSize = 2
    SeenSize = 4
    TTL = 4
    MaxMissed = 0
    SeedMayFail = TRUE
    MaxDeletes = 0
    MaxLost = 0
INVARIANTS
    OnlyNewPosts
