SPECIFICATION WalkSpec
CHECK_DEADLOCK FALSE
CONSTANTS
    Limit = 2
    MaxConcurrent = 2
    MaxReplies = 3
    MaxPages = 3
    StartItems = 3
    MaxChanges = 1
    MaxWalks = 1
    MaxFaults = 1
    NoCursor = NoCursor
INVARIANTS
    NewestFirst
    WalkIsComplete
PROPERTY
    WalkEnds
