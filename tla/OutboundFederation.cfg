SPECIFICATION FairSpec
CONSTANTS
    User = {u1, u2}
    Follower = {f1}
    EmptyScansToStop = 2
    MaxFaults = 2
    MaxEvents = 2
    MaxRestarts = 1
INVARIANTS
    OnePollerPerUser
    StopIsEarned
PROPERTIES
    FollowedIsFederated
    UnfollowedIsStopped
