SPECIFICATION FairSpec
CHECK_DEADLOCK FALSE
CONSTANTS
    Node = {n1, n2}
    Gone = {g1}
    Relay = {r1}
    User = {u1}
    Caller = {k1, k2}
    MaxCandidates = 3
    Reach = 2
    OwnerTTL = 2
    MaxMoves = 1
    MaxOutages = 1
    MaxFaults = 1
PROPERTIES
    OwnerConverges
    OwnerAnswers
    RequestsRecover
