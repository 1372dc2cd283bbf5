SPECIFICATION FairSpec
CONSTANTS
    Actor = {a1, a2, w}
    Bridged = {a1, a2}
    PageSize = 2
    Faults = {"read", "other", "resolve", "deliver"}
    MaxFaults = 2
    MaxChanges = 2
    MaxRestarts = 1
INVARIANTS
    PeersMatchKnown
    UndoOnlyIfUnfollowed
    HistoryNotReplayed
PROPERTIES
    KnownConverges
