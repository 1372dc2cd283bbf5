SPECIFICATION Spec
CHECK_DEADLOCK FALSE
CONSTANTS
    Actor = {a1}
    Named = {a1}
    Note = {n1, n2}
    Deep = {n1}
    Tweet = {t1}
    None = None
    MaxOps = 3
    MaxFaults = 1
INVARIANTS
    ServerShowsWhatMemberWants
    NodeShowsWhatActorsWant
    OneRowPerNote
    UrlsResolve
    OwnRepliesDedupe
