SPECIFICATION ProcSpec
CONSTANTS
    Line = {l1, l2}
    Size = 3
    Key = {k1, k2, k3, k4}
    Absent = Absent
    Torn = Torn
    NoKey = NoKey
    MaxFaults = 3
INVARIANT
    KeyStable
PROPERTIES
    RefinesRecent
    OnlyTornFileStopsStarts
