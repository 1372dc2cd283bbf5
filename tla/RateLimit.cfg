SPECIFICATION RateSpec
CHECK_DEADLOCK FALSE
CONSTANTS
    Client = {c1, c2}
    Worker = {w1, w2}
    Window = 2
    ClientBudget = 1
    GlobalBudget = 1
    Paths = {"static", "instance"}
    MaxLimiters = 1
    LimiterTTL = 3
    DrainInterval = 1
    MaxHold = 1
    MaxRaced = 1
    Word = 4
INVARIANTS
    TotalIsExact
    LockEnds
    WindowBudget
SYMMETRY Sym
