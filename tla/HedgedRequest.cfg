SPECIFICATION FairSpec
CONSTANTS
    N = 4
    HedgeDelay = 2
    PerPeerTimeout = 5
    RequestTimeout = 7
    Latency = {1, 9}
INVARIANTS
    SlowPeerCostsOneHedge
    LoadIsHedged
PROPERTIES
    HealthyAnswers
    OnlySilentPeersLeak
