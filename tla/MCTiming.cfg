SPECIFICATION Spec
CONSTANTS
    NumFlows = 2
    Count = 2
    LinesOf <- TwoThenOne
    Arrivals = {0, 1, 20}
    Policies <- AllArms
    Configs <- SomeSettings
    HitPatterns <- LastLineDiffers
    SerializationPs = 1
    LinkLatency = 2
    CpuBase = 1
    LlcHit = 1
    HostMiss = 3
    NicMiss = 2
    PsPerNs = 2
    MaxTime = 100
    NoLimit = NoLimit
INVARIANTS
    NeverRaises NothingLeftWaiting CreditCoversPushed OnlyOversizedStarve GateChangesAlternate
