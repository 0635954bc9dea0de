SPECIFICATION GSpec
CONSTANTS
    SampleIntervals = {1, 2, 3}
    ControlDelays = {0, 1, 2}
    Instant = Instant
    MaxLines = 5
    Ops <- AllOps
    Counted <- CountedOps
    Checked = {"query"}
    OtherOps = {"write"}
    MaxOthers = 1
    Parts = 2
    MaxCalls = 12
INVARIANTS
    PushesFollowSamples ControlWritesAlternate
    CountsMatchServer LinesPlacedAsDecided SamplesAreCurrent
PROPERTIES
    ImplementsCalls EveryCallEnds
CHECK_DEADLOCK FALSE
