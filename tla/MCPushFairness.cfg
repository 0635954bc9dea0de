SPECIFICATION FSpec
CONSTANTS
    NumFlows = 3
    Window = 2
    SequenceSpace = 8
    Sequences = {0, 1, 2}
    Epochs = {0}
    InitialSerial <- StartsAtZero
    MaxPacketBytes = 64
    PerFlowCredit = 128
    GlobalCredit = 128
    short = short
    Payloads = {short}
    NoPayload = NoPayload
    Length <- LengthOf
    Fields = {"length"}
    Stale = Stale
INVARIANTS
    BoundedBypass
CHECK_DEADLOCK FALSE
