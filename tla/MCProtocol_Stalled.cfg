SPECIFICATION StalledFlowSpec
CONSTANTS
    NumFlows = 2
    Window = 2
    SequenceSpace = 8
    Sequences = {0, 1, 2}
    Epochs = {0}
    InitialSerial <- StartsAtZero
    MaxPacketBytes = 65
    PerFlowCredit = 128
    GlobalCredit = 0
    short = short
    long = long
    Payloads = {short}
    NoPayload = NoPayload
    Length <- LengthOf
    Fields = {"length"}
    Stale = Stale
PROPERTIES
    StalledFlowIsolated
CHECK_DEADLOCK FALSE
