SPECIFICATION FairSpec
CONSTANTS
    NumFlows = 2
    Window = 2
    SequenceSpace = 8
    Sequences = {0, 1, 2}
    Epochs = {0}
    InitialSerial <- StartsAtZero
    MaxPacketBytes = 65
    PerFlowCredit = 128
    GlobalCredit = 128
    short = short
    long = long
    Payloads = {short, long}
    NoPayload = NoPayload
    Length <- LengthOf
    Fields = {"length"}
    Stale = Stale
INVARIANTS
    CreditConserved
PROPERTIES
    PrefixDelivered
CHECK_DEADLOCK FALSE
