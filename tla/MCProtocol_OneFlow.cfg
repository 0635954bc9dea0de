SPECIFICATION Spec
CONSTANTS
    NumFlows = 1
    Window = 3
    SequenceSpace = 8
    Sequences = {0, 1, 2, 3, 7}
    Epochs = {0, 1}
    InitialSerial <- StartsAtWrap
    MaxPacketBytes = 65
    PerFlowCredit = 192
    GlobalCredit = 0
    short = short
    long = long
    Payloads = {short, long}
    NoPayload = NoPayload
    Length <- LengthOf
    Fields = {"generation", "length"}
    Stale = Stale
INVARIANTS
    IndInv SlotsExclusive PublishedImage NoInternalFault
    ReadyMeansPrefixVisible HeldIntact
PROPERTIES
    HaltNeverSkips ImplementsOrderedDelivery
CHECK_DEADLOCK FALSE
