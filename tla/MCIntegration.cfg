SPECIFICATION FairISpec
CONSTANTS
    NumFlows = 2
    Window = 2
    SequenceSpace = 8
    Sequences = {7, 0, 1}
    Epochs = {0, 1}
    InitialSerial <- StartsAtWrap
    MaxPacketBytes = 65
    PerFlowCredit = 256
    GlobalCredit = 256
    Payloads <- AllPayloads
    NoPayload = NoPayload
    Length <- LengthOf
    Fields = {"length"}
    Stale = Stale
    Count = 3
    PayloadOf <- EachItsOwn
    Modes = {"adversarial", "corrupt-payload", "early-ready"}
    PostPushes = {FALSE, TRUE}
    Corrupt = Corrupt
    NoWrite = NoWrite
INVARIANTS
    NeverRaises
PROPERTIES
    GuestAlone Ends
