SPECIFICATION CSpec
CONSTANTS
    NumFlows = 1
    Window = 3
    SequenceSpace = 8
    Sequences = {0, 1, 2, 7}
    Epochs = {0, 1}
    InitialSerial <- StartsAtWrap
    MaxPacketBytes = 65
    PerFlowCredit = 192
    GlobalCredit = 192
    short = short
    long = long
    Payloads = {short, long}
    NoPayload = NoPayload
    Length <- LengthOf
    Fields = {"generation", "length"}
    Stale = Stale
    FieldOrder <- KeptFields
    NoToken = NoToken
    NotHalted = NotHalted
INVARIANTS
    NeverRejected ReplicaAgrees
CHECK_DEADLOCK FALSE
