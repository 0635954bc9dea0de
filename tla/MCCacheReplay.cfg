SPECIFICATION ReplaySpec
CONSTANTS
    Flows = {0}
    InitialSerial <- StartsAtZero
    Window = 1
    MaxPacketBytes = 65
    CreditLimit = 128
    GlobalLimit = 0
    short = short
    long = long
    Payloads = {short, long}
    Length <- LengthOf
    Fields = {"generation", "length"}
    NoToken = NoToken
    NotHalted = NotHalted
    Serials = {0, 1, 2}
    MaxGeneration = 3
    Sets = 2
    Ways = 1
    LineCells = 5
    Admission <- AnyWay
    Admissions <- OneAdmission
    Addresses <- ReplayAddresses
    Values <- Words
    NoLine = NoLine
    NoData = NoData
    Never = Never
    BackgroundBase = 4096
    BackgroundLines = 1
    Delays <- NowOrLater
INVARIANTS
    NeverFails PublishedBytesHold
CHECK_DEADLOCK FALSE
