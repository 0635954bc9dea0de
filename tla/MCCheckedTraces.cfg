SPECIFICATION TSpec
CONSTANTS
    Flows = {0}
    InitialSerial <- StartsAtZero
    Window = 3
    MaxPacketBytes = 65
    CreditLimit = 192
    GlobalLimit = 192
    short = short
    other = other
    long = long
    Payloads = {short, other, long}
    Length <- LengthOf
    Fields = {"length"}
    NoToken = NoToken
    NotHalted = NotHalted
    Serials = {0, 1, 2, 3}
    MaxGeneration = 2
    FieldValues = {64, 65}
    NoPayload = NoPayload
PROPERTIES
    AcceptedTracesAreOrdered
CHECK_DEADLOCK FALSE
