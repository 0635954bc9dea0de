SPECIFICATION RSpec
CONSTANTS
    Sets = 2
    Ways = 2
    Addresses = {0, 2, 4}
    LineCells = 1
    Values = {0, 1}
    Admissions <- AnyWays
    NoLine = NoLine
    NoData = NoData
INVARIANTS
    OneCopy EvictedAreOlder
PROPERTIES
    ImplementsMemory
