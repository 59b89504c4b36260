CONSTANTS
    Capacity = 4
    Items = {a, b}
    Blank = Blank
    NSources = 2
    Slots = 2
    PerRound <- MCPerRound
SPECIFICATION RingsSpec
INVARIANTS
    NoDataRace
    RingInv
    LoggingInv
    KnownLinesArePrinted
PROPERTIES
    ImplementsFifo
    AcceptedItemsAreServed
    EveryLogThreadEnds
