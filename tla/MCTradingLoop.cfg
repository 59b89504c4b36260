CONSTANTS
    MaxEvents = 5
    PosLimit = 1
    RingSlots = 3
    WireFrames = 6
    MayFail = TRUE
SPECIFICATION FairSpec
INVARIANTS
    LoopInv
    ReportsInOrder
    PositionAlternates
    SendsNeverWait
PROPERTIES
    Terminates
