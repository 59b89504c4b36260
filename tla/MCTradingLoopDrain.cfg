CONSTANTS
    MaxEvents = 4
    PosLimit = 1
    RingSlots = 8
    WireFrames = 8
    MayFail = FALSE
SPECIFICATION Spec
PROPERTIES
    DecidesOnCurrentPosition
