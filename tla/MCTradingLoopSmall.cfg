CONSTANTS
    MaxEvents = 6
    PosLimit = 1
    RingSlots = 1
    WireFrames = 1
    MayFail = FALSE
SPECIFICATION Spec
INVARIANTS
    FlowControl
    EveryOrderAccountedFor
    OnlyDeadlock
    NoRequestSleeps
    NoReportSleeps
CHECK_DEADLOCK FALSE
