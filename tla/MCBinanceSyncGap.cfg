CONSTANTS
    p1 = p1
    p2 = p2
    Levels <- MCLevels
    Sizes = {0, 1}
    Clients = {"md"}
    Flaws = {"none"}
    HasPu = FALSE
    MayFail = FALSE
    MaxId = 2
    MaxWire = 2
    UpdateLimit = 2
    StaleLimit = 1
SPECIFICATION Spec
PROPERTIES
    GapForcesResnapshot
