CONSTANTS
    p1 = p1
    p2 = p2
    Levels <- MCLevels
    Sizes = {0, 1}
    Clients = {"md", "md2", "md3", "md4", "md5", "rust"}
    Flaws = {"none", "partial", "number"}
    HasPu = TRUE
    MayFail = TRUE
    MaxId = 3
    MaxWire = 2
    UpdateLimit = 3
    StaleLimit = 1
SPECIFICATION Spec
SYMMETRY MCSymmetry
INVARIANTS
    TypeOK
    BookIsExact
    NoFalseGaps
PROPERTIES
    ErrorsEndTheConnection
