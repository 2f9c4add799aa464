CONSTANTS
    MaxParts = 4
    LocalShapes <- AnyShapes
    BandShapes <- SizedShapes
    MaxAlign = 4
    Floor = 4
    Limit = 12
SPECIFICATION Spec
INVARIANTS
    TypeOK
    PartsKeepApart
    BandsHoldTheirOwn
    PartsAreAligned
CHECK_DEADLOCK FALSE
