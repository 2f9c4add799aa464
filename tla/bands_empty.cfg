CONSTANTS
    MaxParts = 3
    LocalShapes <- AnyShapes
    BandShapes <- AnyShapes
    MaxAlign = 4
    Floor = 4
    Limit = 20
SPECIFICATION Spec
INVARIANT EmptyPartsTakeNoEntry
CHECK_DEADLOCK FALSE
