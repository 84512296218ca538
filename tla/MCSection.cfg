SPECIFICATION FairSpec
CONSTANTS
    WORLD_SECTION_WIDTH = 3
    WORLD_SECTION_HEIGHT = 2
    MaxTilesX = 24
    MaxTilesY = 4
    Tiles <- Corners
    NoData = NoData
    MaxEdits = 1
    MaxFaults = 2
INVARIANTS
    TypeOK
    CleanIsFresh
PROPERTIES
    GoodDataStays
    EveryEditIsCompressed
CHECK_DEADLOCK FALSE
