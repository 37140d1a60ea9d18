SPECIFICATION Spec
CONSTANTS
    RowCount = 9
    ColCount = 10
    TilesPerRegion = 3
    TileType <- MCTypes
    SitesOf <- MCSites
    Family = "Virtex5"
    NumMacros = 1
    StrayTiles <- MCStray
    Corners <- MCCorners
    MaxInvocations = 2
CHECK_DEADLOCK FALSE
INVARIANTS
    TypeOK
    CornersAreKept
    RequestIsCovered
    MaskIsTheRequest
    UcfIsTheRequest
