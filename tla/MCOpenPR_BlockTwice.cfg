SPECIFICATION Spec
CONSTANTS
    RowCount = 13
    ColCount = 10
    TilesPerRegion = 3
    TileType <- MCTypesV5
    SitesOf <- MCSitesV5
    Family = "Virtex5"
    NumMacros = 1
    StrayTiles <- MCStray
    AreaGroups <- MCJustOne
    Commands <- MCNoSites
    MaxRuns = 2
    MaxEdits = 0
CHECK_DEADLOCK FALSE
PROPERTIES
    NetCanBeBlocked
