SPECIFICATION Spec
CONSTANTS
    RowCount = 13
    ColCount = 10
    TilesPerRegion = 3
    TileType <- MCTypesV4
    SitesOf <- MCSitesV4
    Family = "Virtex4"
    NumMacros = 2
    StrayTiles <- MCStray
    AreaGroups <- MCJustOne
    Commands <- MCNoSites
    MaxRuns = 2
    MaxEdits = 0
CHECK_DEADLOCK FALSE
PROPERTIES
    LocksCoverMacros
