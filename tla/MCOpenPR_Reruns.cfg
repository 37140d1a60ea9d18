SPECIFICATION Spec
CONSTANTS
    RowCount = 13
    ColCount = 10
    TilesPerRegion = 3
    TileType <- MCTypesV5
    SitesOf <- MCSitesV5
    Family = "Virtex5"
    NumMacros = 2
    StrayTiles <- MCStray
    AreaGroups <- MCEdgeAreas
    Commands <- MCNoSites
    MaxRuns = 3
    MaxEdits = 1
CHECK_DEADLOCK FALSE
INVARIANTS
    RerunsAgree
    FlowInvariant
PROPERTIES
    LocksCoverMacros
