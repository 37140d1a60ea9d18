SPECIFICATION Spec
CONSTANTS
    NumTiles = 4
    WireCount <- MCWireCount
    Segment <- MCSegment
    Expand <- MCExpand
    Sources <- MCSources
    Masks <- MCMasks
    ClockRows <- MCClockRows
    Designs <- MCDesigns
CHECK_DEADLOCK FALSE
INVARIANTS
    TypeOK
    PassedAreBlocked
    OneDriver
    OnlyCrossings
    ReportIsHonest
    FileBlocks
    AgainAddsNothing
PROPERTIES
    BlocksBoundary
