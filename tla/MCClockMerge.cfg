SPECIFICATION Spec
CONSTANTS
    Text <- MCText
    StaticDesigns <- MCStaticDesigns
    PartialDesigns <- MCPartialDesigns
    ClockNets <- MCClockNets
CHECK_DEADLOCK FALSE
INVARIANTS
    TypeOK
    PartialDesignKept
    NetsAreWhole
    ClockTreesArrive
    PipsOnce
    FalseIsHonest
    CutIsNotMerged
PROPERTIES
    ReadsToTheEnd
