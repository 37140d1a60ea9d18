SPECIFICATION Spec
CONSTANTS
    Devices <- MCOnlyV4
    Regions <- MCOneRegion
    CutFrames = {0, 13, 60}
CHECK_DEADLOCK FALSE
INVARIANT FramesAreSource
