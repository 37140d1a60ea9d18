SPECIFICATION Spec
CONSTANTS
    Devices <- MCDevices
    Regions <- MCRegions
    CutFrames = {0, 13, 60}
CHECK_DEADLOCK FALSE
CONSTRAINT MCMapOnly
INVARIANTS
    TypeOK
    MapIsDeviceOrder
    DeviceGetsRegion
    FramesAreSourceOnV5
    ScanKeepsBitmap
    RunsAreApart

