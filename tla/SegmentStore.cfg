SPECIFICATION FairSpec
CONSTANTS
    Cameras <- TwoCameras
    Capacity = 4
    Watermark = 2
    Window = 2
    MaxStart = 2
    MaxOther = 1
    MaxSteps = 1
    MaxFaults = 1
INVARIANTS
    TypeOK
    OpenNeverIndexed
    KnownFilesAreIndexed
    GhostRowsNeedFaults
PROPERTIES
    EvictsOldestFirst
    EvictsOnlyAboveWatermark
    ClosedIsIndexed
    ReliefUnlessFull
