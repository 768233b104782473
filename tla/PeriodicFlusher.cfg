SPECIFICATION FairSpec
CONSTANTS
    Cameras <- MCCameras
    Intervals <- MCIntervals
    Steps <- MCSteps
    MaxSteps = 2
    MaxChanges = 2
    MaxFaults = 2
INVARIANTS
    TypeOK
    LeftoversNeedFaults
PROPERTIES
    RoundsAreSpaced
    FlushesKeepComing
