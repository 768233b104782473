SPECIFICATION FSpec
CONSTANTS
    Events <- MCEvents
    MaxFiles = 3
    MaxFragment = 4
    MaxRotations = 1
    MaxFaults = 1
    MaxClip = 1
    MaxWorkerFaults = 1
INVARIANTS
    TypeOK
    ClipsAreWhole
    ClipsAreContiguous
    LeftoversNeedFaults
    NothingGivenUpTooEarly
    ServedAsAdvertised
CHECK_DEADLOCK FALSE
