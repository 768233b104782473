SPECIFICATION FairSpec
CONSTANTS
    Cameras <- OneCamera
    Capacity = 4
    Watermark = 3
    Window = 2
    MaxStart = 4
    MaxOther = 3
    MaxSteps = 0
    MaxFaults = 0
PROPERTIES
    PressureIsRelieved
