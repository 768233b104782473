SPECIFICATION Spec
CONSTANTS
    r1 = r1
    r2 = r2
    Requests <- MCRequests
    Windows <- MCWindows
    Second = 2
    MaxSegment = 4
INVARIANT EveryClipIsStandalone
CHECK_DEADLOCK FALSE
