SPECIFICATION Spec
CONSTANTS
    r1 = r1
    r2 = r2
    e1 = e1
    e2 = e2
    Requests <- MCRequests
    Bodies <- AllBodies
    Edits <- NoEdits
    MaxConcurrent = 2
    MaxDeaths = 0
    FineClock = FALSE
    QuietBoot = FALSE
INVARIANT SectionsSurvive
