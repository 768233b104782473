SPECIFICATION FairSpec
CONSTANTS
    r1 = r1
    r2 = r2
    e1 = e1
    e2 = e2
    Requests <- MCRequests
    Bodies <- AllBodies
    Edits <- NoEdits
    MaxConcurrent = 1
    MaxDeaths = 0
    FineClock = TRUE
    QuietBoot = FALSE
PROPERTY WatcherConverges
