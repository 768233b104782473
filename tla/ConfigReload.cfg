SPECIFICATION FairSpec
CONSTANTS
    r1 = r1
    r2 = r2
    e1 = e1
    e2 = e2
    Requests <- MCRequests
    Bodies <- SomeField
    Edits <- MCEdits
    MaxConcurrent = 2
    MaxDeaths = 1
    FineClock = TRUE
    QuietBoot = TRUE
INVARIANT TypeOK
INVARIANT LossNeedsCrossing
PROPERTY WatcherConverges
