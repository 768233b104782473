SPECIFICATION RFairSpec
CONSTANTS
    Schedule <- MCSchedule
    StableAfter = 2
    MaxFailures = 3
INVARIANT TypeOK
INVARIANT AlwaysSupervised
INVARIANT NothingIsOrphaned
INVARIANT StopIsFinal
PROPERTY BackoffIsEarned
PROPERTY PreviewRecovers
PROPERTY ShutsDown
