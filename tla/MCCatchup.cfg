CONSTANTS
    Tip = 3
    ParallelBlocks = 2
    SeedLookback = 1
    MaxBalLookback = 1
    RetryLimit = 2
    Notice = 1
    SwitchOn = 3
    CatchpointRound = 1
    MaxStarts = 2
SPECIFICATION FairSpec
CHECK_DEADLOCK FALSE
INVARIANT TypeOK
INVARIANT LookbackInLedger
INVARIANT PipelineBounded
INVARIANT SuspendedStillSyncing
PROPERTY CatchesUp
PROPERTY StopReturns
PROPERTY UnsupportedStops
