\* A step may be without votes and have its write fail.
SPECIFICATION FairSpec
CONSTANTS
    block = block
    Values = {block}
    Backlog = 1
    Unselected = {1}
    Failing = {1}
    MaxRound = 2
    MaxStep = 2
    MaxCrashes = 0
PROPERTY ShutdownAlwaysReturns
CHECK_DEADLOCK FALSE
