\* One crash at any moment, a step without votes, a step whose write fails.
SPECIFICATION FairSpec
CONSTANTS
    block = block
    Values = {block}
    Backlog = 1
    Unselected = {1}
    Failing = {2}
    MaxRound = 2
    MaxStep = 2
    MaxCrashes = 1
INVARIANT TypeOK
INVARIANT PlayerKnowsVotes
INVARIANT DiskWithinLedger
PROPERTY VotesInOrder
PROPERTY ActionEnds
PROPERTY ShutdownReturns
CHECK_DEADLOCK FALSE
