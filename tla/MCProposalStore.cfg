\* Two proposers, two periods: every order of proposals and thresholds.
SPECIFICATION Spec
CONSTANTS
    a = a
    b = b
    bottom = bottom
    Values = {a, b}
    Senders = {1, 2}
    OriginalPeriod <- MCOriginalPeriod
    OriginalProposer <- TwoProposers
    Own = {b}
    MaxPeriod = 1
INVARIANT TypeOK
INVARIANT OnePipelined
INVARIANT RelevantIsReported
PROPERTY PinnedBlockKept
PROPERTY StagedStaysRelevant
CHECK_DEADLOCK FALSE
