SPECIFICATION Spec
CONSTANTS
    Senders = {1, 2, 3, 4}
    Values = {a, b, c}
    Weight <- MCWeight
    Threshold = 4
INVARIANTS
    TypeOK
    AtMostOneThreshold
    CountsMatchVotes
    ThresholdIffQuorum
    BundleVerifies
CHECK_DEADLOCK FALSE
