CONSTANTS
    n1 = n1
    n2 = n2
    a = a
    b = b
    bottom = bottom
    Honest = {n1, n2}
    Values = {a}
    OriginalPeriod <- LaterPeriod
    SoftQuorums <- First
    CertQuorums <- Either
    NextQuorums <- Both
    MaxPeriod = 4
    MaxStep = 3
    Crashing = {}
    Forgetting = {}
    Recovering = {}
    Timely = {}
    StagedKept = FALSE
    DiskKept = TRUE
SPECIFICATION FairSpec
CHECK_DEADLOCK FALSE
PROPERTY CertificateEndsRound
