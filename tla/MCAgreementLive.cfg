CONSTANTS
    n1 = n1
    n2 = n2
    a = a
    b = b
    bottom = bottom
    Honest = {n1, n2}
    Values = {a}
    OriginalPeriod <- OneValuePeriod
    SoftQuorums <- First
    CertQuorums <- Either
    NextQuorums <- Both
    MaxPeriod = 1
    MaxStep = 4
    Crashing = {}
    Forgetting = {n2}
    Recovering = {n1}
    Timely = {}
    StagedKept = FALSE
    DiskKept = TRUE
SPECIFICATION FairSpec
VIEW View
CHECK_DEADLOCK FALSE
PROPERTY CertificateEndsRound
PROPERTY CertBindsNext
