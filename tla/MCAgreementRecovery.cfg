CONSTANTS
    n1 = n1
    n2 = n2
    a = a
    b = b
    bottom = bottom
    Honest = {n1, n2}
    Values = {a, b}
    OriginalPeriod <- MCOriginalPeriod
    SoftQuorums <- First
    CertQuorums <- Both
    NextQuorums <- Both
    MaxPeriod = 1
    MaxStep = 3
    Crashing = {}
    Forgetting = {n2}
    Recovering = {n1, n2}
    Timely = {n2}
    StagedKept = FALSE
    DiskKept = TRUE
SPECIFICATION Spec
VIEW View
CHECK_DEADLOCK FALSE
INVARIANT CertificatesAgree
