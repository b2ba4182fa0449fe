CONSTANTS
    n1 = n1
    n2 = n2
    a = a
    b = b
    bottom = bottom
    Honest = {n1, n2}
    Values = {a, b}
    OriginalPeriod <- MCOriginalPeriod
    SoftQuorums <- First
    CertQuorums <- Either
    NextQuorums <- Both
    MaxPeriod = 1
    MaxStep = 3
    Crashing = {n1}
    Forgetting = {n1}
    Recovering = {}
    Timely = {}
    StagedKept = TRUE
    DiskKept = TRUE
SPECIFICATION Spec
VIEW View
INVARIANT TypeOK
INVARIANT CertificatesAgree
INVARIANT OneVotePerStep
INVARIANT CertVoterHasBlock
INVARIANT RecoveryKeepsCertified
PROPERTY ImplementsOutcome
CHECK_DEADLOCK FALSE
