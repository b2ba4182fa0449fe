CONSTANTS
    acct = acct
    agreement = agreement
    catchup = catchup
    certvoters = certvoters
    sink = sink
    none = none
    Addr = {acct}
    Agreed <- MCAgreed
    Writers = {agreement}
    Validators = {}
    Offered <- MCOffered
    Payees = {certvoters}
    CertOf <- SomeVoters
    MaxBalLookback = 1
    MaxTxnLife = 2
    Waits = {2}
    MaxRound = 4
    MaxCrashes = 1
SPECIFICATION Spec
CHECK_DEADLOCK FALSE
PROPERTY ReplayReconstructs
