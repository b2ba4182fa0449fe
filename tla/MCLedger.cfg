CONSTANTS
    acct = acct
    agreement = agreement
    catchup = catchup
    certvoters = certvoters
    sink = sink
    none = none
    Addr = {acct}
    Agreed <- MCAgreed
    Writers = {agreement, catchup}
    Validators = {catchup}
    Offered <- MCOffered
    Payees = {certvoters}
    CertOf <- NoVoters
    MaxBalLookback = 1
    MaxTxnLife = 2
    Waits = {2}
    MaxRound = 4
    MaxCrashes = 1
SPECIFICATION FairSpec
CHECK_DEADLOCK FALSE
INVARIANT TypeOK
INVARIANT LookupExact
INVARIANT DatabaseExact
INVARIANT Recoverable
INVARIANT LookbackKept
INVARIANT CountsExact
PROPERTY ImplementsBlockLog
PROPERTY WaitEnds
PROPERTY LookupReturns
