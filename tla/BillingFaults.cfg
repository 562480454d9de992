\* Two requests, one of them of the playground, with one error or crash anywhere; one request
\* alone meets enough errors for every attempt of its refund to fail.
SPECIFICATION FairSpec
CONSTANTS
    s1 = s1
    s2 = s2
    s3 = s3
    Sessions <- MCSessions2
    Playground <- MCPlayground
    Forced <- NoSessions
    Estimates = {0, 2}
    Prices = {2, 4}
    Targets = {3}
    InitialWallet = 3
    InitialToken = 5
    SubTotal = 4
    TokenUnlimited = FALSE
    TrustQuota = 0
    StaleQuotas = {}
    QuotaPerUnit = 1
    TopUps = {1}
    MaxTopUps = 0
    MaxFaults = 4
INVARIANTS TypeOK ChargedExactly ReturnedInFull SubscriptionBalances NoFreeQuota
PROPERTIES HoldIsResolved SettledIsFinal ImplementsEscrow
ACTION_CONSTRAINT FaultsMeetOne
CHECK_DEADLOCK FALSE
