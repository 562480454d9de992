\* Three requests race for a wallet, a subscription and a token that cannot hold them
\* all; the trust bypass is on, but two of the requests must hold (tasks).
SPECIFICATION Spec
CONSTANTS
    s1 = s1
    s2 = s2
    s3 = s3
    Sessions <- MCSessions3
    Playground <- NoSessions
    Forced <- MCForced
    Estimates = {2}
    Prices = {2, 3}
    Targets = {}
    InitialWallet = 3
    InitialToken = 4
    SubTotal = 1
    TokenUnlimited = FALSE
    TrustQuota = 1
    StaleQuotas = {6}
    QuotaPerUnit = 1
    TopUps = {1}
    MaxTopUps = 1
    MaxFaults = 0
INVARIANTS OverspendStopsTokens OverdraftOnlyBySettlement

SYMMETRY Symmetry
CHECK_DEADLOCK FALSE
