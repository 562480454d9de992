\* Rounds, flushes and teardown; the wallet may run short of a round.
SPECIFICATION LiveSpec
CONSTANTS
    Usages = {0, 3}
    LocalTokens = {0, 1}
    FixedPrice = 0
    Hold = 1
    InitialWallet = 5
    Capacity = 2
    MaxEvents = 3
    MaxFaults = 1
INVARIANTS SendersNeverBlock RoundsCoverUsage UsageIsSettled
PROPERTY SessionTearsDown
CHECK_DEADLOCK FALSE
