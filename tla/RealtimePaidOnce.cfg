\* A round is charged when it ends and again by the settlement.
SPECIFICATION Spec
CONSTANTS
    Usages = {3}
    LocalTokens = {1}
    FixedPrice = 0
    Hold = 1
    InitialWallet = 8
    Capacity = 2
    MaxEvents = 1
    MaxFaults = 0
INVARIANT PaidOnce
CHECK_DEADLOCK FALSE
