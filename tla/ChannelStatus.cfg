\* Two processes, a channel of one or of two keys.
SPECIFICATION LiveSpec
CONSTANTS
    Nodes = {n1, n2}
    Keys = {k1, k2}
    k1 = k1
    k2 = k2
    InitialKeys <- TwoKeys
    Admin = admin
    NoKey = nokey
    Cached = {TRUE, FALSE}
    Multi = {TRUE, FALSE}
    MaxEvents = 2
    MaxFaults = 1
INVARIANTS OnlyFailedKeysDisabled DisabledLeavesLists AbilitiesFollow
PROPERTIES CachesConverge
CHECK_DEADLOCK FALSE
