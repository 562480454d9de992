\* Every kind of task, with two loops.
SPECIFICATION LiveSpec
CONSTANTS
    p1 = p1
    p2 = p2
    u1 = u1
    Pollers <- MCPollers
    Fetchers <- MCFetchers
    Kinds = {"video", "realtime", "suno"}
    Quota = 2
    Actuals = {1, 3}
    TaskTimeout = TRUE
    ChannelMayGo = TRUE
    Garbled = TRUE
    MaxFetches = 2
    MaxFaults = 2
INVARIANTS  VideoOutcomeIsPaid
PROPERTIES OutcomeIsFinal TaskEnds
ACTION_CONSTRAINT Bounded
CHECK_DEADLOCK FALSE
