\* Two goroutines; three changes, a failing call and a restart among them.
SPECIFICATION LiveSpec
CONSTANTS
    Procs = {p1, p2}
    Start = 1
    MaxOps = 3
    MaxFaults = 1
    MaxCrashes = 1
INVARIANTS EveryChangeKept CountedOnce
PROPERTIES CacheConverges
CHECK_DEADLOCK FALSE
