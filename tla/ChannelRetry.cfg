\* Three groups, of no channel or of one or two priorities.
SPECIFICATION Spec
CONSTANTS
    Last = 3
    Retries = {0, 1, 2}
    Levels = {0, 1, 2}
    MaxChanges = 2
INVARIANTS EveryGroupTried TriesBounded BilledAsAsked
CHECK_DEADLOCK FALSE
