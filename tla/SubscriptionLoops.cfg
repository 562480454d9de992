SPECIFICATION LiveSpec
CONSTANTS
    Catalog <- Mixed
    MaxSubs = 2
    Requests = {}
    Amounts = {1}
    Actuals = {1}
    Base = "default"
    NoGroup = "none"
    Buyers = {}
    Serial = TRUE
    Edits = {}
    Masters = {m1}
    Batch = 1
    MaxTime = 5
CHECK_DEADLOCK FALSE
INVARIANTS UpgradeHeld GroupRestored
PROPERTIES DueIsReset EndIsMarked
