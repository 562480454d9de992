SPECIFICATION Spec
CONSTANTS
    Catalog <- Limited
    MaxSubs = 3
    Requests = {r1, r2}
    Amounts = {2}
    Actuals = {1, 3}
    Base = "default"
    NoGroup = "none"
    Buyers = {b1, b2}
    Serial = FALSE
    Edits = {2}
    Masters = {m1, m2}
    Batch = 1
    MaxTime = 5
CHECK_DEADLOCK FALSE
SYMMETRY Symmetry
ACTION_CONSTRAINT OneSubject
INVARIANTS TypeOK PeriodBudget OversoldByOverlapOnly
