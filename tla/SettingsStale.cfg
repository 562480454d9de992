\* Two fields are saved, and the options read between their updates are kept.
SPECIFICATION Spec
CONSTANTS
    Keys = {k1, k2}
    Optional = {}
    Values = {v0, v1, v2}
    Empty = empty
    Default = v0
    MaxEdits = 4
    MaxFocus = 0
INVARIANT OptionsRefreshed
CHECK_DEADLOCK FALSE
