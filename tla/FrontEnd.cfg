\* The playground with three requests and five clicks, with and without streaming, or a
\* form of two settings with four entries.
SPECIFICATION MCSpec
CONSTANTS
    MaxRequests = 3
    MaxClicks = 5
    Streaming = {TRUE, FALSE}
    Keys = {k1, k2}
    Optional = {k2}
    Values = {v0, v1}
    Empty = empty
    Default = v0
    MaxEdits = 4
    MaxFocus = 1
INVARIANTS OwnAnswers UnsettledStops BaselineWasStored
PROPERTIES ErrorsStay SubmittedIsSaved
CHECK_DEADLOCK FALSE
