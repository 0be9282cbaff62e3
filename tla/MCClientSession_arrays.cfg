SPECIFICATION ReadsSentSpec
CONSTANTS
    v1 = v1
    v2 = v2
    NumHandles = 2
    Options <- ArrayOptions
    Values = {v1}
    NoValue = NoValue
    TimeMod = 4
    Second = 1
    MaxLate = 0
    MaxCalls = 2
    CallbacksPoll = FALSE
    PollsStopped = FALSE
    HasJobs = FALSE
    Changes = FALSE
    PollsArray = TRUE
PROPERTIES
    RequestsEnd
    RefreshHappens
