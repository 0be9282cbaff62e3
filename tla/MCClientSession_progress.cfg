SPECIFICATION AnsweredSpec
CONSTANTS
    v1 = v1
    v2 = v2
    NumHandles = 1
    Options <- ProgressOptions
    Values = {v1}
    NoValue = NoValue
    TimeMod = 8
    Second = 1
    MaxLate = 1
    MaxCalls = 2
    CallbacksPoll = FALSE
    PollsStopped = FALSE
    HasJobs = FALSE
    Changes = FALSE
    PollsArray = FALSE
PROPERTIES
    CovReturns
