SPECIFICATION HSpec
CONSTANTS
    v1 = v1
    v2 = v2
    NumHandles = 1
    Options <- LeaseOptions
    Values = {v1,v2}
    NoValue = NoValue
    TimeMod = 16
    Second = 1
    MaxLate = 1
    MaxCalls = 2
    CallbacksPoll = FALSE
    PollsStopped = FALSE
    HasJobs = TRUE
    Changes = TRUE
    PollsArray = FALSE
INVARIANTS
    TypeOK
    OneOperation
    ApplicationKnows
    ActiveMeansGranted
PROPERTIES
    LateAnswersAreDropped
