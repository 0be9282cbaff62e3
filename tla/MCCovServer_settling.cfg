SPECIFICATION HFairSpec
CONSTANTS
    p1 = p1
    p2 = p2
    o1 = o1
    MaxCovSubscriptions = 2
    Keys <- TableKeys
    Requests <- SettlingRequests
    Peers = {p1, p2}
    Objects = {o1}
    RealObjects = {o1}
    Values = {0, 1, 2}
    Unset = Unset
    Blank = Blank
    HasClock = FALSE
    TimeMod = 6
    InvokeMod = 4
    CounterMod = 4
    TicksPerSecond = 2
    ApduTimeout = 1
    NumberOfApduRetries = 1
    MaxPollGap = 1
    Budget = 5
    SendMayFail = FALSE
    StartTimes = {0}
PROPERTIES
    NotifiesOnlyChanges
    EventuallyTold
CHECK_DEADLOCK FALSE
