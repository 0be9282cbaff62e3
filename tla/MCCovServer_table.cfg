SPECIFICATION HSpec
CONSTANTS
    p1 = p1
    p2 = p2
    o1 = o1
    MaxCovSubscriptions = 2
    Keys <- TableKeys
    Requests <- TableRequests
    Peers = {p1, p2}
    Objects = {o1}
    RealObjects = {o1}
    Values = {0, 2}
    Unset = Unset
    Blank = Blank
    HasClock = TRUE
    TimeMod = 10
    InvokeMod = 4
    CounterMod = 4
    TicksPerSecond = 2
    ApduTimeout = 1
    NumberOfApduRetries = 1
    MaxPollGap = 1
    Budget = 4
    SendMayFail = TRUE
    StartTimes = {8}
INVARIANTS
    TypeOK
    UniqueKeys
    SnapshotIsLastTold
    AttemptsBounded
    BackoffIsOwn
PROPERTIES
    NoEarlyExpiry
    NoNotificationAfterExpiry
CHECK_DEADLOCK FALSE
