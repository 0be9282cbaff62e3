SPECIFICATION FairSpec
CONSTANTS
    a = a
    b = b
    device = device
    MaxCached = 2
    Requests <- MCRequests
    Values <- MCValues
    NoValue = NoValue
    Statuses <- MCStatuses
    Free = Free
    Tracked <- MCTracked
    Objects = {a, b}
    Device = device
    Filter = {a}
    MaxEntries = 2
    Asked = {"objectName", "presentValue"}
    Capacity = 1
    PropertyCapacity = 2
    MaxCount = 3
    Failures = {"empty", "error"}
    ValueOf <- MCValueOf
    JobRequest <- MCJob
    PollRequest <- MCJob
    Wanted <- MCWanted
    MaxOperations = 3
INVARIANTS
    TypeOK
    OneOperation
    SummaryIsTrue
    ValueIsLastAcked
PROPERTIES
    ScanEnds
CHECK_DEADLOCK FALSE
