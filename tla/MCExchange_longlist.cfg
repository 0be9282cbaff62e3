SPECIFICATION Spec
CONSTANTS
    MaxText = 512
    Device <- TheDevice
    Output <- TheOutput
    Contents <- LongContents
    Changes <- TheChanges
    Requests <- ListRequests
    ClientBuffer = 512
    ServerBuffer = 1476
    QueueSize = 1
    MaxRequests = 2
    MaxNotices = 0
    MaxInFlight = 2
INVARIANTS
    WholeListIsWhole
CHECK_DEADLOCK FALSE
