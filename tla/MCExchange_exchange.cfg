SPECIFICATION BoundedSpec
CONSTANTS
    MaxText = 512
    Device <- TheDevice
    Output <- TheOutput
    Contents <- TheContents
    Changes <- TheChanges
    Requests <- AllRequests
    ClientBuffer = 512
    ServerBuffer = 1476
    QueueSize = 1
    MaxRequests = 2
    MaxNotices = 1
    MaxInFlight = 2
INVARIANTS
    AnswersAreMeant
PROPERTIES
    HeardAsSaid
    CutIsUnheard
CHECK_DEADLOCK FALSE
