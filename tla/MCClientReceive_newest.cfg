SPECIFICATION FairSpec
CONSTANTS
    p = p
    q = q
    x = x
    y = y
    present = present
    other = other
    Sessions <- OneSession
    Subscriptions <- TwoSubscriptions
    Sources <- ForeignSources
    Confirmed <- ForeignSources
    Services = {"ReadProperty"}
    QueueSize = 1
    InvokeIds = 2
    MaxValue = 2
    MaxRequests = 1
    MaxInbox = 1
    Ordered = TRUE
    AcksSent = TRUE
    Discovers = FALSE
PROPERTIES
    NeverBackwards
    LastValueArrives
CHECK_DEADLOCK FALSE
