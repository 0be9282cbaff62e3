SPECIFICATION Spec
CONSTANTS
    p = p
    q = q
    x = x
    y = y
    present = present
    other = other
    Sessions <- OneSession
    Subscriptions <- OneSubscription
    Sources <- OneForeign
    Confirmed <- OneForeign
    Services = {"ReadProperty","SubscribeCov"}
    QueueSize = 2
    InvokeIds = 2
    MaxValue = 2
    MaxRequests = 3
    MaxInbox = 1
    Ordered = FALSE
    AcksSent = FALSE
    Discovers = TRUE
INVARIANTS
    TypeOK
PROPERTIES
    AnswersAreOwn
    Delivers
CHECK_DEADLOCK FALSE
