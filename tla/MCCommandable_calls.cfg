SPECIFICATION HSpec
CONSTANTS
    SlotCount = 3
    Values = {0, 1}
    Null = Null
    Attached <- Everything
    Reentrant <- GuardedOnly
INVARIANTS
    TypeOK
    CallbacksSeeCommitted
    AckMeansWritten
    GuardMatchesCalls
    ReportsChain
    NothingUnreported
    OutputFollows
