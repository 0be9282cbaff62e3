SPECIFICATION BoundedSpec
CONSTANTS
    av = av
    cav = cav
    ai = ai
    ai1 = ai1
    ai2 = ai2
    bi = bi
    ao = ao
    bo = bo
    bo1 = bo1
    bv = bv
    msv = msv
    Objects = {av, cav, ai, ai1, ai2, bi, ao, bo, bo1, bv, msv}
    KindOf <- MCKindOf
    Single = {ai1, ai2, bo1}
    NumberOf <- MCNumberOf
    Instances = {1, 2}
    SlotCount = 16
    MaxAdded = 2
    MaxStored <- MCMaxStored
    MaxArray = 2
    RegistrationSets <- MCRegistrationSets
    Properties = {"Description", "Resolution", "Reliability"}
    WriteRequests <- MCWriteRequests
    MaxSize = 3
INVARIANTS
    DescribesItself
PROPERTIES
    OnlyRenamingMakesTwins
    WritesShow
CHECK_DEADLOCK FALSE
