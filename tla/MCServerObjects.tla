---------------------------- MODULE MCServerObjects ----------------------------
(***************************************************************************)
(* Objects of every kind, two of some, in arrays and single.               *)
(***************************************************************************)
EXTENDS ServerObjects

CONSTANTS av, cav, ai, ai1, ai2, bi, ao, bo, bo1, bv, msv,
          MaxSize   \* how much the application sets up at a time

MCKindOf ==
    [o \in Objects |->
        CASE o = av -> "AnalogValue" [] o = cav -> "CommandableAnalogValue"
          [] o \in {ai, ai1, ai2} -> "AnalogInput" [] o = bi -> "BinaryInput"
          [] o = ao -> "AnalogOutput" [] o \in {bo, bo1} -> "BinaryOutput"
          [] o = bv -> "BinaryValue" [] o = msv -> "MultiStateValue"]
MCNumberOf == [o \in Objects |-> IF o = ai2 THEN 2 ELSE 1]
MCMaxStored == [AnalogInput |-> 1, BinaryInput |-> 1, BinaryOutput |-> 0]

Registration(type, n, p) == [name |-> [type |-> type, number |-> n], property |-> p]
MCRegistrationSets ==
    {<<>>,
     <<Registration("Device", 1, "Location"), Registration("AnalogValue", 1, "PriorityArray")>>,
     <<Registration("AnalogInput", 2, "Reliability"), Registration("BinaryOutput", 1, "OutOfService")>>}

Request(type, p, index, priority, value) ==
    [name |-> [type |-> type, number |-> 1], property |-> p, index |-> index,
     priority |-> priority, value |-> value]
MCWriteRequests ==
    {Request("AnalogValue", "PresentValue", NoIndex, NoPriority, Value("Real", 1)),
     Request("AnalogValue", "PresentValue", NoIndex, 3, Value("Real", 2)),
     Request("AnalogValue", "PresentValue", NoIndex, 3, Null),
     Request("AnalogValue", "PresentValue", NoIndex, 3, Value("Enumerated", 1)),
     Request("AnalogValue", "PresentValue", NoIndex, 17, Value("Real", 1)),
     Request("BinaryOutput", "PresentValue", NoIndex, 8, Value("Enumerated", 1)),
     Request("BinaryOutput", "PresentValue", 8, 8, Value("Enumerated", 1)),
     Request("BinaryOutput", "OutOfService", NoIndex, NoPriority, Value("Boolean", TRUE)),
     Request("BinaryValue", "OutOfService", NoIndex, 8, Value("Boolean", TRUE)),
     Request("AnalogOutput", "PresentValue", NoIndex, 0, Null),
     Request("AnalogOutput", "PresentValue", NoIndex, NoPriority, Value("Real", 1)),
     Request("BinaryValue", "PriorityArray", NoIndex, NoPriority, Null)}

\* Bounds the run: what is set up at a time.
Size ==
    ObjectCount - 1 + (IF registered = <<>> THEN 0 ELSE 1) + (IF running THEN 1 ELSE 0)
    + Cardinality({o \in Single : stored[o] # <<>>})
    + Cardinality({o \in Single : status[o] # "Ok"})
    + Cardinality({o \in Single : number[o] # NumberOf[o]})
    + Cardinality({o \in {cav, ao, bo, bo1, bv} : \E p \in {3, 8, 16} : slots[o][p] # Null})
    + Cardinality({o \in {cav, bo, bo1, bv, msv} : outOfService[o] \/ ~valid[o]})
BoundedSpec == Init /\ [][Next /\ IF UNCHANGED vars THEN TRUE ELSE (Size <= MaxSize)']_vars
================================================================================
