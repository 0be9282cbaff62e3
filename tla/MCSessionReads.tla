---------------------------- MODULE MCSessionReads ----------------------------
(***************************************************************************)
(* An instance of SessionReads for TLC: a device with an object of each of  *)
(* two types, whose list has at most two entries.                           *)
(***************************************************************************)
EXTENDS SessionReads

CONSTANTS a, b, device

pv == "presentValue"

listRequests == {ListEntry(device, "objectList", i) : i \in 0..MaxCount}
propertyListRequests == {ListEntry(o, "propertyList", i) : o \in Objects, i \in 0..MaxCount}

MCRequests == listRequests \cup propertyListRequests
                  \cup {Property(o, p) : o \in Objects, p \in ToSet(PropertyOrder)}

v1 == Typed("Real", 1)
v2 == Typed("Real", 2)
malformed == Typed("Unsigned", 9)

MCValues ==
    {Typed("Unsigned", n) : n \in 0..(MaxCount + 1)} \cup {Typed("ObjectIdentifier", o) : o \in Objects}
        \cup {v1, v2, malformed, NoText, Typed("Enumerated", pv)}

MCStatuses == {"Ack", "UnsupportedProperty", "Timeout", "Error", "Reject", "Abort", "DecodeError",
               "EmptyValue", "UnsupportedDatatype", "ArrayIndexNotSupported", "SendFailed",
               "Busy", "Skipped"}

\* Counts up to one more than the application wants; entries of both types and
\* malformed ones; present values that change.
MCValueOf ==
    [r \in MCRequests |->
        IF r.property = "objectList" /\ r.index = 0 THEN {Typed("Unsigned", n) : n \in 0..(MaxCount)}
        ELSE IF r.property = "objectList" THEN {Typed("ObjectIdentifier", o) : o \in Objects} \cup {malformed}
        ELSE IF r.property = "propertyList" /\ r.index = 0 THEN {Typed("Unsigned", n) : n \in {1, 3}}
        ELSE IF r.property = "propertyList" THEN {Typed("Enumerated", pv)}
        ELSE IF r.object = a /\ r.property = pv THEN {v1, v2} ELSE {v1}]

MCTracked == {Property(a, pv)}
MCJob == Property(a, pv)
MCWanted == <<pv>>

=============================================================================
