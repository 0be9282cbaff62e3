----------------------------- MODULE SessionReads -----------------------------
(***************************************************************************)
(* What a BacnetDeviceSession reads beside its subscriptions: the object    *)
(* list scan and the property read, which are polled, and the operations    *)
(* that block.  All of them share the session's one request and its         *)
(* property cache.                                                          *)
(*                                                                         *)
(* A scan sends its next request from the poll that takes the answer to the *)
(* last one, and a request that cannot be sent is finished there and then;  *)
(* the steps of that call are actions of their own (waiting is "Sending"),  *)
(* and nothing else happens before it returns.  A blocking operation is one *)
(* action per read in the same way.  Times are left out: a request may time *)
(* out whenever it has not been answered.                                   *)
(***************************************************************************)
EXTENDS PropertyCache, Sequences, SequencesExt, FiniteSets

CONSTANTS
    Objects,        \* the objects of the device
    Device,         \* its Device object
    Filter,         \* those whose type options.objectTypes lists
    MaxEntries,     \* options.maxObjectListEntries
    Asked,          \* the properties the options ask for
    Capacity,       \* of the results of a scan or of readAllProperties(); 0 without a buffer
    PropertyCapacity, \* of the list of properties that readPropertyList() fills
    MaxCount,       \* bound on the length of the device's lists
    Failures,       \* the failed responses: reply kinds
    ValueOf,        \* what a property of an object may be
    JobRequest,     \* what the application reads with a property read job
    PollRequest,    \* what it polls with a subscription
    Wanted,         \* the properties it reads with readAllProperties()
    MaxOperations   \* bound on the operations the application begins

NoIndex == -1       \* kBacnetNoArrayIndex

PropertyOrder == <<"objectName", "description", "presentValue">>

ListEntry(object, list, index) == [object |-> object, property |-> list, index |-> index]
Property(object, property) == [object |-> object, property |-> property, index |-> NoIndex]

Typed(type, is) == [type |-> type, is |-> is]

NoText == Typed("Empty", 0)

SessionRequests ==
    {ListEntry(Device, "objectList", i) : i \in 0..MaxCount}
        \cup {ListEntry(o, "propertyList", i) : o \in Objects, i \in 0..MaxCount}
        \cup {Property(o, PropertyOrder[k]) : o \in Objects, k \in 1..3}
        \cup {Property(o, Wanted[k]) : o \in Objects, k \in DOMAIN Wanted}

ReadStatuses == {"Ack", "EmptyValue", "UnsupportedDatatype", "UnsupportedProperty",
                 "ArrayIndexNotSupported", "Error", "Reject", "Abort", "DecodeError",
                 "Timeout", "SendFailed", "Busy"}

ASSUME SessionReadsAssumption ==
    /\ SessionRequests \cup {JobRequest, PollRequest} \subseteq Requests
    /\ Device \notin Objects /\ Filter \subseteq Objects
    /\ MaxEntries \in Nat /\ Capacity \in Nat /\ PropertyCapacity \in Nat
    /\ MaxCount \in Nat /\ MaxOperations \in Nat
    /\ Asked \subseteq ToSet(PropertyOrder)
    /\ Failures \subseteq {"empty", "unsupported", "unknownProperty", "invalidArrayIndex",
                           "error", "reject", "abort", "undecodable"}
    /\ Wanted \in Seq({r.property : r \in Requests})
    /\ ReadStatuses \subseteq Statuses /\ NoText \in Values
    /\ ValueOf \in [Requests -> SUBSET Values]

\* What the lists of a device hold, where an answer is what it should be: their
\* length, objects, and properties.
ASSUME ListsAssumption ==
    \A r \in Requests : \A v \in ValueOf[r] :
        /\ r.property \in {"objectList", "propertyList"} /\ r.index = 0 /\ v.type = "Unsigned" =>
              v.is \in 0..MaxCount
        /\ r.property = "objectList" /\ v.type = "ObjectIdentifier" => v.is \in Objects
        /\ r.property = "propertyList" /\ r.index # 0 /\ v.type \in {"Enumerated", "Unsigned"} =>
              Property(r.object, v.is) \in Requests

VARIABLES
    scan,           \* the scan job
    entries,        \* history: the entries the scan has been answered
    read,           \* the property read job
    holders,        \* which of the session's three in-flight pointers are set
    task,           \* the blocking operation in progress
    begun           \* the part of MaxOperations used

vars == <<scan, entries, read, holders, task, begun, cacheVars>>

-----------------------------------------------------------------------------
\* Responses.

\* classifyDetailedReadStatus() of a response other than a usable value.
Classified(failure, request) ==
    CASE failure = "empty" -> "EmptyValue"
      [] failure = "unsupported" -> "UnsupportedDatatype"
      [] failure = "unknownProperty" -> "UnsupportedProperty"
      [] failure = "invalidArrayIndex" ->
            IF request.index # NoIndex THEN "ArrayIndexNotSupported" ELSE "Error"
      [] failure = "error" -> "Error"
      [] failure = "reject" -> "Reject"
      [] failure = "abort" -> "Abort"
      [] failure = "undecodable" -> "DecodeError"

\* deviceReadStatusFromPropertyStatus(): the coarser status of scans.
Coarse(status) ==
    CASE status \in {"Ack", "EmptyValue", "UnsupportedDatatype"} -> "Ack"
      [] status \in {"Timeout", "SendFailed", "Busy"} -> status
      [] OTHER -> "Error"

\* What may become of a request that was sent.
Outcomes(request) ==
    [status : {"Ack"}, value : ValueOf[request]]
        \cup {[status |-> Classified(f, request), value |-> NoText] : f \in Failures}
        \cup {[status |-> "Timeout", value |-> NoValue]}

Refused == [status |-> "SendFailed", value |-> NoValue]

-----------------------------------------------------------------------------
\* The scan of the device's object list.

ScanStatuses == {"Idle", "Active", "Complete", "Failed", "Cancelled"}

IdleScan ==
    [status |-> "Idle", phase |-> "Count", waiting |-> "No", index |-> 0, limit |-> 0,
     storing |-> FALSE, countStatus |-> "Skipped", count |-> 0, inspected |-> 0,
     found |-> 0, truncated |-> FALSE, results |-> <<>>]

Unscanned(object) ==
    [object |-> object, got |-> [p \in ToSet(PropertyOrder) |-> "Skipped"]]

AcceptsObjectType(object) == Filter = {} \/ object \in Filter

IsAccepted(value) == value.type = "ObjectIdentifier" /\ AcceptsObjectType(value.is)

\* The request of the scan's phase.
ScanRequest ==
    CASE scan.phase = "Count" -> ListEntry(Device, "objectList", 0)
      [] scan.phase = "Entry" -> ListEntry(Device, "objectList", scan.index)
      [] OTHER -> Property(Last(scan.results).object, scan.phase)

Ended(job, status) == [job EXCEPT !.status = status, !.waiting = "No"]

Sending(job, phase) == [job EXCEPT !.phase = phase, !.waiting = "Sending"]

\* Mutant: the scan reads one entry past the end of the list.
NextEntryPastEnd(job) ==
    IF job.index > job.limit + 1 THEN Ended(job, "Complete") ELSE Sending(job, "Entry")

NextEntry(job) ==
    IF job.index > job.limit THEN Ended(job, "Complete") ELSE Sending(job, "Entry")

PassOver(job) == NextEntry([job EXCEPT !.index = @ + 1])

\* The places in the order of the properties still to be read of that object.
Unread(job) ==
    {k \in DOMAIN PropertyOrder :
        PropertyOrder[k] \in Asked /\ Last(job.results).got[PropertyOrder[k]] = "Skipped"}

\* advanceObjectListScan(): the next property of the object that was stored last,
\* else the next entry.
Advance(job) ==
    IF ~job.storing THEN NextEntry(job)
    ELSE IF Unread(job) # {} THEN Sending(job, PropertyOrder[Min(Unread(job))])
    ELSE PassOver([job EXCEPT !.storing = FALSE])

CountAnswered(job, outcome) ==
    LET counted == [job EXCEPT !.countStatus = Coarse(outcome.status)]
    IN  IF counted.countStatus # "Ack" \/ outcome.value.type # "Unsigned"
        THEN Ended(counted, "Failed")
        ELSE Advance([counted EXCEPT !.count = outcome.value.is, !.index = 1,
                                     !.limit = Min({outcome.value.is, MaxEntries}),
                                     !.truncated = outcome.value.is > MaxEntries])

\* Mutant: an object for which there is no room is not counted as truncation.
EntryAnsweredSilently(job, outcome) ==
    LET seen  == [job EXCEPT !.inspected = @ + 1]
        found == [seen EXCEPT !.found = @ + 1]
    IN  IF Coarse(outcome.status) # "Ack" THEN Ended(job, "Complete")
        ELSE IF ~IsAccepted(outcome.value) THEN PassOver(seen)
        ELSE IF Len(job.results) >= Capacity THEN PassOver(found)
        ELSE Advance([found EXCEPT !.storing = TRUE,
                                   !.results = Append(@, Unscanned(outcome.value.is))])

\* The scan is complete when an entry cannot be read, wherever in the list it is.
EntryAnswered(job, outcome) ==
    LET seen  == [job EXCEPT !.inspected = @ + 1]
        found == [seen EXCEPT !.found = @ + 1]
    IN  IF Coarse(outcome.status) # "Ack" THEN Ended(job, "Complete")
        ELSE IF ~IsAccepted(outcome.value) THEN PassOver(seen)
        ELSE IF Len(job.results) >= Capacity
             THEN PassOver([found EXCEPT !.truncated = TRUE])
        ELSE Advance([found EXCEPT !.storing = TRUE,
                                   !.results = Append(@, Unscanned(outcome.value.is))])

\* Mutant: only a property that was read is marked.
PropertyAnsweredIfRead(job, outcome) ==
    Advance(IF Coarse(outcome.status) = "Ack"
            THEN [job EXCEPT !.results[Len(job.results)].got[job.phase] = "Ack"] ELSE job)

PropertyAnswered(job, outcome) ==
    Advance([job EXCEPT !.results[Len(job.results)].got[job.phase] = Coarse(outcome.status)])

Answered(job, outcome) ==
    CASE job.phase = "Count" -> CountAnswered(job, outcome)
      [] job.phase = "Entry" -> EntryAnswered(job, outcome)
      [] OTHER -> PropertyAnswered(job, outcome)

\* finishObjectListScanRead()
FinishScanRead(outcome) ==
    /\ scan' = Answered(scan, outcome)
    /\ entries' = IF scan.phase = "Entry" /\ Coarse(outcome.status) = "Ack"
                  THEN Append(entries, outcome.value) ELSE entries
    /\ holders' = IF scan'.status = "Active" THEN holders ELSE holders \ {"Scan"}
    /\ UpdatePropertyCache(ScanRequest, outcome.status, outcome.value)

\* No call is in progress.
Returned == scan.waiting # "Sending" /\ task.op = "None"

Begins == Returned /\ begun < MaxOperations /\ begun' = begun + 1

\* The application has looked at the results of the jobs that ended.
NothingLeft ==
    /\ scan.status \in {"Idle", "Active"}
    /\ read.status \in {"Idle", "Active"}

BeginScan ==
    /\ Begins /\ NothingLeft
    /\ holders = {} /\ scan.status # "Active"
    /\ scan' = [IdleScan EXCEPT !.status = "Active", !.waiting = "Sending"]
    /\ entries' = <<>>
    /\ holders' = {"Scan"}
    /\ UNCHANGED <<read, task, cacheVars>>

ScanRequestSent ==
    /\ scan.waiting = "Sending"
    /\ scan' = [scan EXCEPT !.waiting = "Answer"]
    /\ UNCHANGED <<entries, read, holders, task, begun, cacheVars>>

ScanRequestRefused ==
    /\ scan.waiting = "Sending"
    /\ FinishScanRead(Refused)
    /\ UNCHANGED <<read, task, begun>>

\* pollObjectListScan() and pollInFlight()
PollScan ==
    /\ Returned
    /\ scan.waiting = "Answer"
    /\ \E outcome \in Outcomes(ScanRequest) : FinishScanRead(outcome)
    /\ UNCHANGED <<read, task, begun>>

CancelScan ==
    /\ Returned
    /\ scan.status = "Active"
    /\ scan' = Ended(scan, "Cancelled")
    /\ holders' = holders \ {"Scan"}
    /\ UNCHANGED <<entries, read, task, begun, cacheVars>>

-----------------------------------------------------------------------------
\* The property read job, and the reads of a subscription (see ClientSession).

IdleRead == [status |-> "Idle", readStatus |-> "Busy", value |-> NoValue]

\* finishPropertyRead()
FinishRead(outcome) ==
    /\ read' = [status |-> IF outcome.status \in {"Ack", "EmptyValue"} THEN "Complete" ELSE "Failed",
                readStatus |-> outcome.status, value |-> outcome.value]
    /\ holders' = {}
    /\ UpdatePropertyCache(JobRequest, outcome.status, outcome.value)

\* Mutant: only another property read keeps the session busy.
BeginReadUnchecked ==
    /\ Begins /\ NothingLeft
    /\ "Read" \notin holders /\ read.status # "Active"
    /\ read' = [IdleRead EXCEPT !.status = "Active"]
    /\ holders' = holders \cup {"Read"}
    /\ UNCHANGED <<scan, entries, task, cacheVars>>

BeginRead ==
    /\ Begins /\ NothingLeft
    /\ holders = {} /\ read.status # "Active"
    /\ \/ FinishRead(Refused)
       \/ /\ read' = [IdleRead EXCEPT !.status = "Active"]
          /\ holders' = {"Read"}
          /\ UNCHANGED cacheVars
    /\ UNCHANGED <<scan, entries, task>>

PollRead ==
    /\ Returned
    /\ read.status = "Active"
    /\ \E outcome \in Outcomes(JobRequest) : FinishRead(outcome)
    /\ UNCHANGED <<scan, entries, task, begun>>

CancelRead ==
    /\ Returned
    /\ read.status = "Active"
    /\ read' = [read EXCEPT !.status = "Cancelled"]
    /\ holders' = holders \ {"Read"}
    /\ UNCHANGED <<scan, entries, task, begun, cacheVars>>

BeginPoll ==
    /\ Begins /\ NothingLeft
    /\ holders = {}
    /\ \/ UpdatePropertyCache(PollRequest, "SendFailed", NoValue) /\ UNCHANGED holders
       \/ holders' = {"Subscription"} /\ UNCHANGED cacheVars
    /\ UNCHANGED <<scan, entries, read, task>>

EndPoll ==
    /\ Returned
    /\ "Subscription" \in holders
    /\ holders' = holders \ {"Subscription"}
    /\ \/ \E outcome \in Outcomes(PollRequest) :
             UpdatePropertyCache(PollRequest, outcome.status, outcome.value)
       \/ UNCHANGED cacheVars
    /\ UNCHANGED <<scan, entries, read, task, begun>>

-----------------------------------------------------------------------------
\* The operations that block: readPropertyList(), readAllProperties() and
\* readAllAdvertisedProperties() of an object.

NoTask == [op |-> "None", object |-> Device, stage |-> "Count", advertised |-> 0,
           listed |-> <<>>, results |-> <<>>, status |-> "Ack"]

TaskRequest ==
    CASE task.stage = "Count" -> ListEntry(task.object, "propertyList", 0)
      [] task.stage = "Entry" -> ListEntry(task.object, "propertyList", Len(task.listed) + 1)
      [] task.stage = "Read" -> Property(task.object, task.listed[Len(task.results) + 1])

\* What is left to do with the list that was read, or that the caller gave.
ReadNext(job) ==
    IF Len(job.results) < Min({Len(job.listed), Capacity})
    THEN [job EXCEPT !.stage = "Read"] ELSE [job EXCEPT !.stage = "Done"]

ListNext(job) ==
    IF Len(job.listed) < Min({job.advertised, PropertyCapacity}) THEN [job EXCEPT !.stage = "Entry"]
    ELSE IF job.op = "Advertised" THEN ReadNext(job) ELSE [job EXCEPT !.stage = "Done"]

Failed(job, status) == [job EXCEPT !.stage = "Done", !.status = status]

TaskAnswered(job, outcome) ==
    CASE job.stage = "Read" -> ReadNext([job EXCEPT !.results = Append(@, outcome.status)])
      [] job.stage # "Read" /\ outcome.status # "Ack" -> Failed(job, outcome.status)
      [] job.stage = "Count" /\ outcome.status = "Ack" ->
            IF outcome.value.type = "Unsigned"
            THEN ListNext([job EXCEPT !.advertised = outcome.value.is])
            ELSE Failed(job, "DecodeError")
      [] job.stage = "Entry" /\ outcome.status = "Ack" ->
            IF outcome.value.type \in {"Enumerated", "Unsigned"}
            THEN ListNext([job EXCEPT !.listed = Append(@, outcome.value.is)])
            ELSE Failed(job, "DecodeError")

BeginTask(op, object) ==
    /\ Begins /\ NothingLeft
    /\ task' = IF op = "All" THEN ReadNext([NoTask EXCEPT !.op = op, !.object = object, !.listed = Wanted])
               ELSE [NoTask EXCEPT !.op = op, !.object = object]
    /\ UNCHANGED <<scan, entries, read, holders, cacheVars>>

\* readPropertyDetailed(): refused while something is in flight; else it sends
\* and waits.
ReadPropertyDetailed ==
    /\ task.op # "None" /\ task.stage # "Done"
    /\ \E outcome \in (IF holders # {} THEN {[status |-> "Busy", value |-> NoValue]}
                       ELSE Outcomes(TaskRequest) \cup {Refused}) :
          /\ task' = TaskAnswered(task, outcome)
          /\ UpdatePropertyCache(TaskRequest, outcome.status, outcome.value)
    /\ UNCHANGED <<scan, entries, read, holders, begun>>

\* readPriorityArray() and writeProperty(): nothing of them is cached.
ReadOrWriteUncached(op) ==
    /\ Begins /\ NothingLeft
    /\ \E status \in (IF holders # {} THEN {"Busy"}
                      ELSE {outcome.status : outcome \in Outcomes(JobRequest) \cup {Refused}}) :
          task' = [NoTask EXCEPT !.op = op, !.stage = "Done", !.status = status]
    /\ UNCHANGED <<scan, entries, read, holders, cacheVars>>

TaskReturns ==
    /\ task.stage = "Done"
    /\ task' = NoTask
    /\ UNCHANGED <<scan, entries, read, holders, begun, cacheVars>>

-----------------------------------------------------------------------------
Init ==
    /\ scan = IdleScan
    /\ entries = <<>>
    /\ read = IdleRead
    /\ holders = {}
    /\ task = NoTask
    /\ begun = 0
    /\ CacheInit

\* The application drops the jobs that ended.
Forget ==
    /\ Returned /\ ~NothingLeft
    /\ scan' = IF scan.status = "Active" THEN scan ELSE IdleScan
    /\ entries' = IF scan.status = "Active" THEN entries ELSE <<>>
    /\ read' = IF read.status = "Active" THEN read ELSE IdleRead
    /\ UNCHANGED <<holders, task, begun, cacheVars>>

Next ==
    \/ BeginScan \/ ScanRequestSent \/ ScanRequestRefused \/ PollScan \/ CancelScan
    \/ BeginRead \/ PollRead \/ CancelRead
    \/ BeginPoll \/ EndPoll
    \/ \E op \in {"List", "All", "Advertised"}, object \in Objects : BeginTask(op, object)
    \/ \E op \in {"PriorityArray", "Write"} : ReadOrWriteUncached(op)
    \/ ReadPropertyDetailed \/ TaskReturns
    \/ Forget

Spec == Init /\ [][Next]_vars

\* The application polls its scan until it ends, and calls return.
FairSpec ==
    /\ Spec
    /\ WF_vars(PollScan)
    /\ WF_vars(ScanRequestSent \/ ScanRequestRefused)
    /\ WF_vars(ReadPropertyDetailed) /\ WF_vars(TaskReturns)

-----------------------------------------------------------------------------
\* Every variable keeps its range.
TypeOK ==
    /\ scan.status \in ScanStatuses
    /\ scan.index \in 0..(Min({MaxCount, MaxEntries}) + 1)
    /\ Len(scan.results) <= Capacity
    /\ scan.status = "Active" <=> scan.waiting # "No"
    /\ read.status \in ScanStatuses
    /\ holders \subseteq {"Scan", "Read", "Subscription"}
    /\ Len(task.listed) <= Max({PropertyCapacity, Len(Wanted)}) /\ Len(task.results) <= Capacity
    /\ cache \in [Slots -> Entries \cup {Free}] /\ nextSlot \in Slots

\* The session has one operation in flight, and the operation knows it.
OneOperation ==
    /\ Cardinality(holders) <= 1
    /\ "Scan" \in holders <=> scan.status = "Active"
    /\ "Read" \in holders <=> read.status = "Active"

\* The summary tells how the results relate to what the device answered: in
\* order and without gaps, and whether an object that was found is missing.
SummaryIsTrue ==
    LET accepted == {k \in DOMAIN entries : IsAccepted(entries[k])}
        Rank(k)  == Cardinality({j \in accepted : j <= k})
    IN  scan.status # "Idle" =>
          /\ Len(scan.results) = Min({Capacity, Cardinality(accepted)})
          /\ \A k \in accepted :
                Rank(k) <= Capacity => scan.results[Rank(k)].object = entries[k].is
          /\ scan.inspected = Len(entries) /\ scan.found = Cardinality(accepted)
          /\ scan.truncated <=> scan.count > MaxEntries \/ Cardinality(accepted) > Capacity

\* A scan ends, whatever is refused, lost or malformed on the way.
ScanEnds == scan.status = "Active" ~> scan.status # "Active"

=============================================================================
