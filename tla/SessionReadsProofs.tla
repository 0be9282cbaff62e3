-------------------------- MODULE SessionReadsProofs --------------------------
(***************************************************************************)
(* TLAPS proofs about SessionReads and the PropertyCache it extends, for    *)
(* every device, filter, buffer and cache size: the cache keeps what the    *)
(* device acknowledged; scans, property reads, subscriptions and blocking   *)
(* calls of a session never have two operations in flight; the summary of a *)
(* scan is true of what the device answered; no list, buffer or index       *)
(* leaves its bounds; and every read uses the property cache as its         *)
(* specification has it, so what is proved of the cache holds in every      *)
(* session.                                                                 *)
(***************************************************************************)
EXTENDS SessionReads, FiniteSetTheorems, TLAPS

-----------------------------------------------------------------------------
\* The property cache, for every sequence of reads.

CacheTypeOK ==
    /\ cache \in [Slots -> Entries \cup {Free}]
    /\ cacheCount \in 0..MaxCached
    /\ nextSlot \in Slots
    /\ acked \in [Tracked -> Values \cup {NoValue}]

\* The slots are used in order until the cache is full.
FillsInOrder ==
    /\ \A i \in Slots : cache[i] # Free <=> i <= cacheCount
    /\ cacheCount < MaxCached => nextSlot = cacheCount + 1

CacheInv == CacheTypeOK /\ FillsInOrder /\ OneEntryEach /\ ValueIsLastAcked

\* What Refreshed() makes of an entry is an entry of the same request.
LEMMA RefreshedIsEntry ==
    ASSUME NEW entry \in Entries, NEW status \in Statuses, NEW value \in Values \cup {NoValue}
    PROVE  /\ Refreshed(entry, status, value) \in Entries
           /\ Refreshed(entry, status, value).request = entry.request
           /\ Refreshed(entry, status, value).hasValue =
                (entry.hasValue \/ (status = "Ack" /\ value # NoValue))
           /\ status = "Ack" /\ value # NoValue =>
                Refreshed(entry, status, value).value = value
           /\ entry.hasValue /\ ~(status = "Ack" /\ value # NoValue) =>
                Refreshed(entry, status, value).value = entry.value
  BY DEF Refreshed, Entries

\* A new entry holds no value.
LEMMA BlankIsEntry ==
    ASSUME NEW request \in Requests
    PROVE  /\ Blank(request) \in Entries
           /\ Blank(request).request = request
           /\ ~Blank(request).hasValue
  BY CacheAssumption DEF Blank, Entries

\* The slot of a new entry: the next one, and while the cache is not full it was
\* never used.
LEMMA CreateTakesNextSlot ==
    ASSUME CacheInv, NEW i \in Slots, NEW request, NEW status, NEW value,
           Create(i, request, status, value)
    PROVE  /\ i = nextSlot
           /\ cacheCount < MaxCached => i = cacheCount + 1 /\ cacheCount' = cacheCount + 1
           /\ cacheCount = MaxCached => cacheCount' = cacheCount
  <1>1. CASE cacheCount < MaxCached
    <2>1. FirstFree(i) /\ cacheCount' = cacheCount + 1
      BY <1>1 DEF Create
    <2>2. cache[i] = Free /\ i > cacheCount
      BY <2>1, CacheAssumption DEF FirstFree, CacheInv, FillsInOrder, CacheTypeOK, Slots
    <2>3. nextSlot = cacheCount + 1 /\ cache[nextSlot] = Free
      BY <1>1, CacheAssumption DEF CacheInv, FillsInOrder, CacheTypeOK, Slots
    <2>4. nextSlot <= i
      BY <2>2, <2>3, CacheAssumption DEF CacheInv, CacheTypeOK, Slots
    <2>5. ASSUME nextSlot < i PROVE FALSE
      <3>1. nextSlot \in nextSlot..(i - 1) /\ nextSlot \in Slots
        BY <2>5, CacheAssumption DEF CacheInv, CacheTypeOK, Slots
      <3> QED BY <2>1, <2>3, <2>4, <3>1 DEF FirstFree
    <2> QED BY <1>1, <2>1, <2>3, <2>4, <2>5, CacheAssumption DEF CacheInv, CacheTypeOK, Slots
  <1>2. CASE cacheCount = MaxCached
    BY <1>2, CacheAssumption DEF Create, CacheInv, CacheTypeOK
  <1> QED BY <1>1, <1>2, CacheAssumption DEF CacheInv, CacheTypeOK

\* It holds of the empty cache,
LEMMA InvariantFromStart == CacheInit => CacheInv
  BY CacheAssumption DEF CacheInit, CacheInv, CacheTypeOK, FillsInOrder, OneEntryEach,
       ValueIsLastAcked, Slots

\* An attempt to read a property that has an entry.
LEMMA RefreshKeepsInvariant ==
    ASSUME CacheInv, NEW i \in Slots, NEW request \in Requests, NEW status \in Statuses,
           NEW value \in Values \cup {NoValue},
           Refresh(i, request, status, value),
           acked' = IF status = "Ack" /\ value # NoValue /\ request \in Tracked
                    THEN [acked EXCEPT ![request] = value] ELSE acked
    PROVE  CacheInv'
  <1> DEFINE new == Refreshed(cache[i], status, value)
  <1>1. cache[i] \in Entries /\ cache[i].request = request
    BY DEF CacheInv, CacheTypeOK, Refresh, Holds
  <1>2. cache' = [cache EXCEPT ![i] = new] /\ cacheCount' = cacheCount /\ nextSlot' = nextSlot
    BY DEF Refresh
  <1>3. /\ new \in Entries /\ new.request = request /\ new # Free
        /\ new.hasValue = (cache[i].hasValue \/ (status = "Ack" /\ value # NoValue))
        /\ status = "Ack" /\ value # NoValue => new.value = value
        /\ cache[i].hasValue /\ ~(status = "Ack" /\ value # NoValue) => new.value = cache[i].value
    BY <1>1, RefreshedIsEntry, CacheAssumption DEF Entries
  <1>4. cache[i] # Free
    BY DEF Refresh, Holds
  <1> HIDE DEF new
  <1>5. CacheTypeOK'
    BY <1>2, <1>3 DEF CacheInv, CacheTypeOK
  <1>6. \A j \in Slots : /\ cache'[j] # Free <=> cache[j] # Free
                         /\ cache[j] # Free => cache'[j].request = cache[j].request
    BY <1>1, <1>2, <1>3, <1>4 DEF CacheInv, CacheTypeOK
  <1>7. FillsInOrder'
    BY <1>2, <1>6 DEF CacheInv, FillsInOrder
  <1>8. OneEntryEach'
    BY <1>6 DEF CacheInv, OneEntryEach
  <1>9. ASSUME NEW j \in Slots, cache'[j] # Free, cache'[j].request \in Tracked, cache'[j].hasValue
        PROVE  cache'[j].value = acked'[cache'[j].request]
    <2>1. CASE j = i
      BY <1>1, <1>2, <1>3, <1>4, <1>9, <2>1 DEF CacheInv, CacheTypeOK, ValueIsLastAcked
    <2>2. CASE j # i
      <3>1. cache'[j] = cache[j] /\ cache[j].request # request
        BY <1>1, <1>2, <1>4, <1>9, <2>2 DEF CacheInv, CacheTypeOK, OneEntryEach
      <3>2. acked'[cache[j].request] = acked[cache[j].request]
        BY <3>1, <1>9 DEF CacheInv, CacheTypeOK
      <3> QED BY <1>9, <3>1, <3>2 DEF CacheInv, ValueIsLastAcked
    <2> QED BY <2>1, <2>2
  <1> QED BY <1>5, <1>7, <1>8, <1>9 DEF CacheInv, ValueIsLastAcked

\* An attempt to read a property that has none.
LEMMA CreateKeepsInvariant ==
    ASSUME CacheInv, NEW i \in Slots, NEW request \in Requests, NEW status \in Statuses,
           NEW value \in Values \cup {NoValue},
           Create(i, request, status, value),
           acked' = IF status = "Ack" /\ value # NoValue /\ request \in Tracked
                    THEN [acked EXCEPT ![request] = value] ELSE acked
    PROVE  CacheInv'
  <1> DEFINE new == Refreshed(Blank(request), status, value)
  <1>1. /\ new \in Entries /\ new.request = request /\ new # Free
        /\ new.hasValue = (status = "Ack" /\ value # NoValue)
        /\ status = "Ack" /\ value # NoValue => new.value = value
    BY BlankIsEntry, RefreshedIsEntry, CacheAssumption DEF Entries
  <1>2. /\ cache' = [cache EXCEPT ![i] = new] /\ nextSlot' = After(i)
        /\ \A j \in Slots : cache[j] # Free => cache[j].request # request
    BY DEF Create, IsCached, Holds
  <1> HIDE DEF new
  <1>3. /\ i = nextSlot
        /\ cacheCount < MaxCached => i = cacheCount + 1 /\ cacheCount' = cacheCount + 1
        /\ cacheCount = MaxCached => cacheCount' = cacheCount
    BY CreateTakesNextSlot
  <1>4. CacheTypeOK'
    <2>1. After(i) \in Slots /\ cacheCount' \in 0..MaxCached
      BY <1>3, CacheAssumption DEF After, Slots, CacheInv, CacheTypeOK
    <2> QED BY <1>1, <1>2, <2>1 DEF CacheInv, CacheTypeOK
  <1>5. FillsInOrder'
    <2>1. \A j \in Slots : cache'[j] # Free <=> (j = i \/ cache[j] # Free)
      BY <1>1, <1>2 DEF CacheInv, CacheTypeOK
    <2>2. \A j \in Slots : cache'[j] # Free <=> j <= cacheCount'
      BY <2>1, <1>3, CacheAssumption DEF CacheInv, CacheTypeOK, FillsInOrder, Slots
    <2>3. cacheCount' < MaxCached => nextSlot' = cacheCount' + 1
      BY <1>2, <1>3, CacheAssumption DEF CacheInv, CacheTypeOK, After, Slots
    <2> QED BY <2>2, <2>3 DEF FillsInOrder
  <1>6. OneEntryEach'
    BY <1>1, <1>2 DEF CacheInv, CacheTypeOK, OneEntryEach
  <1>7. ASSUME NEW j \in Slots, cache'[j] # Free, cache'[j].request \in Tracked, cache'[j].hasValue
        PROVE  cache'[j].value = acked'[cache'[j].request]
    <2>1. CASE j = i
      BY <1>1, <1>2, <1>7, <2>1 DEF CacheInv, CacheTypeOK
    <2>2. CASE j # i
      <3>1. cache'[j] = cache[j] /\ cache[j].request # request
        BY <1>2, <1>7, <2>2 DEF CacheInv, CacheTypeOK
      <3>2. acked'[cache[j].request] = acked[cache[j].request]
        BY <3>1, <1>7 DEF CacheInv, CacheTypeOK
      <3> QED BY <1>7, <3>1, <3>2 DEF CacheInv, ValueIsLastAcked
    <2> QED BY <2>1, <2>2
  <1> QED BY <1>4, <1>5, <1>6, <1>7 DEF CacheInv, ValueIsLastAcked

\* every operation keeps it,
LEMMA InvariantIsKept == CacheInv /\ [CacheNext]_cacheVars => CacheInv'
  <1> SUFFICES ASSUME CacheInv, [CacheNext]_cacheVars PROVE CacheInv'
    OBVIOUS
  <1>1. ASSUME NEW request \in Requests, NEW status \in Statuses, NEW value \in Values \cup {NoValue},
               UpdatePropertyCache(request, status, value)
        PROVE  CacheInv'
    BY <1>1, RefreshKeepsInvariant, CreateKeepsInvariant DEF UpdatePropertyCache
  <1>2. CASE UNCHANGED cacheVars
    BY <1>2 DEF cacheVars, CacheInv, CacheTypeOK, FillsInOrder, OneEntryEach, ValueIsLastAcked
  <1> QED BY <1>1, <1>2 DEF CacheNext

\* and it holds throughout.
LEMMA CacheInvariant == CacheSpec => []CacheInv
  BY InvariantFromStart, InvariantIsKept, PTL DEF CacheSpec

\* updatePropertyCache(): a good value in the cache is the one its own request
\* last got acknowledged.
THEOREM CacheKeepsLastAcked == CacheSpec => []ValueIsLastAcked
  BY CacheInvariant, PTL DEF CacheInv

\* findOrCreateCachedProperty(): a request never has two entries.
THEOREM CacheHasOneEntryEach == CacheSpec => []OneEntryEach
  BY CacheInvariant, PTL DEF CacheInv

\* findOrCreateCachedProperty() evicts an entry only when no slot is free.
THEOREM CacheEvictsOnlyWhenFull == CacheSpec => EvictsOnlyWhenFull
  <1> DEFINE Keeps == \A i \in Slots :
                cache[i] # Free /\ cache'[i].request # cache[i].request =>
                    \A j \in Slots : cache[j] # Free
  <1>1. CacheInv /\ [CacheNext]_cacheVars => [Keeps]_cacheVars
    <2> SUFFICES ASSUME CacheInv, NEW request \in Requests, NEW status \in Statuses,
                        NEW value \in Values \cup {NoValue}, NEW i \in Slots,
                        Refresh(i, request, status, value) \/ Create(i, request, status, value)
                 PROVE  Keeps
      BY DEF CacheNext, UpdatePropertyCache
    <2>1. CASE Refresh(i, request, status, value)
      <3>1. cache[i] \in Entries /\ cache' = [cache EXCEPT ![i] = Refreshed(cache[i], status, value)]
        BY <2>1 DEF Refresh, Holds, CacheInv, CacheTypeOK
      <3>2. Refreshed(cache[i], status, value).request = cache[i].request
        BY <3>1, RefreshedIsEntry
      <3> QED BY <3>1, <3>2 DEF CacheInv, CacheTypeOK
    <2>2. CASE Create(i, request, status, value)
      <3>1. i = nextSlot /\ (cacheCount < MaxCached => i = cacheCount + 1)
        BY <2>2, CreateTakesNextSlot
      <3>2. cacheCount < MaxCached => cache[i] = Free
        BY <3>1, CacheAssumption DEF CacheInv, FillsInOrder, CacheTypeOK, Slots
      <3>3. cacheCount = MaxCached => \A j \in Slots : cache[j] # Free
        BY CacheAssumption DEF CacheInv, FillsInOrder, CacheTypeOK, Slots
      <3>4. \A j \in Slots \ {i} : cache'[j] = cache[j]
        BY <2>2 DEF Create, CacheInv, CacheTypeOK
      <3> QED BY <3>2, <3>3, <3>4, CacheAssumption DEF CacheInv, CacheTypeOK
    <2> QED BY <2>1, <2>2
  <1> QED BY <1>1, CacheInvariant, PTL DEF CacheSpec, EvictsOnlyWhenFull

-----------------------------------------------------------------------------
\* A session's reads.

\* A record with the fields of a scan.
ScanLike(job) == DOMAIN job = DOMAIN IdleScan

\* A scan is waiting for something exactly while it is active.
Running(job) == ScanLike(job) /\ job.status = "Active" /\ job.waiting = "Sending"
Stopped(job) == ScanLike(job) /\ job.status # "Active" /\ job.waiting = "No"

\* A scan that was never started does not run.
LEMMA IdleIsStopped == Stopped(IdleScan)
BY DEF Stopped, ScanLike, IdleScan

\* What a scan does next: it sends a request, or it has ended.
LEMMA EndedStops ==
    ASSUME NEW job, ScanLike(job), NEW status \in {"Complete", "Failed", "Cancelled"}
    PROVE  Stopped(Ended(job, status))
BY DEF Ended, Stopped, ScanLike, IdleScan

\* One that sends runs, with its request,
LEMMA SendingRuns ==
    ASSUME NEW job, ScanLike(job), job.status = "Active", NEW phase
    PROVE  Running(Sending(job, phase))
BY DEF Sending, Running, ScanLike, IdleScan

\* whichever entry is next,
LEMMA NextEntryGoesOn ==
    ASSUME NEW job, ScanLike(job), job.status = "Active"
    PROVE  Running(NextEntry(job)) \/ Stopped(NextEntry(job))
BY EndedStops, SendingRuns DEF NextEntry

\* passed over,
LEMMA PassOverGoesOn ==
    ASSUME NEW job, ScanLike(job), job.status = "Active"
    PROVE  Running(PassOver(job)) \/ Stopped(PassOver(job))
<1> DEFINE next == [job EXCEPT !.index = @ + 1]
<1>1. ScanLike(next) /\ next.status = "Active"
  BY DEF ScanLike, IdleScan
<1>. QED BY <1>1, NextEntryGoesOn DEF PassOver

\* advanced to,
LEMMA AdvanceGoesOn ==
    ASSUME NEW job, ScanLike(job), job.status = "Active"
    PROVE  Running(Advance(job)) \/ Stopped(Advance(job))
<1> DEFINE stored == [job EXCEPT !.storing = FALSE]
<1>1. ScanLike(stored) /\ stored.status = "Active"
  BY DEF ScanLike, IdleScan
<1>2. Running(PassOver(stored)) \/ Stopped(PassOver(stored))
  BY <1>1, PassOverGoesOn
<1>. QED BY <1>2, NextEntryGoesOn, SendingRuns DEF Advance

\* or answered.
LEMMA AnsweredGoesOn ==
    ASSUME NEW job, ScanLike(job), job.status = "Active", NEW outcome
    PROVE  Running(Answered(job, outcome)) \/ Stopped(Answered(job, outcome))
<1>1. Running(CountAnswered(job, outcome)) \/ Stopped(CountAnswered(job, outcome))
  <2> DEFINE counted == [job EXCEPT !.countStatus = Coarse(outcome.status)]
             next == [counted EXCEPT !.count = outcome.value.is, !.index = 1,
                                     !.limit = Min({outcome.value.is, MaxEntries}),
                                     !.truncated = outcome.value.is > MaxEntries]
  <2>1. ScanLike(counted) /\ counted.status = "Active"
    BY DEF ScanLike, IdleScan
  <2>2. ScanLike(next) /\ next.status = "Active"
    BY <2>1 DEF ScanLike, IdleScan
  <2>3. CountAnswered(job, outcome) \in {Ended(counted, "Failed"), Advance(next)}
    BY DEF CountAnswered
  <2>. QED BY <2>1, <2>2, <2>3, EndedStops, AdvanceGoesOn
<1>2. Running(EntryAnswered(job, outcome)) \/ Stopped(EntryAnswered(job, outcome))
  <2> DEFINE seen  == [job EXCEPT !.inspected = @ + 1]
             found == [seen EXCEPT !.found = @ + 1]
             cut   == [found EXCEPT !.truncated = TRUE]
             next  == [found EXCEPT !.storing = TRUE,
                                    !.results = Append(@, Unscanned(outcome.value.is))]
  <2>1. ScanLike(seen) /\ seen.status = "Active"
    BY DEF ScanLike, IdleScan
  <2>2. ScanLike(found) /\ found.status = "Active"
    BY <2>1 DEF ScanLike, IdleScan
  <2>3. ScanLike(cut) /\ cut.status = "Active" /\ ScanLike(next) /\ next.status = "Active"
    BY <2>2 DEF ScanLike, IdleScan
  <2>4. EntryAnswered(job, outcome)
            \in {Ended(job, "Complete"), PassOver(seen), PassOver(cut), Advance(next)}
    BY DEF EntryAnswered
  <2>. QED BY <2>1, <2>3, <2>4, EndedStops, PassOverGoesOn, AdvanceGoesOn
<1>3. Running(PropertyAnswered(job, outcome)) \/ Stopped(PropertyAnswered(job, outcome))
  <2> DEFINE next == [job EXCEPT !.results[Len(job.results)].got[job.phase] =
                                     Coarse(outcome.status)]
  <2>1. ScanLike(next) /\ next.status = "Active"
    BY DEF ScanLike, IdleScan
  <2>. QED BY <2>1, AdvanceGoesOn DEF PropertyAnswered
<1>. QED BY <1>1, <1>2, <1>3 DEF Answered

-----------------------------------------------------------------------------
\* The inductive invariant: who holds the session, and what the jobs believe.

OneHolder == holders = {} \/ \E k \in {"Scan", "Read", "Subscription"} : holders = {k}

RInv ==
    /\ OneHolder
    /\ ScanLike(scan) /\ (scan.status = "Active" <=> scan.waiting # "No")
    /\ "Scan" \in holders <=> scan.status = "Active"
    /\ "Read" \in holders <=> read.status = "Active"

\* The end of a scan keeps the invariant,
LEMMA FinishScanKeeps ==
    ASSUME RInv, scan.waiting # "No", NEW outcome, FinishScanRead(outcome), UNCHANGED read
    PROVE  RInv'
<1>1. scan' = Answered(scan, outcome) /\ scan.status = "Active" /\ holders = {"Scan"}
  BY DEF RInv, OneHolder, FinishScanRead
<1>2. Running(scan') \/ Stopped(scan')
  BY <1>1, AnsweredGoesOn DEF RInv
<1>3. holders' = IF scan'.status = "Active" THEN holders ELSE holders \ {"Scan"}
  BY DEF FinishScanRead
<1>4. CASE Running(scan')
  BY <1>1, <1>3, <1>4 DEF RInv, OneHolder, Running
<1>5. CASE Stopped(scan')
  <2>1. holders' = {}
    BY <1>1, <1>3, <1>5 DEF Stopped
  <2>. QED BY <1>1, <1>5, <2>1 DEF RInv, OneHolder, Stopped
<1>. QED BY <1>2, <1>4, <1>5

\* so does every step of one,
LEMMA ScanKeeps ==
    ASSUME RInv, BeginScan \/ ScanRequestSent \/ ScanRequestRefused \/ PollScan \/ CancelScan
    PROVE  RInv'
<1>1. CASE BeginScan
  <2>1. scan' = [IdleScan EXCEPT !.status = "Active", !.waiting = "Sending"]
        /\ holders = {} /\ holders' = {"Scan"} /\ read' = read
    BY <1>1 DEF BeginScan
  <2>2. ScanLike(scan') /\ scan'.status = "Active" /\ scan'.waiting = "Sending"
    BY <2>1 DEF ScanLike, IdleScan
  <2>. QED BY <2>1, <2>2 DEF RInv, OneHolder
<1>2. CASE ScanRequestSent
  <2>1. scan' = [scan EXCEPT !.waiting = "Answer"] /\ scan.waiting = "Sending"
        /\ UNCHANGED <<holders, read>>
    BY <1>2 DEF ScanRequestSent
  <2>2. ScanLike(scan') /\ scan'.status = scan.status /\ scan'.waiting = "Answer"
    BY <2>1 DEF RInv, ScanLike, IdleScan
  <2>. QED BY <2>1, <2>2 DEF RInv, OneHolder
<1>3. CASE ScanRequestRefused
  BY <1>3, FinishScanKeeps DEF ScanRequestRefused
<1>4. CASE PollScan
  BY <1>4, FinishScanKeeps DEF PollScan
<1>5. CASE CancelScan
  <2>1. scan' = Ended(scan, "Cancelled") /\ scan.status = "Active" /\ read' = read
        /\ holders' = holders \ {"Scan"}
    BY <1>5 DEF CancelScan
  <2>2. Stopped(scan')
    BY <2>1, EndedStops DEF RInv
  <2>3. holders = {"Scan"} /\ holders' = {}
    BY <2>1 DEF RInv, OneHolder
  <2>. QED BY <2>1, <2>2, <2>3 DEF RInv, OneHolder, Stopped
<1>. QED BY <1>1, <1>2, <1>3, <1>4, <1>5

\* every blocking read or write,
LEMMA ReadKeeps ==
    ASSUME RInv, BeginRead \/ PollRead \/ CancelRead \/ BeginPoll \/ EndPoll
    PROVE  RInv'
<1>1. \A outcome : FinishRead(outcome) => holders' = {} /\ read'.status # "Active"
  BY DEF FinishRead
<1>2. CASE BeginRead
  <2>1. holders = {} /\ scan' = scan
    BY <1>2 DEF BeginRead
  <2>2. CASE FinishRead(Refused)
    BY <1>1, <2>1, <2>2 DEF RInv, OneHolder
  <2>3. CASE read' = [IdleRead EXCEPT !.status = "Active"] /\ holders' = {"Read"}
    <3>1. read'.status = "Active"
      BY <2>3 DEF IdleRead
    <3>. QED BY <2>1, <2>3, <3>1 DEF RInv, OneHolder
  <2>. QED BY <1>2, <2>2, <2>3 DEF BeginRead
<1>3. CASE PollRead
  <2>1. read.status = "Active" /\ scan' = scan /\ holders' = {} /\ read'.status # "Active"
    BY <1>1, <1>3 DEF PollRead
  <2>2. holders = {"Read"}
    BY <2>1 DEF RInv, OneHolder
  <2>. QED BY <2>1, <2>2 DEF RInv, OneHolder
<1>4. CASE CancelRead
  <2>1. read.status = "Active" /\ scan' = scan /\ holders' = holders \ {"Read"}
        /\ read' = [read EXCEPT !.status = "Cancelled"]
    BY <1>4 DEF CancelRead
  <2>2. holders = {"Read"} /\ holders' = {}
    BY <2>1 DEF RInv, OneHolder
  <2>3. read'.status # "Active"
    BY <2>1
  <2>. QED BY <2>1, <2>2, <2>3 DEF RInv, OneHolder
<1>5. CASE BeginPoll
  <2>1. holders = {} /\ holders' \in {{}, {"Subscription"}} /\ UNCHANGED <<scan, read>>
    BY <1>5 DEF BeginPoll
  <2>. QED BY <2>1 DEF RInv, OneHolder
<1>6. CASE EndPoll
  <2>1. "Subscription" \in holders /\ holders' = holders \ {"Subscription"}
        /\ UNCHANGED <<scan, read>>
    BY <1>6 DEF EndPoll
  <2>2. holders = {"Subscription"} /\ holders' = {}
    BY <2>1 DEF RInv, OneHolder
  <2>. QED BY <2>1, <2>2 DEF RInv, OneHolder
<1>. QED BY <1>2, <1>3, <1>4, <1>5, <1>6

\* and invalidation.
LEMMA ForgetKeeps == ASSUME RInv, Forget PROVE RInv'
<1>1. holders' = holders /\ scan' = (IF scan.status = "Active" THEN scan ELSE IdleScan)
      /\ read' = IF read.status = "Active" THEN read ELSE IdleRead
  BY DEF Forget
<1>2. ScanLike(IdleScan) /\ IdleScan.status # "Active" /\ IdleScan.waiting = "No"
  BY IdleIsStopped DEF Stopped
<1>3. IdleRead.status # "Active"
  BY DEF IdleRead
<1>. QED BY <1>1, <1>2, <1>3 DEF RInv, OneHolder

\* It holds throughout.
LEMMA ReadsInvariant == Spec => []RInv
<1>1. Init => RInv
  BY IdleIsStopped DEF Init, RInv, OneHolder, Stopped, IdleRead
<1>2. RInv /\ [Next]_vars => RInv'
  <2>1. ASSUME RInv, UNCHANGED <<scan, read, holders>> PROVE RInv'
    BY <2>1 DEF RInv, OneHolder
  <2>2. ASSUME RInv, NEW op, NEW object, BeginTask(op, object) PROVE RInv'
    BY <2>1, <2>2 DEF BeginTask
  <2>3. ASSUME RInv, NEW op, ReadOrWriteUncached(op) PROVE RInv'
    BY <2>1, <2>3 DEF ReadOrWriteUncached
  <2>4. ASSUME RInv, ReadPropertyDetailed \/ TaskReturns PROVE RInv'
    BY <2>1, <2>4 DEF ReadPropertyDetailed, TaskReturns
  <2>5. ASSUME RInv, UNCHANGED vars PROVE RInv'
    BY <2>1, <2>5 DEF vars
  <2>. QED BY <2>2, <2>3, <2>4, <2>5, ScanKeeps, ReadKeeps, ForgetKeeps DEF Next
<1>. QED BY <1>1, <1>2, PTL DEF Spec

\* The session has one operation in flight, and the operation knows it: every
\* way to begin one looks at all three of the session's pointers (isBusy()), and
\* every way to end one clears its own.
THEOREM SessionReadsOneOperation == Spec => []OneOperation
<1>1. RInv => OneOperation
  <2>1. OneHolder => Cardinality(holders) <= 1
    BY FS_EmptySet, FS_Singleton DEF OneHolder
  <2>. QED BY <2>1 DEF RInv, OneOperation
<1>. QED BY <1>1, ReadsInvariant, PTL

-----------------------------------------------------------------------------
\* Helpers: bounds, and the order in which properties are read.

\* The least of two bounds.
LEMMA LeastOfTwo ==
    ASSUME NEW m \in Int, NEW n \in Int
    PROVE  Min({m, n}) = IF m <= n THEN m ELSE n
  BY DEF Min

\* The most of them.
LEMMA MostOfTwo ==
    ASSUME NEW m \in Int, NEW n \in Int
    PROVE  Max({m, n}) = IF m <= n THEN n ELSE m
  BY DEF Max

Names == {"objectName", "description", "presentValue"}

\* The properties a scan reads of an object, by place and as a set.
LEMMA NamesInOrder ==
    /\ DOMAIN PropertyOrder = 1..3
    /\ \A k \in 1..3 : PropertyOrder[k] \in Names
    /\ ToSet(PropertyOrder) = Names
  <1>1. DOMAIN PropertyOrder = 1..3 /\ 1..3 = {1, 2, 3}
    BY DEF PropertyOrder
  <1>2. PropertyOrder[1] = "objectName" /\ PropertyOrder[2] = "description"
        /\ PropertyOrder[3] = "presentValue"
    BY DEF PropertyOrder
  <1> QED BY <1>1, <1>2 DEF ToSet, Names

\* The first property that is still to be read is one of them.
LEMMA FirstUnread ==
    ASSUME NEW job, Unread(job) # {}
    PROVE  PropertyOrder[Min(Unread(job))] \in Names
  <1>1. Unread(job) \subseteq 1..3
    BY NamesInOrder DEF Unread
  <1>2. \E x \in Unread(job) : \A y \in Unread(job) : x <= y
    BY <1>1
  <1>3. Min(Unread(job)) \in Unread(job)
    BY <1>2 DEF Min
  <1> QED BY <1>1, <1>3, NamesInOrder

-----------------------------------------------------------------------------
\* The data of a scan.

MostEntries == Min({MaxCount, MaxEntries})

DeviceStatuses == {"Skipped", "Ack", "Timeout", "SendFailed", "Busy", "Error"}

Results == [object : Objects, got : [Names -> DeviceStatuses]]

ScanJobs ==
    [status : ScanStatuses, phase : {"Count", "Entry"} \cup Names,
     waiting : {"No", "Sending", "Answer"}, index : 0..(MostEntries + 1),
     limit : 0..MostEntries, storing : BOOLEAN, countStatus : DeviceStatuses,
     count : 0..MaxCount, inspected : Nat, found : Nat, truncated : BOOLEAN,
     results : Seq(Results)]

\* A scan that is in the middle of a poll: its request is the next thing to find.
Halfway(job) ==
    /\ job \in ScanJobs /\ job.status = "Active"
    /\ Len(job.results) <= Capacity
    /\ job.index # 0 /\ job.index <= job.limit + 1
    /\ job.storing => job.results # <<>> /\ job.index <= job.limit

\* A scan between two polls: what it asks for next is there to be asked for.
Sound(job) ==
    /\ job \in ScanJobs
    /\ Len(job.results) <= Capacity
    /\ job.storing => job.results # <<>>
    /\ job.status = "Active" =>
          /\ job.phase = "Count" => job.count = 0 /\ job.inspected = 0
          /\ job.phase # "Count" => job.index \in 1..job.limit
          /\ job.storing <=> job.phase \in Names

\* Two stages of a scan with the same results and the same summary.
SameTally(job, other) ==
    /\ job.results = other.results
    /\ job.inspected = other.inspected /\ job.found = other.found
    /\ job.count = other.count /\ job.truncated = other.truncated

\* The bounds of a scan, as the provers need them.
LEMMA BoundsAreNumbers ==
    /\ MostEntries \in Nat /\ MostEntries <= MaxCount /\ MostEntries <= MaxEntries
    /\ Capacity \in Nat /\ PropertyCapacity \in Nat /\ MaxCount \in Nat /\ MaxEntries \in Nat
    /\ MaxCount <= MaxEntries => MostEntries = MaxCount
    /\ MaxEntries <= MaxCount => MostEntries = MaxEntries
  BY LeastOfTwo, SessionReadsAssumption DEF MostEntries

\* A scan ends with what it has.
LEMMA EndedIsSound ==
    ASSUME NEW job \in ScanJobs, Len(job.results) <= Capacity, job.storing => job.results # <<>>,
           NEW status \in {"Complete", "Failed", "Cancelled"}
    PROVE  Sound(Ended(job, status)) /\ SameTally(Ended(job, status), job)
  <1>1. Ended(job, status) \in ScanJobs
    BY DEF Ended, ScanJobs, ScanStatuses
  <1>2. /\ Ended(job, status).results = job.results /\ Ended(job, status).storing = job.storing
        /\ Ended(job, status).status = status
        /\ SameTally(Ended(job, status), job)
    BY DEF Ended, ScanJobs, SameTally
  <1> QED BY <1>1, <1>2 DEF Sound

\* Nor does it ask for an entry past its limit;
LEMMA NextEntryIsSound ==
    ASSUME NEW job, Halfway(job), ~job.storing
    PROVE  Sound(NextEntry(job)) /\ SameTally(NextEntry(job), job)
  <1>1. CASE job.index > job.limit
    BY <1>1, EndedIsSound DEF NextEntry, Halfway
  <1>2. CASE ~(job.index > job.limit)
    <2>1. job.index \in 1..job.limit
      BY <1>2, BoundsAreNumbers DEF Halfway, ScanJobs
    <2>2. Sending(job, "Entry") \in ScanJobs
      BY DEF Sending, ScanJobs, Halfway
    <2>3. /\ SameTally(Sending(job, "Entry"), job) /\ Sending(job, "Entry").phase = "Entry"
          /\ Sending(job, "Entry").index = job.index /\ Sending(job, "Entry").limit = job.limit
          /\ Sending(job, "Entry").storing = job.storing
      BY DEF Sending, ScanJobs, SameTally, Halfway
    <2>4. Sound(Sending(job, "Entry"))
      BY <2>1, <2>2, <2>3 DEF Sound, Halfway, SameTally, Names
    <2> QED BY <1>2, <2>3, <2>4 DEF NextEntry
  <1> QED BY <1>1, <1>2

\* passing over an entry is as sound,
LEMMA PassOverIsSound ==
    ASSUME NEW job, Halfway(job), ~job.storing, job.index <= job.limit
    PROVE  Sound(PassOver(job)) /\ SameTally(PassOver(job), job)
  <1> DEFINE next == [job EXCEPT !.index = @ + 1]
  <1>1. job.index + 1 \in 0..(MostEntries + 1) /\ job.index + 1 # 0 /\ job.index + 1 <= job.limit + 1
    BY BoundsAreNumbers DEF Halfway, ScanJobs
  <1>2. next \in ScanJobs
    BY <1>1 DEF Halfway, ScanJobs
  <1>3. /\ next.index = job.index + 1 /\ next.limit = job.limit /\ next.storing = job.storing
        /\ next.status = job.status /\ SameTally(next, job)
    BY DEF Halfway, ScanJobs, SameTally
  <1>4. Halfway(next) /\ ~next.storing
    BY <1>1, <1>2, <1>3 DEF Halfway, SameTally
  <1> HIDE DEF next
  <1>5. Sound(NextEntry(next)) /\ SameTally(NextEntry(next), next)
    BY <1>4, NextEntryIsSound
  <1> QED BY <1>3, <1>5 DEF PassOver, SameTally, next

\* and so is going on with the properties of the object stored last.
LEMMA AdvanceIsSound ==
    ASSUME NEW job, Halfway(job)
    PROVE  Sound(Advance(job)) /\ SameTally(Advance(job), job)
  <1>1. CASE ~job.storing
    BY <1>1, NextEntryIsSound DEF Advance
  <1>2. CASE job.storing /\ Unread(job) # {}
    <2> DEFINE phase == PropertyOrder[Min(Unread(job))]
               next == Sending(job, phase)
    <2>1. phase \in Names
      BY <1>2, FirstUnread
    <2>2. Advance(job) = next
      BY <1>2 DEF Advance
    <2> HIDE DEF phase
    <2>3. next \in ScanJobs
      BY <2>1 DEF Sending, ScanJobs, Halfway
    <2>4. /\ SameTally(next, job) /\ next.phase = phase /\ next.index = job.index
          /\ next.limit = job.limit /\ next.storing = job.storing
      BY DEF Sending, ScanJobs, SameTally, Halfway
    <2>5. job.index \in 1..job.limit
      BY <1>2, BoundsAreNumbers DEF Halfway, ScanJobs
    <2> HIDE DEF next
    <2>6. Sound(next)
      BY <1>2, <2>1, <2>3, <2>4, <2>5 DEF Sound, Halfway, SameTally, Names
    <2> QED BY <2>2, <2>4, <2>6
  <1>3. CASE job.storing /\ Unread(job) = {}
    <2> DEFINE next == [job EXCEPT !.storing = FALSE]
    <2>1. next \in ScanJobs
      BY DEF ScanJobs, Halfway
    <2>2. /\ SameTally(next, job) /\ next.index = job.index /\ next.limit = job.limit
          /\ next.storing = FALSE /\ next.status = job.status
      BY DEF ScanJobs, SameTally, Halfway
    <2>3. Advance(job) = PassOver(next)
      BY <1>3 DEF Advance
    <2> HIDE DEF next
    <2>4. Halfway(next) /\ next.index <= next.limit
      BY <1>3, <2>1, <2>2 DEF Halfway, SameTally
    <2>5. Sound(PassOver(next)) /\ SameTally(PassOver(next), next)
      BY <2>2, <2>4, PassOverIsSound
    <2> QED BY <2>2, <2>3, <2>5 DEF SameTally
  <1> QED BY <1>1, <1>2, <1>3

-----------------------------------------------------------------------------
\* What the device answered and what the scan makes of it.

Accepted(seen) == {k \in DOMAIN seen : IsAccepted(seen[k])}

Rank(seen, k) == Cardinality({j \in Accepted(seen) : j <= k})

Tallied(job, seen) ==
    /\ Len(job.results) = Min({Capacity, Cardinality(Accepted(seen))})
    /\ \A k \in Accepted(seen) :
          Rank(seen, k) <= Capacity => job.results[Rank(seen, k)].object = seen[k].is
    /\ job.inspected = Len(seen) /\ job.found = Cardinality(Accepted(seen))
    /\ job.truncated <=> job.count > MaxEntries \/ Cardinality(Accepted(seen)) > Capacity

\* The entries that are accepted are counted, and each has its place.
LEMMA AcceptedAreCounted ==
    ASSUME NEW S, NEW seen \in Seq(S)
    PROVE  /\ IsFiniteSet(Accepted(seen)) /\ Cardinality(Accepted(seen)) \in Nat
           /\ \A k \in Accepted(seen) : Rank(seen, k) \in 1..Cardinality(Accepted(seen))
  <1>1. Accepted(seen) \subseteq 1..Len(seen) /\ Len(seen) \in Nat
    BY DEF Accepted
  <1>2. IsFiniteSet(Accepted(seen))
    <2>1. IsFiniteSet(1..Len(seen))
      BY <1>1, FS_Interval
    <2> QED BY <1>1, <2>1, FS_Subset
  <1>3. Cardinality(Accepted(seen)) \in Nat
    BY <1>2, FS_CardinalityType
  <1>4. ASSUME NEW k \in Accepted(seen) PROVE Rank(seen, k) \in 1..Cardinality(Accepted(seen))
    <2> DEFINE upTo == {j \in Accepted(seen) : j <= k}
    <2>1. upTo \subseteq Accepted(seen) /\ k \in upTo
      BY <1>1
    <2>2. /\ IsFiniteSet(upTo) /\ Cardinality(upTo) \in Nat
          /\ Cardinality(upTo) <= Cardinality(Accepted(seen))
      BY <1>2, <2>1, FS_Subset, FS_CardinalityType
    <2>3. Cardinality(upTo) # 0
      BY <2>1, <2>2, FS_EmptySet
    <2> QED BY <1>3, <2>2, <2>3 DEF Rank
  <1> QED BY <1>2, <1>3, <1>4

\* What one more answer makes of a list of answers.
LEMMA OneMoreSeen ==
    ASSUME NEW S, NEW seen \in Seq(S), NEW v \in S
    PROVE  /\ DOMAIN Append(seen, v) = (DOMAIN seen) \cup {Len(seen) + 1}
           /\ Append(seen, v)[Len(seen) + 1] = v
           /\ \A k \in DOMAIN seen : Append(seen, v)[k] = seen[k] /\ k \in Int /\ k < Len(seen) + 1
           /\ Len(seen) \in Nat /\ Len(Append(seen, v)) = Len(seen) + 1
  OBVIOUS

\* An entry that is not accepted changes nothing of that.
LEMMA PassedOverSeen ==
    ASSUME NEW S, NEW seen \in Seq(S), NEW v \in S, ~IsAccepted(v)
    PROVE  /\ Accepted(Append(seen, v)) = Accepted(seen)
           /\ \A k \in Accepted(seen) : Rank(Append(seen, v), k) = Rank(seen, k)
           /\ \A k \in Accepted(seen) : Append(seen, v)[k] = seen[k]
  <1>1. Accepted(Append(seen, v)) = Accepted(seen)
    BY OneMoreSeen DEF Accepted
  <1> QED BY <1>1, OneMoreSeen DEF Rank, Accepted

\* One that is gets the next place.
LEMMA AcceptedSeen ==
    ASSUME NEW S, NEW seen \in Seq(S), NEW v \in S, IsAccepted(v)
    PROVE  /\ Accepted(Append(seen, v)) = Accepted(seen) \cup {Len(seen) + 1}
           /\ Cardinality(Accepted(Append(seen, v))) = Cardinality(Accepted(seen)) + 1
           /\ \A k \in Accepted(seen) : Rank(Append(seen, v), k) = Rank(seen, k)
           /\ \A k \in Accepted(seen) : Append(seen, v)[k] = seen[k]
           /\ Rank(Append(seen, v), Len(seen) + 1) = Cardinality(Accepted(seen)) + 1
           /\ Append(seen, v)[Len(seen) + 1] = v
  <1> DEFINE last == Len(seen) + 1
             all == Accepted(Append(seen, v))
  <1>1. all = Accepted(seen) \cup {last} /\ last \notin Accepted(seen)
    BY OneMoreSeen DEF Accepted
  <1>2. Cardinality(all) = Cardinality(Accepted(seen)) + 1
    BY <1>1, AcceptedAreCounted, FS_AddElement
  <1>3. \A j \in all : j \in Int /\ j <= last
    BY <1>1, OneMoreSeen DEF Accepted
  <1>4. {j \in all : j <= last} = all
    BY <1>3
  <1>5. ASSUME NEW k \in Accepted(seen)
        PROVE  {j \in all : j <= k} = {j \in Accepted(seen) : j <= k}
    <2>1. k \in Int /\ ~(last <= k)
      BY OneMoreSeen DEF Accepted
    <2> QED BY <1>1, <2>1
  <1>6. \A k \in Accepted(seen) : Append(seen, v)[k] = seen[k]
    BY OneMoreSeen DEF Accepted
  <1>7. Append(seen, v)[last] = v
    BY OneMoreSeen
  <1>8. Rank(Append(seen, v), last) = Cardinality(Accepted(seen)) + 1
    BY <1>2, <1>4 DEF Rank
  <1>9. \A k \in Accepted(seen) : Rank(Append(seen, v), k) = Rank(seen, k)
    BY <1>5 DEF Rank
  <1> QED BY <1>1, <1>2, <1>6, <1>7, <1>8, <1>9

\* The same results and the same summary stay in step with the same answers.
LEMMA SameTallyIsTallied ==
    ASSUME NEW job, NEW other, NEW seen, Tallied(job, seen), SameTally(other, job)
    PROVE  Tallied(other, seen)
  BY DEF Tallied, SameTally

\* What may come of a request.
LEMMA OutcomeFacts ==
    ASSUME NEW request \in Requests, NEW outcome \in Outcomes(request) \cup {Refused}
    PROVE  /\ outcome.status \in ReadStatuses
           /\ Coarse(outcome.status) \in DeviceStatuses
           /\ outcome.value \in Values \cup {NoValue}
           /\ outcome.status = "Ack" => outcome.value \in ValueOf[request]
           /\ Coarse(outcome.status) = "Ack" =>
                 outcome.value \in ValueOf[request] \/ outcome.value = NoText
  <1>1. CASE outcome \in [status : {"Ack"}, value : ValueOf[request]]
    <2>1. outcome.status = "Ack" /\ outcome.value \in ValueOf[request] /\ ValueOf[request] \subseteq Values
      BY <1>1, SessionReadsAssumption
    <2> QED BY <2>1 DEF ReadStatuses, DeviceStatuses, Coarse
  <1>2. CASE outcome \in {[status |-> Classified(f, request), value |-> NoText] : f \in Failures}
    <2>1. PICK f \in Failures : outcome = [status |-> Classified(f, request), value |-> NoText]
      BY <1>2
    <2>2. f \in {"empty", "unsupported", "unknownProperty", "invalidArrayIndex", "error",
                 "reject", "abort", "undecodable"}
      BY SessionReadsAssumption
    <2>3. Classified(f, request) \in {"EmptyValue", "UnsupportedDatatype", "UnsupportedProperty",
              "ArrayIndexNotSupported", "Error", "Reject", "Abort", "DecodeError"}
      BY <2>2 DEF Classified
    <2>4. outcome.status = Classified(f, request) /\ outcome.value = NoText
      BY <2>1
    <2> QED BY <2>3, <2>4, SessionReadsAssumption DEF ReadStatuses, DeviceStatuses, Coarse
  <1>3. CASE outcome = [status |-> "Timeout", value |-> NoValue] \/ outcome = Refused
    <2>1. outcome.status \in {"Timeout", "SendFailed"} /\ outcome.value = NoValue
      BY <1>3 DEF Refused
    <2> QED BY <2>1 DEF ReadStatuses, DeviceStatuses, Coarse
  <1> QED BY <1>1, <1>2, <1>3 DEF Outcomes

-----------------------------------------------------------------------------
\* Each answer leaves the scan sound, and in step with what was answered.

\* The answer to the first request, the length of the list,
LEMMA CountIsSound ==
    ASSUME NEW job, Sound(job), job.status = "Active", job.phase = "Count", Tallied(job, <<>>),
           NEW outcome, Coarse(outcome.status) \in DeviceStatuses,
           Coarse(outcome.status) = "Ack" /\ outcome.value.type = "Unsigned" =>
               outcome.value.is \in 0..MaxCount
    PROVE  Sound(CountAnswered(job, outcome)) /\ Tallied(CountAnswered(job, outcome), <<>>)
  <1> DEFINE counted == [job EXCEPT !.countStatus = Coarse(outcome.status)]
             next == [counted EXCEPT !.count = outcome.value.is, !.index = 1,
                                     !.limit = Min({outcome.value.is, MaxEntries}),
                                     !.truncated = outcome.value.is > MaxEntries]
  <1>1. counted \in ScanJobs
    BY DEF ScanJobs, Sound
  <1>2. /\ SameTally(counted, job) /\ counted.status = "Active" /\ ~counted.storing
        /\ Coarse(outcome.status) = counted.countStatus
    BY DEF ScanJobs, Sound, SameTally, Names
  <1>3. Accepted(<<>>) = {} /\ Cardinality({}) = 0
    BY FS_EmptySet DEF Accepted
  <1>4. Len(job.results) = 0
    <2>1. Min({Capacity, 0}) = 0
      BY LeastOfTwo, BoundsAreNumbers
    <2> QED BY <1>3, <2>1 DEF Tallied
  <1>5. Len(job.results) <= Capacity
    BY DEF Sound
  <1>6. CASE counted.countStatus # "Ack" \/ outcome.value.type # "Unsigned"
    <2>1. Sound(Ended(counted, "Failed")) /\ SameTally(Ended(counted, "Failed"), counted)
      BY <1>1, <1>2, <1>5, EndedIsSound DEF SameTally
    <2>2. Tallied(Ended(counted, "Failed"), <<>>)
      BY <1>2, <2>1, SameTallyIsTallied DEF SameTally
    <2> QED BY <1>6, <2>1, <2>2 DEF CountAnswered
  <1>7. CASE ~(counted.countStatus # "Ack" \/ outcome.value.type # "Unsigned")
    <2> DEFINE n == outcome.value.is
    <2>1. n \in 0..MaxCount
      BY <1>2, <1>7
    <2>2. /\ Min({n, MaxEntries}) \in 0..MostEntries
          /\ (n > MaxEntries) \in BOOLEAN /\ 1 \in 0..(MostEntries + 1)
      BY <2>1, LeastOfTwo, BoundsAreNumbers
    <2>3. CountAnswered(job, outcome) = Advance(next)
      BY <1>7 DEF CountAnswered
    <2> HIDE DEF counted
    <2>4. next \in ScanJobs
      BY <1>1, <2>1, <2>2 DEF ScanJobs
    <2>5. /\ next.results = counted.results /\ next.inspected = counted.inspected
          /\ next.found = counted.found /\ next.count = n /\ next.truncated = (n > MaxEntries)
          /\ next.index = 1 /\ next.limit = Min({n, MaxEntries})
          /\ next.storing = counted.storing /\ next.status = counted.status
      BY <1>1 DEF ScanJobs
    <2> HIDE DEF next
    <2>6. Halfway(next)
      BY <1>2, <1>5, <2>2, <2>4, <2>5 DEF Halfway, SameTally
    <2>7. Tallied(next, <<>>)
      <3>1. ~(Cardinality(Accepted(<<>>)) > Capacity)
        <4>1. Capacity \in Nat /\ ~(0 > Capacity)
          BY SessionReadsAssumption
        <4> QED BY <1>3, <4>1
      <3>2. /\ next.results = job.results /\ next.inspected = job.inspected
            /\ next.found = job.found /\ next.truncated = (next.count > MaxEntries)
        BY <1>2, <2>5 DEF SameTally
      <3> QED BY <1>3, <3>1, <3>2 DEF Tallied
    <2>8. Sound(Advance(next)) /\ SameTally(Advance(next), next)
      BY <2>6, AdvanceIsSound
    <2> QED BY <2>3, <2>7, <2>8, SameTallyIsTallied
  <1> QED BY <1>6, <1>7

\* the answer to the request of an entry,
LEMMA EntryIsSound ==
    ASSUME NEW job, Sound(job), job.status = "Active", job.phase = "Entry",
           NEW seen \in Seq(Values), Tallied(job, seen),
           NEW outcome, Coarse(outcome.status) = "Ack" => outcome.value \in Values,
           Coarse(outcome.status) = "Ack" /\ IsAccepted(outcome.value) =>
               outcome.value.is \in Objects
    PROVE  /\ Sound(EntryAnswered(job, outcome))
           /\ Tallied(EntryAnswered(job, outcome),
                      IF Coarse(outcome.status) = "Ack" THEN Append(seen, outcome.value) ELSE seen)
  <1> DEFINE v     == outcome.value
             count == Cardinality(Accepted(seen))
             more  == Append(seen, v)
             step  == [job EXCEPT !.inspected = @ + 1]
             hit   == [step EXCEPT !.found = @ + 1]
  <1>1. /\ job \in ScanJobs /\ Len(job.results) <= Capacity
        /\ job.storing => job.results # <<>>
        /\ job.index # 0 /\ job.index <= job.limit
    BY BoundsAreNumbers DEF Sound, ScanJobs, Names
  <1>2. CASE Coarse(outcome.status) # "Ack"
    <2>1. Sound(Ended(job, "Complete")) /\ SameTally(Ended(job, "Complete"), job)
      BY <1>1, EndedIsSound DEF Sound
    <2> QED BY <1>2, <2>1, SameTallyIsTallied DEF EntryAnswered
  <1>3. step \in ScanJobs /\ hit \in ScanJobs
    <2>1. job \in ScanJobs
      BY <1>1
    <2>2. job.inspected + 1 \in Nat /\ job.found + 1 \in Nat
      BY <2>1 DEF ScanJobs
    <2>3. step \in ScanJobs
      BY <2>1, <2>2 DEF ScanJobs
    <2>4. step.found = job.found
      BY <2>1 DEF ScanJobs
    <2> HIDE DEF step
    <2>5. hit \in ScanJobs
      BY <2>2, <2>3, <2>4 DEF ScanJobs
    <2> QED BY <2>3, <2>5
  <1>4. /\ step.results = job.results /\ step.inspected = job.inspected + 1 /\ step.found = job.found
        /\ step.count = job.count /\ step.truncated = job.truncated /\ step.index = job.index
        /\ step.limit = job.limit /\ step.storing = job.storing /\ step.status = job.status
        /\ hit.results = job.results /\ hit.inspected = job.inspected + 1
        /\ hit.found = job.found + 1
        /\ hit.count = job.count /\ hit.truncated = job.truncated /\ hit.index = job.index
        /\ hit.limit = job.limit /\ hit.storing = job.storing /\ hit.status = job.status
    BY <1>1 DEF ScanJobs
  <1>5. ~job.storing /\ job.index <= job.limit + 1
    BY <1>1, BoundsAreNumbers DEF Sound, Names, ScanJobs
  <1>6. /\ count \in Nat /\ Len(seen) \in Nat
        /\ \A k \in Accepted(seen) : Rank(seen, k) \in 1..count
        /\ Len(job.results) = (IF Capacity <= count THEN Capacity ELSE count)
    BY AcceptedAreCounted, LeastOfTwo, BoundsAreNumbers DEF Tallied
  <1> HIDE DEF step, hit
  <1>7. CASE Coarse(outcome.status) = "Ack" /\ ~IsAccepted(v)
    <2>1. Halfway(step)
      BY <1>1, <1>3, <1>4, <1>5 DEF Halfway, Sound
    <2>2. Tallied(step, more)
      <3>1. v \in Values
        BY <1>7
      <3>2. /\ Accepted(more) = Accepted(seen)
            /\ \A k \in Accepted(seen) : Rank(more, k) = Rank(seen, k) /\ more[k] = seen[k]
        BY <1>7, <3>1, PassedOverSeen
      <3>3. Len(more) = Len(seen) + 1
        BY <3>1, OneMoreSeen
      <3> HIDE DEF more
      <3> QED BY <1>4, <3>2, <3>3 DEF Tallied
    <2>3. Sound(PassOver(step)) /\ SameTally(PassOver(step), step)
      BY <1>1, <1>4, <1>5, <2>1, PassOverIsSound
    <2>4. EntryAnswered(job, outcome) = PassOver(step)
      BY <1>7 DEF EntryAnswered, step
    <2> QED BY <1>7, <2>2, <2>3, <2>4, SameTallyIsTallied
  <1>8. CASE Coarse(outcome.status) = "Ack" /\ IsAccepted(v) /\ Len(job.results) >= Capacity
    <2> DEFINE cut == [hit EXCEPT !.truncated = TRUE]
    <2>1. cut \in ScanJobs
      BY <1>3 DEF ScanJobs
    <2>2. /\ cut.results = job.results /\ cut.inspected = job.inspected + 1
          /\ cut.found = job.found + 1 /\ cut.truncated = TRUE /\ cut.count = job.count
          /\ cut.index = job.index /\ cut.limit = job.limit
          /\ cut.storing = job.storing /\ cut.status = job.status
      BY <1>3, <1>4 DEF ScanJobs
    <2>3. EntryAnswered(job, outcome) = PassOver(cut)
      BY <1>8 DEF EntryAnswered, hit, step
    <2> HIDE DEF cut
    <2>4. Halfway(cut)
      BY <1>1, <1>5, <2>1, <2>2 DEF Halfway, Sound
    <2>5. count >= Capacity /\ Min({Capacity, count + 1}) = Capacity
      BY <1>6, <1>8, LeastOfTwo, BoundsAreNumbers
    <2>6. Tallied(cut, more)
      <3>1. /\ Accepted(more) = Accepted(seen) \cup {Len(seen) + 1}
            /\ Cardinality(Accepted(more)) = count + 1
            /\ Rank(more, Len(seen) + 1) = count + 1
            /\ \A k \in Accepted(seen) : Rank(more, k) = Rank(seen, k) /\ more[k] = seen[k]
            /\ Len(more) = Len(seen) + 1
        <4>1. v \in Values
          BY <1>8
        <4>2. /\ Accepted(more) = Accepted(seen) \cup {Len(seen) + 1}
              /\ Cardinality(Accepted(more)) = count + 1
              /\ Rank(more, Len(seen) + 1) = count + 1
          BY <1>8, <4>1, AcceptedSeen
        <4>3. \A k \in Accepted(seen) : Rank(more, k) = Rank(seen, k)
          BY <1>8, <4>1, AcceptedSeen
        <4>4. \A k \in Accepted(seen) : more[k] = seen[k]
          BY <4>1, OneMoreSeen DEF Accepted
        <4>5. Len(more) = Len(seen) + 1 /\ more[Len(seen) + 1] = v
          BY <4>1, OneMoreSeen
        <4> HIDE DEF more, count, v
        <4> QED BY <4>2, <4>3, <4>4, <4>5
      <3>2. Len(cut.results) = Min({Capacity, Cardinality(Accepted(more))})
        BY <1>6, <2>2, <2>5, <3>1, BoundsAreNumbers
      <3>3. ASSUME NEW k \in Accepted(more), Rank(more, k) <= Capacity
            PROVE  cut.results[Rank(more, k)].object = more[k].is
        <4>1. k \in Accepted(seen)
          BY <1>6, <2>5, <3>1, <3>3, BoundsAreNumbers
        <4> QED BY <2>2, <3>1, <3>3, <4>1 DEF Tallied
      <3>4. Cardinality(Accepted(more)) > Capacity
        BY <1>6, <2>5, <3>1, BoundsAreNumbers
      <3> QED BY <2>2, <3>1, <3>2, <3>3, <3>4 DEF Tallied
    <2>7. Sound(PassOver(cut)) /\ SameTally(PassOver(cut), cut)
      BY <1>1, <1>5, <2>2, <2>4, PassOverIsSound
    <2> QED BY <1>8, <2>3, <2>6, <2>7, SameTallyIsTallied
  <1>9. CASE Coarse(outcome.status) = "Ack" /\ IsAccepted(v) /\ ~(Len(job.results) >= Capacity)
    <2> DEFINE fresh == Unscanned(v.is)
               next  == [hit EXCEPT !.storing = TRUE, !.results = Append(@, fresh)]
    <2>1. fresh \in Results /\ fresh.object = v.is
      BY <1>9, NamesInOrder DEF Unscanned, Results, DeviceStatuses
    <2>2. EntryAnswered(job, outcome) = Advance(next)
      BY <1>9 DEF EntryAnswered, hit, step
    <2> HIDE DEF fresh
    <2>3. /\ job.results \in Seq(Results) /\ Append(job.results, fresh) \in Seq(Results)
          /\ Len(Append(job.results, fresh)) = Len(job.results) + 1
          /\ \A k \in 1..Len(job.results) : Append(job.results, fresh)[k] = job.results[k]
          /\ Append(job.results, fresh)[Len(job.results) + 1] = fresh
          /\ Append(job.results, fresh) # <<>>
      <3>1. job \in ScanJobs
        BY <1>1
      <3>2. job.results \in Seq(Results)
        BY <3>1 DEF ScanJobs
      <3> QED BY <2>1, <3>2
    <2>4. next \in ScanJobs
      BY <1>3, <1>4, <2>3 DEF ScanJobs
    <2>5. /\ next.results = Append(job.results, fresh) /\ next.inspected = job.inspected + 1
          /\ next.found = job.found + 1 /\ next.truncated = job.truncated
          /\ next.count = job.count /\ next.index = job.index /\ next.limit = job.limit
          /\ next.storing = TRUE /\ next.status = job.status
      BY <1>3, <1>4 DEF ScanJobs
    <2> HIDE DEF next
    <2>6. /\ count < Capacity /\ Len(job.results) = count
          /\ Min({Capacity, count + 1}) = count + 1
      BY <1>6, <1>9, LeastOfTwo, BoundsAreNumbers
    <2>7. Halfway(next)
      BY <1>1, <1>5, <1>6, <2>3, <2>4, <2>5, <2>6, BoundsAreNumbers DEF Halfway
    <2>8. Tallied(next, more)
      <3>1. /\ Accepted(more) = Accepted(seen) \cup {Len(seen) + 1}
            /\ Cardinality(Accepted(more)) = count + 1
            /\ Rank(more, Len(seen) + 1) = count + 1
            /\ \A k \in Accepted(seen) : Rank(more, k) = Rank(seen, k) /\ more[k] = seen[k]
            /\ Len(more) = Len(seen) + 1 /\ more[Len(seen) + 1] = v
        <4>1. v \in Values
          BY <1>9
        <4>2. /\ Accepted(more) = Accepted(seen) \cup {Len(seen) + 1}
              /\ Cardinality(Accepted(more)) = count + 1
              /\ Rank(more, Len(seen) + 1) = count + 1
          BY <1>9, <4>1, AcceptedSeen
        <4>3. \A k \in Accepted(seen) : Rank(more, k) = Rank(seen, k)
          BY <1>9, <4>1, AcceptedSeen
        <4>4. \A k \in Accepted(seen) : more[k] = seen[k]
          BY <4>1, OneMoreSeen DEF Accepted
        <4>5. Len(more) = Len(seen) + 1 /\ more[Len(seen) + 1] = v
          BY <4>1, OneMoreSeen
        <4> HIDE DEF more, count, v
        <4> QED BY <4>2, <4>3, <4>4, <4>5
      <3>2. Len(next.results) = Min({Capacity, Cardinality(Accepted(more))})
        BY <2>3, <2>5, <2>6, <3>1
      <3>3. ASSUME NEW k \in Accepted(more), Rank(more, k) <= Capacity
            PROVE  next.results[Rank(more, k)].object = more[k].is
        <4>1. CASE k = Len(seen) + 1
          BY <2>1, <2>3, <2>5, <2>6, <3>1, <4>1
        <4>2. CASE k \in Accepted(seen)
          <5>1. Rank(seen, k) \in 1..Len(job.results) /\ Rank(more, k) = Rank(seen, k)
            BY <1>6, <2>6, <3>1, <4>2
          <5>2. job.results[Rank(seen, k)].object = seen[k].is
            BY <3>3, <4>2, <5>1 DEF Tallied
          <5> QED BY <2>3, <2>5, <3>1, <4>2, <5>1, <5>2
        <4> QED BY <3>1, <4>1, <4>2
      <3>4. ~(count > Capacity) /\ ~(Cardinality(Accepted(more)) > Capacity)
        BY <1>6, <2>6, <3>1, BoundsAreNumbers
      <3> QED BY <2>5, <3>1, <3>2, <3>3, <3>4 DEF Tallied
    <2>9. Sound(Advance(next)) /\ SameTally(Advance(next), next)
      BY <2>7, AdvanceIsSound
    <2> QED BY <1>9, <2>2, <2>8, <2>9, SameTallyIsTallied
  <1> QED BY <1>2, <1>7, <1>8, <1>9

\* and the answer to the request of a property of the object stored last.
LEMMA PropertyIsSound ==
    ASSUME NEW job, Sound(job), job.status = "Active", job.phase \in Names,
           NEW seen \in Seq(Values), Tallied(job, seen),
           NEW outcome, Coarse(outcome.status) \in DeviceStatuses
    PROVE  Sound(PropertyAnswered(job, outcome)) /\ Tallied(PropertyAnswered(job, outcome), seen)
  <1> DEFINE n    == Len(job.results)
             c    == Coarse(outcome.status)
             done == [job.results EXCEPT ![n].got[job.phase] = c]
             next == [job EXCEPT !.results[Len(job.results)].got[job.phase] = c]
  <1>1. /\ job \in ScanJobs /\ Len(job.results) <= Capacity /\ job.results # <<>>
        /\ job.storing /\ job.index \in 1..job.limit
    BY DEF Sound, Names
  <1>2. job.results \in Seq(Results) /\ n \in DOMAIN job.results /\ job.results[n] \in Results
    <2>1. job.results \in Seq(Results)
      BY <1>1 DEF ScanJobs
    <2> QED BY <1>1, <2>1
  <1> HIDE DEF n, c
  <1>3. /\ done \in Seq(Results) /\ Len(done) = Len(job.results) /\ DOMAIN done = DOMAIN job.results
        /\ \A k \in DOMAIN done : done[k].object = job.results[k].object
    <2>1. [job.results[n] EXCEPT !.got[job.phase] = c] \in Results
      BY <1>2 DEF Results, c
    <2>2. done = [job.results EXCEPT ![n] = [job.results[n] EXCEPT !.got[job.phase] = c]]
      BY <1>2
    <2>3. [job.results[n] EXCEPT !.got[job.phase] = c].object = job.results[n].object
      BY <1>2 DEF Results
    <2> QED BY <1>2, <2>1, <2>2, <2>3
  <1>4. next = [job EXCEPT !.results = done]
    BY <1>1 DEF ScanJobs, n
  <1> HIDE DEF done
  <1>5. next \in ScanJobs
    BY <1>1, <1>3, <1>4 DEF ScanJobs
  <1>6. /\ next.results = done /\ next.inspected = job.inspected /\ next.found = job.found
        /\ next.count = job.count /\ next.truncated = job.truncated /\ next.index = job.index
        /\ next.limit = job.limit /\ next.storing = job.storing /\ next.status = job.status
    BY <1>1, <1>4 DEF ScanJobs
  <1>7. PropertyAnswered(job, outcome) = Advance(next)
    BY DEF PropertyAnswered, c
  <1> HIDE DEF next
  <1>8. Halfway(next)
    <2>1. done # <<>>
      BY <1>1, <1>3
    <2>2. job.index # 0 /\ job.index <= job.limit /\ job.index <= job.limit + 1
      BY <1>1, BoundsAreNumbers DEF ScanJobs
    <2> QED BY <1>1, <1>3, <1>5, <1>6, <2>1, <2>2 DEF Halfway
  <1>9. Tallied(next, seen)
    <2>1. ASSUME NEW k \in Accepted(seen), Rank(seen, k) <= Capacity
          PROVE  done[Rank(seen, k)].object = seen[k].is
      <3>1. Rank(seen, k) \in 1..Len(job.results)
        BY <2>1, AcceptedAreCounted, LeastOfTwo, BoundsAreNumbers DEF Tallied
      <3>2. Rank(seen, k) \in DOMAIN done
        BY <1>2, <1>3, <3>1
      <3> QED BY <1>3, <2>1, <3>2 DEF Tallied
    <2> QED BY <1>3, <1>6, <2>1 DEF Tallied
  <1>10. Sound(Advance(next)) /\ SameTally(Advance(next), next)
    BY <1>8, AdvanceIsSound
  <1> QED BY <1>7, <1>9, <1>10, SameTallyIsTallied

-----------------------------------------------------------------------------
\* The invariant of scans: the scan is sound and tells what was answered.
ScanInv ==
    /\ Sound(scan) /\ entries \in Seq(Values)
    /\ scan.status # "Idle" => Tallied(scan, entries)

\* The request that an active scan waits for.
LEMMA ScanAsks ==
    ASSUME Sound(scan), scan.status = "Active"
    PROVE  /\ ScanRequest \in Requests
           /\ scan.phase = "Count" => ScanRequest.property = "objectList" /\ ScanRequest.index = 0
           /\ scan.phase = "Entry" => ScanRequest.property = "objectList"
  <1>1. scan \in ScanJobs /\ SessionRequests \subseteq Requests
    BY SessionReadsAssumption DEF Sound
  <1>2. CASE scan.phase = "Count"
    <2>1. ScanRequest = ListEntry(Device, "objectList", 0)
      BY <1>2 DEF ScanRequest
    <2>2. ListEntry(Device, "objectList", 0) \in SessionRequests
      BY BoundsAreNumbers DEF SessionRequests
    <2> QED BY <1>1, <1>2, <2>1, <2>2 DEF ListEntry
  <1>3. CASE scan.phase = "Entry"
    <2>1. ScanRequest = ListEntry(Device, "objectList", scan.index)
      BY <1>3 DEF ScanRequest
    <2>2. scan.index \in 0..MaxCount
      BY <1>1, <1>3, BoundsAreNumbers DEF Sound, ScanJobs
    <2>3. ListEntry(Device, "objectList", scan.index) \in SessionRequests
      BY <2>2 DEF SessionRequests
    <2> QED BY <1>1, <1>3, <2>1, <2>3 DEF ListEntry
  <1>4. CASE scan.phase \in Names
    <2>1. ScanRequest = Property(Last(scan.results).object, scan.phase)
      BY <1>4 DEF ScanRequest, Names
    <2>2. scan.results \in Seq(Results) /\ scan.results # <<>>
      BY <1>1, <1>4 DEF Sound, ScanJobs
    <2>3. Last(scan.results) \in Results
      BY <2>2 DEF Last
    <2>4. PICK k \in 1..3 : scan.phase = PropertyOrder[k]
      BY <1>4 DEF Names, PropertyOrder
    <2>5. Last(scan.results).object \in Objects
      BY <2>3 DEF Results
    <2>6. Property(Last(scan.results).object, scan.phase) \in SessionRequests
      BY <2>4, <2>5 DEF SessionRequests
    <2> QED BY <1>1, <1>4, <2>1, <2>6 DEF Names
  <1> QED BY <1>1, <1>2, <1>3, <1>4 DEF ScanJobs

\* Whatever the outcome of that request, the scan stays sound and in step.
LEMMA FinishKeepsScan ==
    ASSUME ScanInv, scan.status = "Active",
           NEW outcome \in Outcomes(ScanRequest) \cup {Refused}, FinishScanRead(outcome)
    PROVE  ScanInv'
  <1> DEFINE v == outcome.value
             c == Coarse(outcome.status)
  <1>1. /\ ScanRequest \in Requests
        /\ scan.phase = "Count" => ScanRequest.property = "objectList" /\ ScanRequest.index = 0
        /\ scan.phase = "Entry" => ScanRequest.property = "objectList"
    BY ScanAsks DEF ScanInv
  <1>2. c \in DeviceStatuses /\ (c = "Ack" => v \in ValueOf[ScanRequest] \/ v = NoText)
    BY <1>1, OutcomeFacts
  <1>3. NoText.type = "Empty" /\ NoText \in Values
    BY SessionReadsAssumption DEF NoText, Typed
  <1>4. scan' = Answered(scan, outcome)
        /\ entries' = IF scan.phase = "Entry" /\ c = "Ack" THEN Append(entries, v) ELSE entries
    BY DEF FinishScanRead
  <1>5. scan.phase \in {"Count", "Entry"} \cup Names /\ Tallied(scan, entries)
    BY DEF ScanInv, Sound, ScanJobs
  <1>6. c = "Ack" => v \in Values
    BY <1>1, <1>2, <1>3, SessionReadsAssumption
  <1>7. CASE scan.phase = "Count"
    <2>1. entries = <<>>
      BY <1>5, <1>7 DEF ScanInv, Sound, Tallied
    <2>2. c = "Ack" /\ v.type = "Unsigned" => v.is \in 0..MaxCount
      BY <1>1, <1>2, <1>3, <1>7, ListsAssumption
    <2>3. Answered(scan, outcome) = CountAnswered(scan, outcome)
      BY <1>7 DEF Answered
    <2>4. Sound(CountAnswered(scan, outcome)) /\ Tallied(CountAnswered(scan, outcome), <<>>)
      BY <1>2, <1>5, <1>7, <2>1, <2>2, CountIsSound DEF ScanInv
    <2> QED BY <1>4, <1>7, <2>1, <2>3, <2>4 DEF ScanInv
  <1>8. CASE scan.phase = "Entry"
    <2>1. c = "Ack" /\ IsAccepted(v) => v.is \in Objects
      BY <1>1, <1>2, <1>3, <1>8, ListsAssumption DEF IsAccepted
    <2>2. Answered(scan, outcome) = EntryAnswered(scan, outcome)
      BY <1>8 DEF Answered
    <2>3. /\ Sound(EntryAnswered(scan, outcome))
          /\ Tallied(EntryAnswered(scan, outcome), entries')
      BY <1>4, <1>5, <1>6, <1>8, <2>1, EntryIsSound DEF ScanInv
    <2>4. entries' \in Seq(Values)
      BY <1>4, <1>6 DEF ScanInv
    <2> QED BY <1>4, <2>2, <2>3, <2>4 DEF ScanInv
  <1>9. CASE scan.phase \in Names
    <2>1. Answered(scan, outcome) = PropertyAnswered(scan, outcome) /\ scan.phase # "Entry"
      BY <1>9 DEF Answered, Names
    <2>2. /\ Sound(PropertyAnswered(scan, outcome))
          /\ Tallied(PropertyAnswered(scan, outcome), entries)
      BY <1>2, <1>5, <1>9, PropertyIsSound DEF ScanInv
    <2> QED BY <1>4, <2>1, <2>2 DEF ScanInv
  <1> QED BY <1>5, <1>7, <1>8, <1>9

-----------------------------------------------------------------------------
\* The operations that block.

TaskKinds == {"None", "List", "All", "Advertised", "PriorityArray", "Write"}

PropertyNames == {r.property : r \in Requests}

MostListed == Max({PropertyCapacity, Len(Wanted)})

Tasks ==
    [op : TaskKinds, object : Objects \cup {Device}, stage : {"Count", "Entry", "Read", "Done"},
     advertised : 0..MaxCount, listed : Seq(PropertyNames), results : Seq(Statuses),
     status : Statuses]

\* Within its buffers, of an object whose listed properties can be read.
Within(job) ==
    /\ job \in Tasks /\ job.object \in Objects
    /\ Len(job.listed) <= MostListed /\ Len(job.results) <= Capacity
    /\ \A k \in DOMAIN job.listed : Property(job.object, job.listed[k]) \in Requests

\* What a blocking operation asks for next is there to be asked for.
TaskSound(job) ==
    /\ job \in Tasks
    /\ Len(job.listed) <= MostListed /\ Len(job.results) <= Capacity
    /\ job.op # "None" /\ job.stage # "Done" =>
          /\ Within(job)
          /\ job.stage = "Entry" => Len(job.listed) < Min({job.advertised, PropertyCapacity})
          /\ job.stage = "Read" => Len(job.results) < Min({Len(job.listed), Capacity})

\* The bounds of a blocking operation.
LEMMA ListBounds ==
    /\ Len(Wanted) \in Nat /\ MostListed \in Nat /\ PropertyCapacity <= MostListed
    /\ Len(Wanted) <= MostListed /\ Capacity \in Nat /\ PropertyCapacity \in Nat
  <1>1. Len(Wanted) \in Nat
    BY SessionReadsAssumption
  <1> QED BY <1>1, MostOfTwo, SessionReadsAssumption DEF MostListed

\* Going on with the reads stays within the buffer and the list,
LEMMA ReadNextIsSound ==
    ASSUME NEW job, Within(job)
    PROVE  TaskSound(ReadNext(job))
  <1>1. CASE Len(job.results) < Min({Len(job.listed), Capacity})
    <2> DEFINE next == [job EXCEPT !.stage = "Read"]
    <2>1. next \in Tasks
      BY DEF Within, Tasks
    <2>2. /\ next.listed = job.listed /\ next.results = job.results /\ next.object = job.object
          /\ next.stage = "Read"
      BY DEF Within, Tasks
    <2>3. ReadNext(job) = next
      BY <1>1 DEF ReadNext
    <2> HIDE DEF next
    <2> QED BY <1>1, <2>1, <2>2, <2>3 DEF Within, TaskSound
  <1>2. CASE ~(Len(job.results) < Min({Len(job.listed), Capacity}))
    <2> DEFINE next == [job EXCEPT !.stage = "Done"]
    <2>1. next \in Tasks
      BY DEF Within, Tasks
    <2>2. next.listed = job.listed /\ next.results = job.results /\ next.stage = "Done"
      BY DEF Within, Tasks
    <2>3. ReadNext(job) = next
      BY <1>2 DEF ReadNext
    <2> HIDE DEF next
    <2> QED BY <2>1, <2>2, <2>3 DEF Within, TaskSound
  <1> QED BY <1>1, <1>2

\* going on with the list within the buffer and the length the device told,
LEMMA ListNextIsSound ==
    ASSUME NEW job, Within(job)
    PROVE  TaskSound(ListNext(job))
  <1>1. CASE Len(job.listed) < Min({job.advertised, PropertyCapacity})
    <2> DEFINE next == [job EXCEPT !.stage = "Entry"]
    <2>1. next \in Tasks
      BY DEF Within, Tasks
    <2>2. /\ next.listed = job.listed /\ next.results = job.results /\ next.object = job.object
          /\ next.stage = "Entry" /\ next.advertised = job.advertised
      BY DEF Within, Tasks
    <2>3. ListNext(job) = next
      BY <1>1 DEF ListNext
    <2> HIDE DEF next
    <2> QED BY <1>1, <2>1, <2>2, <2>3 DEF Within, TaskSound
  <1>2. CASE ~(Len(job.listed) < Min({job.advertised, PropertyCapacity})) /\ job.op = "Advertised"
    BY <1>2, ReadNextIsSound DEF ListNext
  <1>3. CASE ~(Len(job.listed) < Min({job.advertised, PropertyCapacity})) /\ job.op # "Advertised"
    <2> DEFINE next == [job EXCEPT !.stage = "Done"]
    <2>1. next \in Tasks
      BY DEF Within, Tasks
    <2>2. next.listed = job.listed /\ next.results = job.results /\ next.stage = "Done"
      BY DEF Within, Tasks
    <2>3. ListNext(job) = next
      BY <1>3 DEF ListNext
    <2> HIDE DEF next
    <2> QED BY <2>1, <2>2, <2>3 DEF Within, TaskSound
  <1> QED BY <1>1, <1>2, <1>3

\* and failing leaves what there is.
LEMMA FailedIsSound ==
    ASSUME NEW job, Within(job), NEW status \in Statuses
    PROVE  TaskSound(Failed(job, status))
  <1>1. Failed(job, status) \in Tasks
    BY DEF Within, Tasks, Failed
  <1>2. /\ Failed(job, status).listed = job.listed /\ Failed(job, status).results = job.results
        /\ Failed(job, status).stage = "Done"
    BY DEF Within, Tasks, Failed
  <1> QED BY <1>1, <1>2 DEF Within, TaskSound

\* What a blocking operation asks for,
LEMMA TaskAsks ==
    ASSUME TaskSound(task), task.op # "None", task.stage # "Done"
    PROVE  /\ TaskRequest \in Requests
           /\ task.stage \in {"Count", "Entry"} =>
                 TaskRequest.property = "propertyList" /\ TaskRequest.object = task.object
           /\ task.stage = "Count" => TaskRequest.index = 0
           /\ task.stage = "Entry" => TaskRequest.index # 0
  <1>1. task \in Tasks /\ Within(task) /\ task.object \in Objects /\ SessionRequests \subseteq Requests
    BY SessionReadsAssumption DEF TaskSound, Within
  <1>2. CASE task.stage = "Count"
    <2>1. TaskRequest = ListEntry(task.object, "propertyList", 0)
      BY <1>2 DEF TaskRequest
    <2>2. ListEntry(task.object, "propertyList", 0) \in SessionRequests
      BY <1>1, BoundsAreNumbers DEF SessionRequests
    <2> QED BY <1>1, <1>2, <2>1, <2>2 DEF ListEntry
  <1>3. CASE task.stage = "Entry"
    <2>1. TaskRequest = ListEntry(task.object, "propertyList", Len(task.listed) + 1)
      BY <1>3 DEF TaskRequest
    <2>2. Len(task.listed) \in Nat /\ task.advertised \in 0..MaxCount
      BY <1>1 DEF Tasks
    <2>3. Len(task.listed) < Min({task.advertised, PropertyCapacity})
      BY <1>3 DEF TaskSound
    <2>4. Len(task.listed) + 1 \in 0..MaxCount /\ Len(task.listed) + 1 # 0
      BY <2>2, <2>3, LeastOfTwo, BoundsAreNumbers
    <2>5. ListEntry(task.object, "propertyList", Len(task.listed) + 1) \in SessionRequests
      BY <1>1, <2>4 DEF SessionRequests
    <2> QED BY <1>1, <1>3, <2>1, <2>4, <2>5 DEF ListEntry
  <1>4. CASE task.stage = "Read"
    <2>1. TaskRequest = Property(task.object, task.listed[Len(task.results) + 1])
      BY <1>4 DEF TaskRequest
    <2>2. Len(task.listed) \in Nat /\ Len(task.results) \in Nat /\ task.listed \in Seq(PropertyNames)
      BY <1>1 DEF Tasks
    <2>3. Len(task.results) < Min({Len(task.listed), Capacity})
      BY <1>4 DEF TaskSound
    <2>4. Len(task.results) + 1 \in DOMAIN task.listed
      BY <2>2, <2>3, LeastOfTwo, BoundsAreNumbers
    <2> QED BY <1>1, <1>4, <2>1, <2>4 DEF Within
  <1> QED BY <1>1, <1>2, <1>3, <1>4 DEF Tasks

BusyNow == [status |-> "Busy", value |-> NoValue]

\* and what comes of it.
LEMMA TaskOutcome ==
    ASSUME NEW request \in Requests,
           NEW outcome \in Outcomes(request) \cup {Refused, BusyNow}
    PROVE  /\ outcome.status \in Statuses /\ outcome.value \in Values \cup {NoValue}
           /\ outcome.status = "Ack" => outcome.value \in ValueOf[request]
  <1>1. CASE outcome = BusyNow
    <2>1. outcome.status = "Busy" /\ outcome.value = NoValue
      BY <1>1 DEF BusyNow
    <2>2. "Busy" \in Statuses
      BY SessionReadsAssumption DEF ReadStatuses
    <2> QED BY <2>1, <2>2
  <1>2. CASE outcome \in Outcomes(request) \cup {Refused}
    <2>1. ReadStatuses \subseteq Statuses
      BY SessionReadsAssumption
    <2> QED BY <1>2, <2>1, OutcomeFacts
  <1> QED BY <1>1, <1>2

\* Whatever comes of it, the operation stays sound.
LEMMA TaskAnswerIsSound ==
    ASSUME TaskSound(task), task.op # "None", task.stage # "Done",
           NEW outcome \in Outcomes(TaskRequest) \cup {Refused, BusyNow}
    PROVE  TaskSound(TaskAnswered(task, outcome))
  <1> DEFINE v == outcome.value
  <1>1. /\ TaskRequest \in Requests
        /\ task.stage \in {"Count", "Entry"} =>
              TaskRequest.property = "propertyList" /\ TaskRequest.object = task.object
        /\ task.stage = "Count" => TaskRequest.index = 0
        /\ task.stage = "Entry" => TaskRequest.index # 0
    BY TaskAsks
  <1>2. /\ outcome.status \in Statuses
        /\ outcome.status = "Ack" => v \in ValueOf[TaskRequest]
    BY <1>1, TaskOutcome
  <1>3. task \in Tasks /\ Within(task)
    BY DEF TaskSound
  <1>4. "DecodeError" \in Statuses
    BY SessionReadsAssumption DEF ReadStatuses
  <1>5. CASE task.stage = "Read"
    <2> DEFINE more == Append(task.results, outcome.status)
               next == [task EXCEPT !.results = more]
    <2>1. /\ task.results \in Seq(Statuses) /\ Len(task.results) \in Nat /\ Len(task.listed) \in Nat
          /\ more \in Seq(Statuses) /\ Len(more) = Len(task.results) + 1
      <3>1. task.results \in Seq(Statuses) /\ task.listed \in Seq(PropertyNames)
        BY <1>3 DEF Tasks
      <3> QED BY <1>2, <3>1
    <2>2. TaskAnswered(task, outcome) = ReadNext(next)
      BY <1>5 DEF TaskAnswered
    <2> HIDE DEF more
    <2>3. Len(task.results) < Min({Len(task.listed), Capacity})
      BY <1>5 DEF TaskSound
    <2>4. Len(more) <= Capacity
      BY <2>1, <2>3, LeastOfTwo, BoundsAreNumbers
    <2>5. next \in Tasks
      BY <1>3, <2>1 DEF Tasks
    <2>6. next.listed = task.listed /\ next.object = task.object /\ next.results = more
      BY <1>3 DEF Tasks
    <2> HIDE DEF next
    <2>7. Within(next)
      BY <1>3, <2>4, <2>5, <2>6 DEF Within
    <2> QED BY <2>2, <2>7, ReadNextIsSound
  <1>6. CASE task.stage # "Read" /\ outcome.status # "Ack"
    <2>1. TaskAnswered(task, outcome) = Failed(task, outcome.status)
      BY <1>6 DEF TaskAnswered
    <2> QED BY <1>2, <1>3, <2>1, FailedIsSound
  <1>7. CASE task.stage = "Count" /\ outcome.status = "Ack"
    <2> DEFINE next == [task EXCEPT !.advertised = v.is]
    <2>1. CASE v.type = "Unsigned"
      <3>1. v.is \in 0..MaxCount
        BY <1>1, <1>2, <1>7, <2>1, ListsAssumption
      <3>2. next \in Tasks
        BY <1>3, <3>1 DEF Tasks
      <3>3. next.listed = task.listed /\ next.object = task.object /\ next.results = task.results
        BY <1>3 DEF Tasks
      <3>4. TaskAnswered(task, outcome) = ListNext(next)
        BY <1>7, <2>1 DEF TaskAnswered
      <3> HIDE DEF next
      <3>5. Within(next)
        BY <1>3, <3>2, <3>3 DEF Within
      <3> QED BY <3>4, <3>5, ListNextIsSound
    <2>2. CASE v.type # "Unsigned"
      <3>1. TaskAnswered(task, outcome) = Failed(task, "DecodeError")
        BY <1>7, <2>2 DEF TaskAnswered
      <3> QED BY <1>3, <1>4, <3>1, FailedIsSound
    <2> QED BY <2>1, <2>2
  <1>8. CASE task.stage = "Entry" /\ outcome.status = "Ack"
    <2> DEFINE next == [task EXCEPT !.listed = Append(@, v.is)]
    <2>1. CASE v.type \in {"Enumerated", "Unsigned"}
      <3>1. Property(task.object, v.is) \in Requests
        BY <1>1, <1>2, <1>8, <2>1, ListsAssumption
      <3>2. v.is \in PropertyNames
        <4>1. Property(task.object, v.is).property = v.is
          BY DEF Property
        <4> QED BY <3>1, <4>1 DEF PropertyNames
      <3>3. task.listed \in Seq(PropertyNames) /\ task.advertised \in Nat
        BY <1>3 DEF Tasks
      <3>4. /\ Append(task.listed, v.is) \in Seq(PropertyNames)
            /\ Len(Append(task.listed, v.is)) = Len(task.listed) + 1 /\ Len(task.listed) \in Nat
            /\ \A k \in DOMAIN Append(task.listed, v.is) :
                  \/ k \in DOMAIN task.listed /\ Append(task.listed, v.is)[k] = task.listed[k]
                  \/ Append(task.listed, v.is)[k] = v.is
        BY <3>2, <3>3
      <3>5. Len(task.listed) < Min({task.advertised, PropertyCapacity})
        BY <1>8 DEF TaskSound
      <3>6. Len(task.listed) + 1 <= MostListed
        BY <3>3, <3>4, <3>5, LeastOfTwo, ListBounds
      <3>7. next \in Tasks
        BY <1>3, <3>4 DEF Tasks
      <3>8. next.listed = Append(task.listed, v.is) /\ next.object = task.object
            /\ next.results = task.results
        BY <1>3 DEF Tasks
      <3>9. TaskAnswered(task, outcome) = ListNext(next)
        BY <1>8, <2>1 DEF TaskAnswered
      <3> HIDE DEF next
      <3>10. \A k \in DOMAIN next.listed : Property(next.object, next.listed[k]) \in Requests
        BY <1>3, <3>1, <3>4, <3>8 DEF Within
      <3>11. Within(next)
        BY <1>3, <3>4, <3>6, <3>7, <3>8, <3>10 DEF Within
      <3> QED BY <3>9, <3>11, ListNextIsSound
    <2>2. CASE v.type \notin {"Enumerated", "Unsigned"}
      <3>1. TaskAnswered(task, outcome) = Failed(task, "DecodeError")
        BY <1>8, <2>2 DEF TaskAnswered
      <3> QED BY <1>3, <1>4, <3>1, FailedIsSound
    <2> QED BY <2>1, <2>2
  <1> QED BY <1>3, <1>5, <1>6, <1>7, <1>8 DEF Tasks

\* One that begins has read nothing.
LEMMA NoTaskIsSound == NoTask \in Tasks /\ TaskSound(NoTask)
  <1>1. NoTask \in Tasks
    BY BoundsAreNumbers, SessionReadsAssumption DEF NoTask, Tasks, TaskKinds, ReadStatuses
  <1>2. NoTask.op = "None" /\ Len(NoTask.listed) = 0 /\ Len(NoTask.results) = 0
    BY DEF NoTask
  <1> QED BY <1>1, <1>2, ListBounds DEF TaskSound

\* and the list the caller gives is one the device can be asked for.
LEMMA BegunIsSound ==
    ASSUME NEW op \in {"List", "All", "Advertised"}, NEW object \in Objects, BeginTask(op, object)
    PROVE  TaskSound(task')
  <1> DEFINE given == [NoTask EXCEPT !.op = op, !.object = object, !.listed = Wanted]
             fresh == [NoTask EXCEPT !.op = op, !.object = object]
  <1>1. Wanted \in Seq(PropertyNames) /\ SessionRequests \subseteq Requests
    BY SessionReadsAssumption DEF PropertyNames
  <1>2. given \in Tasks /\ fresh \in Tasks
    BY <1>1, NoTaskIsSound DEF Tasks, TaskKinds
  <1>3. /\ given.object = object /\ given.listed = Wanted /\ given.results = <<>>
        /\ fresh.object = object /\ fresh.listed = <<>> /\ fresh.results = <<>>
        /\ fresh.stage = "Count"
    BY DEF NoTask
  <1>4. task' = IF op = "All" THEN ReadNext(given) ELSE fresh
    BY DEF BeginTask
  <1> HIDE DEF given, fresh
  <1>5. \A k \in DOMAIN Wanted : Property(object, Wanted[k]) \in Requests
    BY <1>1 DEF SessionRequests
  <1>6. Within(given)
    BY <1>2, <1>3, <1>5, ListBounds DEF Within
  <1>7. Within(fresh)
    BY <1>2, <1>3, ListBounds DEF Within
  <1>8. TaskSound(fresh)
    BY <1>3, <1>7 DEF Within, TaskSound
  <1> QED BY <1>4, <1>6, <1>8, ReadNextIsSound

-----------------------------------------------------------------------------
\* What every step of a session keeps.

\* A scan that was never started, and one that was just begun.
LEMMA FreshIsSound ==
    /\ Sound(IdleScan) /\ IdleScan.status = "Idle"
    /\ Sound([IdleScan EXCEPT !.status = "Active", !.waiting = "Sending"])
    /\ Tallied([IdleScan EXCEPT !.status = "Active", !.waiting = "Sending"], <<>>)
  <1> DEFINE fresh == [IdleScan EXCEPT !.status = "Active", !.waiting = "Sending"]
  <1>1. IdleScan \in ScanJobs /\ fresh \in ScanJobs
    <2>1. <<>> \in Seq(Results) /\ 0 \in 0..(MostEntries + 1) /\ 0 \in 0..MostEntries /\ 0 \in 0..MaxCount
      BY BoundsAreNumbers
    <2>2. IdleScan \in ScanJobs
      BY <2>1 DEF IdleScan, ScanJobs, ScanStatuses, DeviceStatuses
    <2>3. fresh \in ScanJobs
      BY <2>2 DEF ScanJobs, ScanStatuses
    <2> QED BY <2>2, <2>3
  <1>2. IdleScan.status = "Idle" /\ IdleScan.results = <<>> /\ IdleScan.storing = FALSE
    BY DEF IdleScan
  <1>3. /\ fresh.phase = "Count" /\ fresh.count = 0 /\ fresh.inspected = 0 /\ fresh.found = 0
        /\ fresh.results = <<>> /\ fresh.storing = FALSE /\ fresh.truncated = FALSE
    BY DEF IdleScan
  <1> HIDE DEF fresh
  <1>4. Accepted(<<>>) = {} /\ Cardinality({}) = 0 /\ Min({Capacity, 0}) = 0
    BY FS_EmptySet, LeastOfTwo, BoundsAreNumbers DEF Accepted
  <1>5. Sound(IdleScan) /\ Sound(fresh)
    BY <1>1, <1>2, <1>3, BoundsAreNumbers DEF Sound, Names
  <1>6. Tallied(fresh, <<>>)
    <2>1. ~(0 > Capacity) /\ ~(0 > MaxEntries) /\ Len(<<>>) = 0
      BY BoundsAreNumbers
    <2> QED BY <1>3, <1>4, <2>1 DEF Tallied
  <1> QED BY <1>2, <1>5, <1>6 DEF fresh

\* Every step of the session keeps its scan sound and in step,
LEMMA ScanInvIsKept ==
    ASSUME ScanInv, RInv, [Next]_vars
    PROVE  ScanInv'
  <1>1. CASE BeginScan
    <2>1. scan' = [IdleScan EXCEPT !.status = "Active", !.waiting = "Sending"] /\ entries' = <<>>
      BY <1>1 DEF BeginScan
    <2> QED BY <2>1, FreshIsSound DEF ScanInv
  <1>2. CASE ScanRequestSent
    <2> DEFINE next == [scan EXCEPT !.waiting = "Answer"]
    <2>1. scan' = next /\ entries' = entries /\ scan \in ScanJobs
      BY <1>2 DEF ScanRequestSent, ScanInv, Sound
    <2>2. next \in ScanJobs
      BY <2>1 DEF ScanJobs
    <2>3. /\ SameTally(next, scan) /\ next.status = scan.status /\ next.phase = scan.phase
          /\ next.index = scan.index /\ next.limit = scan.limit /\ next.storing = scan.storing
      BY <2>1 DEF ScanJobs, SameTally
    <2> HIDE DEF next
    <2>4. Sound(next)
      BY <2>2, <2>3 DEF ScanInv, Sound, SameTally
    <2> QED BY <2>1, <2>3, <2>4, SameTallyIsTallied DEF ScanInv
  <1>3. CASE ScanRequestRefused
    <2>1. scan.status = "Active" /\ FinishScanRead(Refused)
      BY <1>3 DEF ScanRequestRefused, RInv
    <2> QED BY <2>1, FinishKeepsScan
  <1>4. CASE PollScan
    <2>1. scan.status = "Active" /\ \E outcome \in Outcomes(ScanRequest) : FinishScanRead(outcome)
      BY <1>4 DEF PollScan, RInv
    <2> QED BY <2>1, FinishKeepsScan
  <1>5. CASE CancelScan
    <2>1. scan' = Ended(scan, "Cancelled") /\ entries' = entries /\ scan.status = "Active"
      BY <1>5 DEF CancelScan
    <2>2. Sound(scan') /\ SameTally(scan', scan)
      BY <2>1, EndedIsSound DEF ScanInv, Sound
    <2>3. scan.status # "Idle" => Tallied(scan', entries)
      BY <2>2, SameTallyIsTallied DEF ScanInv
    <2> QED BY <2>1, <2>2, <2>3 DEF ScanInv
  <1>6. CASE Forget
    <2>1. scan' = (IF scan.status = "Active" THEN scan ELSE IdleScan)
          /\ entries' = IF scan.status = "Active" THEN entries ELSE <<>>
      BY <1>6 DEF Forget
    <2> QED BY <2>1, FreshIsSound DEF ScanInv
  <1>7. ASSUME UNCHANGED <<scan, entries>> PROVE ScanInv'
    BY <1>7 DEF ScanInv
  <1>8. CASE BeginRead \/ PollRead \/ CancelRead \/ BeginPoll \/ EndPoll
             \/ ReadPropertyDetailed \/ TaskReturns \/ UNCHANGED vars
    BY <1>7, <1>8 DEF BeginRead, PollRead, CancelRead, BeginPoll, EndPoll, ReadPropertyDetailed,
         TaskReturns, vars
  <1>9. ASSUME NEW op, NEW object, BeginTask(op, object) PROVE ScanInv'
    BY <1>7, <1>9 DEF BeginTask
  <1>10. ASSUME NEW op, ReadOrWriteUncached(op) PROVE ScanInv'
    BY <1>7, <1>10 DEF ReadOrWriteUncached
  <1> QED BY <1>1, <1>2, <1>3, <1>4, <1>5, <1>6, <1>8, <1>9, <1>10 DEF Next

\* its blocking operation sound,
LEMMA TaskSoundIsKept ==
    ASSUME TaskSound(task), [Next]_vars
    PROVE  TaskSound(task')
  <1>1. ASSUME NEW op \in {"List", "All", "Advertised"}, NEW object \in Objects, BeginTask(op, object)
        PROVE  TaskSound(task')
    BY <1>1, BegunIsSound
  <1>2. ASSUME NEW op \in {"PriorityArray", "Write"}, ReadOrWriteUncached(op)
        PROVE  TaskSound(task')
    <2>1. PICK status \in {"Busy"} \cup {outcome.status : outcome \in Outcomes(JobRequest) \cup {Refused}} :
              task' = [NoTask EXCEPT !.op = op, !.stage = "Done", !.status = status]
      BY <1>2 DEF ReadOrWriteUncached
    <2>2. JobRequest \in Requests /\ ReadStatuses \subseteq Statuses /\ "Busy" \in ReadStatuses
      BY SessionReadsAssumption DEF ReadStatuses
    <2>3. status \in Statuses
      BY <2>1, <2>2, OutcomeFacts
    <2>4. task' \in Tasks
      BY <2>1, <2>3, NoTaskIsSound DEF Tasks, TaskKinds
    <2>5. task'.stage = "Done" /\ task'.listed = <<>> /\ task'.results = <<>>
      BY <2>1 DEF NoTask
    <2> QED BY <2>4, <2>5, ListBounds DEF TaskSound
  <1>3. CASE ReadPropertyDetailed
    <2>1. /\ task.op # "None" /\ task.stage # "Done"
          /\ \E outcome \in Outcomes(TaskRequest) \cup {Refused, BusyNow} :
                task' = TaskAnswered(task, outcome)
      BY <1>3 DEF ReadPropertyDetailed, BusyNow
    <2> QED BY <2>1, TaskAnswerIsSound
  <1>4. CASE TaskReturns
    BY <1>4, NoTaskIsSound DEF TaskReturns
  <1>5. CASE BeginScan \/ ScanRequestSent \/ ScanRequestRefused \/ PollScan \/ CancelScan
             \/ BeginRead \/ PollRead \/ CancelRead \/ BeginPoll \/ EndPoll \/ Forget
             \/ UNCHANGED vars
    <2>1. task' = task
      BY <1>5 DEF BeginScan, ScanRequestSent, ScanRequestRefused, PollScan, CancelScan, BeginRead,
           PollRead, CancelRead, BeginPoll, EndPoll, Forget, vars
    <2> QED BY <2>1
  <1> QED BY <1>1, <1>2, <1>3, <1>4, <1>5 DEF Next

\* and its use of the cache within what the cache is made for.
LEMMA ReadsUseTheCache ==
    ASSUME ScanInv, RInv, TaskSound(task), [Next]_vars
    PROVE  [CacheNext]_cacheVars
  <1>1. ASSUME NEW request \in Requests,
               NEW outcome \in Outcomes(request) \cup {Refused, BusyNow},
               UpdatePropertyCache(request, outcome.status, outcome.value)
        PROVE  CacheNext
    BY <1>1, TaskOutcome DEF CacheNext
  <1>2. JobRequest \in Requests /\ PollRequest \in Requests
    BY SessionReadsAssumption
  <1>3. CASE ScanRequestRefused \/ PollScan
    <2>1. scan.status = "Active" /\ \E outcome \in Outcomes(ScanRequest) \cup {Refused} :
              UpdatePropertyCache(ScanRequest, outcome.status, outcome.value)
      BY <1>3 DEF ScanRequestRefused, PollScan, FinishScanRead, RInv
    <2>2. ScanRequest \in Requests
      BY <2>1, ScanAsks DEF ScanInv
    <2> QED BY <1>1, <2>1, <2>2
  <1>4. CASE BeginRead \/ PollRead
    <2>1. \/ UNCHANGED cacheVars
          \/ \E outcome \in Outcomes(JobRequest) \cup {Refused} :
                UpdatePropertyCache(JobRequest, outcome.status, outcome.value)
      BY <1>4 DEF BeginRead, PollRead, FinishRead
    <2> QED BY <1>1, <1>2, <2>1
  <1>5. CASE BeginPoll
    <2>1. UNCHANGED cacheVars \/ UpdatePropertyCache(PollRequest, Refused.status, Refused.value)
      BY <1>5 DEF BeginPoll, Refused
    <2> QED BY <1>1, <1>2, <2>1
  <1>6. CASE EndPoll
    <2>1. \/ UNCHANGED cacheVars
          \/ \E outcome \in Outcomes(PollRequest) :
                UpdatePropertyCache(PollRequest, outcome.status, outcome.value)
      BY <1>6 DEF EndPoll
    <2> QED BY <1>1, <1>2, <2>1
  <1>7. CASE ReadPropertyDetailed
    <2>1. /\ task.op # "None" /\ task.stage # "Done"
          /\ \E outcome \in Outcomes(TaskRequest) \cup {Refused, BusyNow} :
                UpdatePropertyCache(TaskRequest, outcome.status, outcome.value)
      BY <1>7 DEF ReadPropertyDetailed, BusyNow
    <2>2. TaskRequest \in Requests
      BY <2>1, TaskAsks
    <2> QED BY <1>1, <2>1, <2>2
  <1>8. CASE BeginScan \/ ScanRequestSent \/ CancelScan \/ CancelRead \/ TaskReturns \/ Forget
             \/ UNCHANGED vars
    BY <1>8 DEF BeginScan, ScanRequestSent, CancelScan, CancelRead, TaskReturns, Forget, vars
  <1>9. ASSUME NEW op, NEW object, BeginTask(op, object) PROVE UNCHANGED cacheVars
    BY <1>9 DEF BeginTask
  <1>10. ASSUME NEW op, ReadOrWriteUncached(op) PROVE UNCHANGED cacheVars
    BY <1>10 DEF ReadOrWriteUncached
  <1> QED BY <1>3, <1>4, <1>5, <1>6, <1>7, <1>8, <1>9, <1>10 DEF Next

\* The inductive invariant of the session's reads:
SessionInv == RInv /\ ScanInv /\ TaskSound(task) /\ read.status \in ScanStatuses

\* it holds throughout.
LEMMA SessionInvariant == Spec => []SessionInv
  <1>1. Init => ScanInv /\ TaskSound(task) /\ read.status \in ScanStatuses
    BY FreshIsSound, NoTaskIsSound DEF Init, ScanInv, IdleRead, ScanStatuses
  <1>2. ASSUME read.status \in ScanStatuses, [Next]_vars PROVE read'.status \in ScanStatuses
    <2>1. IdleRead.status \in ScanStatuses
      BY DEF IdleRead, ScanStatuses
    <2>2. ASSUME NEW outcome, FinishRead(outcome) PROVE read'.status \in ScanStatuses
      BY <2>2 DEF FinishRead, ScanStatuses
    <2>3. CASE BeginRead
      BY <2>2, <2>3 DEF BeginRead, IdleRead, ScanStatuses
    <2>4. CASE PollRead
      BY <2>2, <2>4 DEF PollRead
    <2>5. CASE CancelRead
      <3>1. read' = [read EXCEPT !.status = "Cancelled"] /\ read.status = "Active"
        BY <2>5 DEF CancelRead
      <3>2. read'.status \in {"Cancelled", read.status}
        BY <3>1
      <3> QED BY <1>2, <3>2 DEF ScanStatuses
    <2>6. CASE Forget
      BY <1>2, <2>1, <2>6 DEF Forget
    <2>7. CASE BeginScan \/ ScanRequestSent \/ ScanRequestRefused \/ PollScan \/ CancelScan
               \/ BeginPoll \/ EndPoll \/ ReadPropertyDetailed \/ TaskReturns \/ UNCHANGED vars
      <3>1. read' = read
        BY <2>7 DEF BeginScan, ScanRequestSent, ScanRequestRefused, PollScan, CancelScan, BeginPoll,
             EndPoll, ReadPropertyDetailed, TaskReturns, vars
      <3> QED BY <1>2, <3>1
    <2>8. ASSUME NEW op, NEW object, BeginTask(op, object) PROVE read' = read
      BY <2>8 DEF BeginTask
    <2>9. ASSUME NEW op, ReadOrWriteUncached(op) PROVE read' = read
      BY <2>9 DEF ReadOrWriteUncached
    <2> QED BY <1>2, <2>3, <2>4, <2>5, <2>6, <2>7, <2>8, <2>9 DEF Next
  <1>3. RInv /\ ScanInv /\ TaskSound(task) /\ read.status \in ScanStatuses /\ [Next]_vars
            => (ScanInv /\ TaskSound(task) /\ read.status \in ScanStatuses)'
    BY <1>2, ScanInvIsKept, TaskSoundIsKept
  <1> QED BY <1>1, <1>3, ReadsInvariant, PTL DEF Spec, SessionInv

\* The summary of an object list scan is true of what the device answered: for
\* every device, filter, limit and buffer, the results are the accepted entries
\* in order, and truncated says whether one that was found is missing.
THEOREM SummaryTellsWhatWasAnswered == Spec => []SummaryIsTrue
  <1>1. SessionInv => SummaryIsTrue
    BY DEF SessionInv, ScanInv, Tallied, Accepted, Rank, SummaryIsTrue
  <1> QED BY <1>1, SessionInvariant, PTL

\* A session uses its cache as the cache's own specification has it: every step
\* of it updates one entry for a request that was made, or leaves the cache alone.
THEOREM ReadsImplementCache == Spec => CacheSpec
  <1>1. Init => CacheInit
    BY DEF Init
  <1>2. SessionInv /\ [Next]_vars => [CacheNext]_cacheVars
    BY ReadsUseTheCache DEF SessionInv
  <1> QED BY <1>1, <1>2, SessionInvariant, PTL DEF Spec, CacheSpec

\* So through every read of a session a good value in its cache is the one its
\* own request last got acknowledged.
THEOREM SessionKeepsLastAcked == Spec => []ValueIsLastAcked
  BY ReadsImplementCache, CacheKeepsLastAcked, PTL

\* Every variable of the session's reads keeps its range: a scan its index and
\* results, a list read its buffers, the cache its slots.
THEOREM ReadsTypeCorrect == Spec => []TypeOK
  <1>1. SessionInv /\ CacheInv => TypeOK
    <2> SUFFICES ASSUME SessionInv, CacheInv PROVE TypeOK
      OBVIOUS
    <2>1. scan \in ScanJobs /\ Len(scan.results) <= Capacity
      BY DEF SessionInv, ScanInv, Sound
    <2>2. scan.status \in ScanStatuses /\ scan.index \in 0..(Min({MaxCount, MaxEntries}) + 1)
      BY <2>1 DEF ScanJobs, MostEntries
    <2>3. scan.status = "Active" <=> scan.waiting # "No"
      BY DEF SessionInv, RInv
    <2>4. holders \subseteq {"Scan", "Read", "Subscription"}
      BY DEF SessionInv, RInv, OneHolder
    <2>5. Len(task.listed) <= Max({PropertyCapacity, Len(Wanted)}) /\ Len(task.results) <= Capacity
      BY DEF SessionInv, TaskSound, MostListed
    <2>6. cache \in [Slots -> Entries \cup {Free}] /\ nextSlot \in Slots
      BY DEF CacheInv, CacheTypeOK
    <2> QED BY <2>1, <2>2, <2>3, <2>4, <2>5, <2>6 DEF SessionInv, TypeOK
  <1>2. CacheSpec => []CacheInv
    BY CacheInvariant
  <1> QED BY <1>1, <1>2, SessionInvariant, ReadsImplementCache, PTL

=============================================================================
