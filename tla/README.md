# TLA+ specifications of esp32-bacnet-stack

The library is a portable BACnet/IP client and server for small devices: no
heap, fixed tables, no threads. Everything happens inside calls the application
makes, `poll()` first of all, and inside callbacks made from those calls. What
is hard is not parallelism but sequences: datagrams that are refused, lost, late
or answered twice, deadlines on a 32-bit clock that wraps, tables that are full,
callbacks that call back.

Paths are relative to the repository; `core/` stands for `src/core/`.

## 1. The system

| Component | Source | State it keeps | Operations | Model |
|---|---|---|---|---|
| Server COV engine | `core/server/BacnetServer.cpp` | table of 8 subscriptions, snapshots, retry counters and deadlines, invoke id | `begin`, `end`, `poll` (SubscribeCOV, answers, idle scan) | `CovServer` |
| Commandable objects | `core/server/BacnetServer.cpp`, `core/objects/BacnetCommandPriority.h` | 16 priority slots, relinquish default, Out_Of_Service, callback guard, local write priorities | local writes, WriteProperty, callbacks | `CommandableObject` |
| Object registration and dispatch | `core/server/BacnetServer.cpp` | object tables, added objects and the properties they carry, property registrations | `set...`, `addObject`, `handleReadProperty`, `handleWriteProperty` | `ServerObjects` |
| Client session: subscriptions | `core/client/BacnetDeviceSession.cpp` | per handle: active, in flight, COV state, renewal and poll deadlines; per session: the one operation in flight | `poll`, `stop`, `requestRefresh`, callbacks | `ClientSession` |
| Client notification queues | `core/client/BacnetClient.cpp`, `BacnetDeviceSession.cpp` | two bounded drop-oldest queues | queue, take, acknowledge | `ClientReceive` |
| Object-list scan, synchronous reads and writes | `core/client/BacnetDeviceSession.cpp` | job phase, index, results, the in-flight pointers | begin, poll, cancel, blocking calls | `SessionReads` |
| Property cache | `core/client/BacnetDeviceSession.cpp` | bounded cache with round-robin eviction | find or create, update | `PropertyCache` |
| Protocol codec | `core/protocol/BacnetProtocol.cpp` | none | build, parse, classify | `Codec` |
| Client and server over the network | `core/client/BacnetClient.cpp`, `core/server/BacnetServer.cpp` | requests, answers and notifications on their way | `poll` of both | `Exchange` |
| Remote object, priority reset | `core/client/BacnetRemoteObject.cpp` | | relinquish priorities in turn | not modelled |
| Analog limits, linear scale | `core/objects/` | none | pure functions | not modelled |
| Demo recovery | `examples/esp32/shared/client-demo` | | schedule, due, accept | not modelled |
| Logger, text, display | `src/support` | buffers | formatting | not modelled |
| Platform adapters | `src/platform` | sockets | datagrams in and out | not modelled |
| CLI, examples, tools | `examples`, `tools` | | | not modelled |

**How they interact.** The client session sends SubscribeCOV; the server keeps an
entry and sends notifications from its idle polls; the client's transport calls
take one datagram each and file notifications that belong to another wait into a
queue; the session takes them from there, acknowledges confirmed ones and calls
the application. On the server, a local write or a WriteProperty commands an
object, which runs its output binding and change callbacks inside that call; the
next idle poll reads the object and compares it with the snapshot of each
subscription. The clock, the transport, value providers and bindings belong to
the application.

**What is hard, and what makes each part correct.**

- *Server COV engine.* One table, three kinds of steps (requests, answers, scans)
  and five timers per entry interleave freely. Correct means: one entry per tuple
  however requests come in; a snapshot that is exactly what was last handed to
  the transport; a bounded number of attempts; no expiry before its time, no
  notification after it; no state of an earlier entry in a slot surviving into
  the next; every subscriber eventually told.
- *Commandable objects.* A command runs application code before it has returned.
  Correct means: what any callback is told is the state the object is in; the
  guard is up exactly during guarded calls; an acknowledgement means the value is
  in the slot; the callbacks together tell the whole history, with nothing
  missing or twice; the output ends with the object's value.
- *Registration and dispatch.* Object_List, the Property_Lists, the supported
  types and services come from other tables than the answers to reads. Correct
  means: they name what the dispatch answers, in whatever order things were
  registered; one name is one object; what is acknowledged is what is read.
- *Client subscriptions.* One operation in flight per session, renewals,
  fallback to polling, late answers, callbacks from inside `poll`. Correct
  means: session and handle agree on the operation in flight; a stopped handle
  gets no late answer; the application knows what the handle says; a handle is
  COV-active only while the server has its entry; it recovers.
- *Notification queues.* Every poll takes whichever datagram comes. Correct
  means: an answer ends only its own request; a notification reaches only the
  subscription it names and is acknowledged only then; overflow, filtering and
  requeueing neither turn a value back nor lose the last one.
- *Scan, reads, cache.* Correct means: one operation in flight; the scan ends
  whatever fails, and its summary says truly what is missing; a failed attempt
  never replaces a good value, and no entry serves another request.
- *Codec.* Correct means: what is sent is heard, as nothing else, by nobody
  else, and with the value it was built from; what is cut off is not heard.

`PROJECT.json` lists the hazards at their lines.

## 2. Modules

| Module | What it is |
|---|---|
| `CovServer` | the server COV engine, one action per call |
| `CovServerHistory` | the same with auxiliary variables (age, last value told, attempts), a bounded environment, fairness and the properties that need them |
| `CommandableObject` | one commandable object, its callers and callbacks |
| `CommandableHistory` | the same with what the application has been told and what the output was driven to |
| `ServerObjects` | the objects a server answers for, its description of itself, and ReadProperty and WriteProperty up to the answer |
| `ClientSession` | the subscriptions of one session |
| `ClientSessionHistory` | the same with what the application was told and how old the server's grant is, fairness, properties |
| `CovDelivery` | abstract: what the client promises of notifications |
| `ClientReceive` | which poll takes which datagram, the queues in between; implements `CovDelivery` |
| `PropertyCache` | the session's cache |
| `SessionReads` | the polled and blocking reads of a session, with its `PropertyCache` |
| `Codec` | every message in octets: builders, parsers, classifiers |
| `Exchange` | client and server that talk in the octets of `Codec` |
| `CovServerProofs`, `CommandableProofs`, `ServerObjectsProofs`, `ClientSessionProofs`, `ClientReceiveProofs`, `SessionReadsProofs`, `ExchangeProofs` | theorems about the module of that name, and about what goes with it: `CovServerHistory`, `CommandableObject` and `CommandableHistory`, `ClientSessionHistory`, `PropertyCache`, `Codec` |
| `ExchangeAnswersProofs` | the theorem that answers mean what the server answered; builds on `ExchangeProofs` |
| `MC...` | instances for TLC |

Operators named as mutants in a comment are variants of the definition that
follows them, each a plausible bug. No specification uses them; each shows that
some property would notice that bug.

### CovServer and the code

The server is single-threaded, so a call is one action: `Subscribe` and `Cancel`
(`handleSubscribeCov`), `ReceiveAnswer` (the head of `poll`), `ScanWithoutSend`
and `ScanAndSend` (`processCovSubscriptions` with `sendCovNotification`), `Begin`,
`End`. `Tick`, `ChangeValue` and `ChangeReadable` are what the server reads from
outside. Requests and datagrams that change nothing (errors, Who-Is, reads) are
stuttering.

| Code | Model |
|---|---|
| `covSubscriptions_[i]` and the parallel arrays `covSnapshot..._`, `covConfirmedRetryCounts_`, `covSendRetryCounts_`, `covRetryAtMs_` | one record, `slots[i]` |
| peer, process id, object, form, property | one tuple, `key` |
| the seven snapshot arrays and their valid flag | `snapshot`, one cell per property, `Unset` when not valid |
| a datatype outside the switch of `covValuesChanged` | the property `ObjectName`, whose stored payload is `Blank` |
| 32-bit clock, 8-bit counters and invoke id | arithmetic modulo `TimeMod`, `CounterMod`, `InvokeMod` |
| the scan's `for` loop with its early returns | `PassedOver` for the entries before the one that sends; the entries after it are not touched |
| `transport_->send` | a choice, `taken` |

Left out because nothing reads them: `lastAckMs`, diagnostics, time remaining.
Left out because every request with one is refused: array indexes.

### CommandableObject and the code

A call is not one step here, since its callbacks are what matters: `pending` is
what is left to run of the calls in progress, innermost first. A command commits
and pushes the callbacks the code will run; `Proceed` lets the head return;
`"return"` is the destructor of `CallbackInProgressGuard`; `"reply"` is the answer
of `handleWriteProperty`. When the head is one of `Reentrant`, the application may
call the object from there. All arguments of the callbacks are computed before the
first callback runs in the code as well. `Attached` selects the object kind and
what the application set. The Binary Value of the code has neither guard nor
callbacks: with nothing attached nothing can run inside its calls, so the guard of
the model never refuses it anything. The local write priorities are those of the
Binary Output; the other kinds only have writes at a named priority (WriteProperty
and `applyPriorityValue`).

### ServerObjects and the code

The application owns the objects; the server keeps pointers to arrays by kind,
single objects and registrations. Each setter, `addObject`, `configure` of an
object (which may come after its registration), `begin`, `end` and
`handleWriteProperty` is an action. `ReadAnswers` is `handleReadProperty`: the
set of answers it may give, several where a value depends on the provider.
Object_List, Property_List, supported types and services are computed as in the
code, from their own tables. Commands change the slot only; what runs inside
them is `CommandableObject`.

### ClientSession and the code

`poll()` runs the application's callback in the middle of its work, so it is not
one step: `calls` is the stack of the calls in progress, innermost first. A frame
of `poll` stands at a place where the transport or the application acts (the
request in flight, the next notification, the start of a request), a frame of
`finishSubscriptionPoll` around the callback. While the callback runs the
application may stop handles, subscribe anew, ask for a refresh, begin a job, or,
with `CallbacksPoll`, poll again. The two forms of `poll()` (one handle, the array
of them) and the round-robin index are both there. Deadlines are kept as
what is left until them, modulo the `TimeMod` ticks of the clock, with the signed
comparison of the code. Which datagram a poll of the transport yields is
nondeterministic.

The check for an inactive handle in `pollInFlightSubscription()` is left out: only an
active handle starts a request, and `stop()` takes it out of flight (`OnlyActiveAsk` in
the inductive invariant, section 4).

### ClientReceive and the code

The complement: which datagram each poll takes. `PollRequest` is
`pollReadProperty`, `pollWriteProperty` and `pollSubscribeCov`; only the last
queues a notification (`queuedCovNotifications_`), the others drop it. A
subscription's poll first searches the session's queue, then the client's, then
the transport (`TakePending`, `TakeQueued`, `TakeArrived`). Both queues drop their
oldest element when full. A subscription is its peer, its Process Identifier and its
point (object, property, array index), and a notification matches that has all three.
Of what was ever sent anything may arrive at any time, again or never, in order when
`Ordered`. Invoke ids are the request numbers modulo `InvokeIds`.

### SessionReads, PropertyCache and the code

A scan sends its next request from the poll that takes the last answer; a request
that cannot be sent is finished there and then. Those parts of one call are
actions (`waiting = "Sending"`) and nothing else happens before the call returns.
`holders` are the session's three in-flight pointers. `Answered` is
`finishObjectListScanRead` with its phases. A blocking operation is a `task` with
one action per read. Every outcome updates the cache (`UpdatePropertyCache`); the
search for a free slot from `nextPropertyCacheSlot_` on is `FirstFree`.

### Codec, Exchange and the code

A message is a sequence of octets, as the code builds it: BVLC length, NPDU with
or without the address of a router, APDU, tags. Each `Build...` and `Parse...`
operator is one function of `BacnetProtocol`, with its limits. Texts are
sequences of octets and reals are their bit patterns; the display text of a value
is not modelled, except for the cut that the list of a whole array suffers.
The loops of the code are steps repeated as often as the octets can ask for
(`Iterated`, with `NextObject`, `NextCovValue` and the like as the steps), which,
unlike recursive operators, theorems can be about.

Of an acknowledged read there are three readings: `ParseReadAck` looks for the request's
object, property and index, `ParsePriorityArrayAck` for an array without one, and
`ParsePropertyAck`, the overload that is given only a property, looks at neither
object nor index. The session never uses the last; `HeardAsSaid` asks it of every
answer all the same, and says what it does not tell apart.

`Exchange` has one action per branch of the server's `poll()` and of the client's.
A datagram carries, beside its octets, what its sender means (`said`) for the
properties to compare with. The server's objects, priority array and COV entry
are reduced to what messages show of them. `ExchangeAssumption` types what the device
and the application are given: values of 32 bits, object identifiers of 10 and 22.
`ContentsFit` says of the device's properties that the client has room for them;
`MCExchange` lets TLC confirm both of the device of the run `exchange`.


## 3. Runs

All bounds are constants of the cfg files or of the `MC` module.

| Run | Shows | Bounds, and why they are enough |
|---|---|---|
| `table` | type, `UniqueKeys`, `SnapshotIsLastTold`, `AttemptsBounded`, `BackoffIsOwn`, `NoEarlyExpiry`, `NoNotificationAfterExpiry` | 2 slots and 3 tuples, so the table fills and slots are reused; a clock of 10 ticks started at 8, so every deadline falls across the wrap; lifetimes of 2 and 4 ticks against a timeout of 1, so retries end inside a lifetime; 3 usable invoke ids, so they wrap and come round; 4 environment steps (`Budget`): fill, free, refill, renew |
| `settling` | `NotifiesOnlyChanges`, `EventuallyTold` | no clock, 2 slots, 3 tuples and a cancellation, 5 environment steps, values 0 to 2 against an increment of 2, every send taken |
| `calls` | type, `CallbacksSeeCommitted`, `AckMeansWritten`, `GuardMatchesCalls`, `ReportsChain`, `NothingUnreported`, `OutputFollows` | 3 priorities: above, at and below the effective one; 2 values; all callbacks set and each may call the object; unbounded otherwise |
| `objects` | `DescribesItself`, `OnlyRenamingMakesTwins`, `WritesShow` | every kind, two Analog Inputs and Binary Outputs to collide, both kinds of Analog Value; arrays of two, 3 registration sets, 12 writes that hit each check; three things set up at a time (`MaxSize`): two that conflict and one that reveals it |
| `lease` | type, `OneOperation`, `ApplicationKnows`, `ActiveMeansGranted`, `LateAnswersAreDropped` | one handle, 2 values, a lifetime of 7 ticks renewed 6 before its end, requests of 1 tick and polls up to 1 tick late: a registration, its renewal, its refusal and fallback fit before the lifetime ends; a clock of 16 ticks; the callback stops or refreshes the handle, or begins a read or a scan; between polls the handle is also replaced. With one handle the callback has no other to replace, and no callback polls |
| `arrays` | `RequestsEnd`, `RefreshHappens` | two handles polled as an array, one by time and one on request |
| `progress` | `CovReturns` | one handle that prefers COV, polled alone; every registration may fail first |
| `any` | type, `AnswersAreOwn`, `Delivers` | one session, the same Process Identifier at another peer and, for another point, at its own (an entry from before a restart), reads and registrations, I-Am polls; queues of 2; 3 requests on 2 invoke ids, so that they come round; datagrams in any order; acknowledgements may be refused |
| `newest` | `NeverBackwards`, `LastValueArrives` | two subscriptions and an old entry that has the Process Identifier of one for another point, queues of 1, so that every second notification is dropped; one read, whose poll drops what it finds; order kept, acknowledgements taken |
| `scan` | type, `OneOperation`, `SummaryIsTrue`, `ScanEnds`, `ValueIsLastAcked` | lists of up to 3 entries against `maxObjectListEntries` 2 and a buffer for 1 result and 2 property identifiers, against property lists of 1 and 3; malformed counts and entries, two kinds of failures, refusals and timeouts at each request; a cache of 2, so that one object's reads evict it; 3 operations |
| `exchange` | `AnswersAreMeant`, `HeardAsSaid`, `CutIsUnheard` | 31 requests of every kind, then one of two others, with a notification in between; 2 datagrams in flight; numbers of one to three octets, both signs, lists, bit strings, texts; each datagram also behind a router's header and cut after every octet; each answer also put to the polls that are given only a property |
| `longlist` | a violation of `WholeListIsWhole` | a device of 65 objects |

Deadlock is checked in `calls`, `lease`, `arrays` and `progress`. The other models
bound what the environment may do (`Budget`, `MaxOperations`, `MaxRequests`,
`MaxSize`), or stop with a server that was ended, and then really stop.

**Bounds worth knowing.** `MaxPollGap` and `MaxLate` bound the ticks between two
polls; without such a bound no statement about expiry or renewal could be made,
and `docs/cov.md` asks that `poll()` be called regularly. In `exchange` the invoke
id is the number of the request, so that ids do not come round; that they do is
in `any`. In `any` only one session reads: a read takes an answer from any source,
so that two sessions of one client that both wait for reads may take each other's.
`lease`, `arrays` and `progress` have `CallbacksPoll` and `PollsStopped` FALSE:
with either the code does not keep `OneOperation` or `LateAnswersAreDropped`
(section 5).

**Fairness.** No fairness is given to requests, value changes or restarts.

- `HFairSpec` (CovServerHistory): idle polls go on (weak fairness of a scan that
  sends nothing), the transport does not refuse for ever (strong fairness of a
  send that is taken, since entries take turns), time passes, peers answer.
- `FairSpec` (ClientSessionHistory): calls return, time passes, and the
  application polls each handle, or the array. `ReadsSentSpec` adds that the
  transport takes some read of each handle, `AnsweredSpec` that a registration is
  not refused or lost for ever. `RequestsEnd` and `RefreshHappens` are checked under
  the second, `CovReturns` under the third. The library promises none of these;
  they are what its documentation asks of the application and the network.
- `FairSpec` (ClientReceive): peers notify; a notification that was not
  acknowledged gets through in the end, since the server repeats it; requests end
  (they time out); subscriptions are polled, and not for ever just before the
  datagram comes.
- `FairSpec` (SessionReads): the scan is polled and calls return. Nothing is
  assumed of answers: a request may time out.

## 4. Proofs

Everything below is checked by TLAPS for every value of the constants that the
named assumptions admit: any table size, clock width, counter width, retry count
and timeout, any number of priorities, values, callbacks, handles, subscriptions,
cache slots and list entries.

**CovServer.** `IInv` is `TypeOK`, `UniqueKeys`, `AwaitingCanResend`,
`StoppedIsEmpty` and what makes them inductive together. `AwaitingCanResend` needs
that an active entry's snapshot is only written whole, `UniqueKeys` that the
search of `handleSubscribeCov` prefers an entry with the key over any free slot.
Theorems: `TypeCorrect`, `KeysAreUnique`, `ResendsAreComplete`,
`StoppedServerIsEmpty`.

**CovServerHistory.** `HistoryImplementsCovServer` maps the specification with
auxiliary variables onto `Spec`, so the theorems above hold of it. `HInv` adds the
types of those variables; on it rest one invariant per question, each with a lemma
that says what a step may do to one slot (`Kept`, `Fresh`, `Tried`):

- `BackoffsAreEarned` holds without assumptions.
- `RetriesAreBounded` assumes that the counter is wide enough for the configured
  count (`AttemptsCounted` relates it to the attempts really made).
- `SnapshotsAreLastTold` and `NotificationsTellChanges` assume that only comparable
  datatypes are subscribed (`SnapshotsFaithful`): what the scan compares with its
  snapshot is then compared with what the peer was last told.
- `NothingExpiresEarly` and `NothingIsSentLate` assume `LifetimesFit`: no lifetime
  longer than half of the clock's range. `DeadlinesCounted` says that while an entry
  is younger than one turn of the clock, its deadline is, modulo the turn, the time
  it began plus its lifetime; so the signed comparison of the code says of every
  such entry whether its age has reached the lifetime. The second theorem excepts,
  as the property does, an entry that no scan reached for half a turn afterwards.

Section 5 (items 2 to 5) says what happens where an assumption does not hold.

**CommandableObject.** `EffectivePriorityIsHighest` says what the two search loops
of `BacnetCommandPriority` compute. `CInv` adds to the type and the guard a
`Layout` of what is pending: at most one guarded call, its callbacks before its
end and told the committed state, an answer last and directly after the end of its
command. It is inductive because a guarded call can only start when no other is
in progress, and then nothing is pending that its commit could make stale.
Theorems: `CommandableTypeCorrect`, `GuardIsExact`, `AcknowledgedIsWritten` and,
assuming that the application does not command the object from inside the
Out_Of_Service call, `CallbacksAreCurrent`.

**CommandableHistory.** The invariant `HInv` says of each topic (a slot, the
effective priority, the present value) that what is pending *carries* the
application from what it was told to what the object is: once if they differ, not
at all if they agree. A command's five callbacks carry every topic from the state
before to the state after (`CommandSays`); it starts with nothing of the kind
pending (`BeforeCall`); and the return of the first callback takes one step of the
way (`CarriesTail`). Theorems: `ReportsAreAChain`, `NothingIsUnreported` and, under
the assumption of `CallbacksAreCurrent`, `OutputFollowsValue`.

**ServerObjects.** `Tables` says that the arrays hold objects of their own kind,
that stored properties are ones the kind takes, and that the registrations are a set
the server accepted; `TablesInOrder` is its invariance. What else is proved follows
from it state by state, or of one step:

- `ServerDescribesItself` compares tables that the code computes apart. Lemmas about
  each dispatch (which names it answers, which properties of them) meet lemmas about
  each list. The longest is Property_List: after the kind's own list the code copies,
  one by one, the registered and the stored properties that are not in it; the n-th of
  each is the n-th position that passes, and every such position has its number
  (`Nth`, `Picked`, `Rank`). The property compares sets: one that is registered and
  stored is listed twice (section 5). The theorem needs `SomeRelinquish`: some peer may ask that a slot
  be relinquished, which is how a client observes that an object is commandable.
- `ServedNamesStayApart`: two entries of Object_List are alike exactly if two objects
  of one array, or an Analog Value and a commandable one, share a number (`Separate`),
  and each setter and `addObject` refuses to make that so.
- `AcknowledgedWritesShow`: whatever else answers for a name, the priority array and,
  unless it is registered, the present value are read from the commandable object that
  a write to the name commands (`CommandsAnswered`), and the device answers none of
  what a write changes (`DeviceHasNoCommands`).

**ClientSessionHistory.** Assuming that callbacks do not poll. `SInv` adds to the
types and `OneOperation` the shape of the stack (`Frames`: no poll inside a
callback), that only active handles ask, and that a poll that has reached the
start of a request found the session free (`StartsFree`). `Kept` is shown of every
action, together with what the step tells the application. Theorems:
`SessionTypeCorrect`, `SessionHasOneOperation`, `AnswersAfterStopAreDropped`,
`ApplicationIsTold`.

`ActiveMeansGranted` is about time. `Aging(wait)` bounds the age of a grant by the
clock its renewal is scheduled by: before the renewal is due, age and time left add
up to at most the lead plus one request (the server's lifetime may have begun when
the first request was sent); while it is due, by how late it is; while it is in
flight, by `wait` and the time since it was sent. `LInv` adds that only handles that
prefer COV are registered, read nothing meanwhile (`Registered`), and that the
callback of a notification leaves the registration it came by (`FinishesRead`).
`RenewalsFit(wait)` says that two requests and the wait fit between renewal and the
end of the lifetime, in half of the clock's range.

- `PromptRenewalsKeepTheLease`, for any number of handles, assumes of the behaviour
  that no renewal waits longer than `wait` for its turn (`Prompt`). The code gives no
  such bound: a session has one operation at a time, and while a renewal is due the
  requests of other handles, or a scan, may take it again and again.
- `OneHandleKeepsItsLease`: with one handle and polls at most `MaxLate` apart every
  renewal is that prompt, and nothing is assumed of the behaviour. The instance is the
  one of the run `lease`, which keeps `RenewalsFit(MaxLate)`.

**ClientReceive.** `Carried`: whatever is queued, delivered or acknowledged was
sent. With it every step is one of `CovDelivery` or a stutter:
`EverythingCameFromAPeer`, and `ReceiveDelivers`, the refinement. `Bounded` adds the
sizes of the queues: `ReceiveTypeCorrect`.

- `RequestsGetTheirOwnAnswer`: what arrives as an answer is to a request of its
  service, made less than a round of invoke ids ago (`AnswersAreCurrent`), and within
  a round the id tells the request (`InvokeIdTells`). The theorem is about one
  session, or sessions that only register, whose answers are matched by source too;
  section 3 says what two reading sessions may do.
- `ValuesNeverTurnBack` assumes a network that keeps the order and a server that
  awaits each acknowledgement. `InLine`: for each subscription the queue of the
  session, that of the client and the datagrams on their way stand in line, each in
  order, nothing in one newer than in the next, all between what the application
  knows and what the peer last told. Dropping the oldest, filtering and taking from
  the middle leave a queue *thinner* (`Thinner`), and thinner queues stay in line.

**PropertyCache.** `CacheInv`: the free slots are those from `cacheCount` on and
`nextSlot` is the first of them, so that the search for a free slot returns it.
Theorems: `CacheKeepsLastAcked`, `CacheHasOneEntryEach`, `CacheEvictsOnlyWhenFull`.

**SessionReads.** `RInv`: one holder at most, and it is the job that is active;
every operator that advances a scan leaves it running with a request or ended
without: `SessionReadsOneOperation`. The rest assumes `ListsAssumption`, which types
what a device may answer (a length within what the code can count, objects that
exist); lengths that lie, malformed entries and every failure are answers like others.

- `SummaryTellsWhatWasAnswered`: `ScanInv` is `Sound` (between two polls the scan asks
  for something that is there to be asked for) and `Tallied`: the k-th accepted answer
  has the k-th place of the results while there is room, and found, inspected and
  truncated are what the answers add up to. Inside one call the scan is `Halfway`, and
  each operator of the call is shown to lead from there to `Sound`.
- `ReadsTypeCorrect` adds the same for the blocking list reads (`TaskSound`).
- `ReadsImplementCache`: every step updates the cache for one request as
  `PropertyCache` has it, or leaves it alone; `SessionKeepsLastAcked` follows from
  that refinement and `CacheKeepsLastAcked`.

**Codec, Exchange.** Two modules of lemmas, one theorem each that matters most. The
lemmas go from octets to messages: what a number, a tag, a value or a list of
parameters is written as is read back as it was, with what follows it untouched
(`ValueRead`), and what a builder makes of a request is what the parser makes of it.

- `CutsAreUnheard`: every datagram that is built has its own length in its header, and
  every parser compares the two first. That the builders do so is not the end of it: a
  write puts into the device what was read from octets, and a later answer is built
  from that. `ExchangeInv` therefore says that what is on its way to the server is a
  request that was asked (`SentInv`), and that the contents of properties, the priority
  array and the registration are such as the code has (`TableInv`), whatever arrives,
  late, twice or never (`ExchangeKept`).
- `AnswersMeant`: `Meant` says of octets that no poll, for the request of whatever
  number, takes them for anything but an answer that was given to that request.
  `MeantInv` says that all that is on its way to the client is `Meant` and that what was
  concluded is an answer that was given, which losing, repeating and reordering cannot
  change. For each thing the server builds there is a lemma that it is `Meant`: under
  another number or service it is not heard at all, under its own it is heard as the
  value, the list, the slots, the error or the acknowledgement that was answered
  (`ReadReplyHeard`). Since numbers do not come round (`MaxRequests` is at most 255),
  later requests cannot be those that an earlier answer names.

  The theorem assumes `ContentsFit`: a list is not empty and, as text, shorter than the
  client's 512 characters, and so is every text. The code does not promise more: the run
  `longlist` shows the last entry of a longer list missing (section 5). `ContentsFit`
  is about what the application gives the device, at first and with each change; nothing
  is assumed of what clients write or of the network.

**Model-checked only.** Liveness (`EventuallyTold`, `RequestsEnd`, `RefreshHappens`,
`CovReturns`, `LastValueArrives`, `ScanEnds`), which is out of the prover's reach, and
`HeardAsSaid`: its first half, that a datagram is heard with the value it was built from,
is in the lemmas above for requests and answers; what is not proved is that each parser
refuses what each other builder makes, and all of it a second time behind a router's
header. Every other property of a passing run is a theorem.

## 5. Where code and documents part

`longlist` checks one of these. The others were met while modelling, and the models
have the code's behaviour; the bounds or assumptions that keep them out of the runs
above are named.

*Server, COV.*

1. Without a clock the backoff after one refused send never ends (`BacnetServer.cpp:2313`,
   `docs/cov.md:117`). `settling` has `SendMayFail` FALSE.
2. Lifetimes over 2^31 ms count as over at the next scan (`:2494`, `docs/cov.md:87`).
   `table` has lifetimes below half its clock.
3. A retry count above 255 makes retries endless (`BacnetServer.h:842`, `docs/cov.md:112`).
   `RetriesAreBounded` assumes less.
4. A property without a comparison (text, object identifier) is notified by every idle
   poll, and a resend of it is empty (`:2257`, `:2371`, `docs/cov.md:74`). `RealObjects`
   of the runs excludes it, as `SnapshotsAreLastTold` does.
5. The scan always starts at slot 0, so an object that changes between any two polls
   starves later slots (`:2337`, `docs/cov.md:119`). `EventuallyTold` is about values that
   have settled. Expiry waits too: an entry not reached for half the clock's range after
   its lifetime looks alive again, hence the second part of `NoNotificationAfterExpiry`.

*Server, objects.*

6. Writing Out_Of_Service calls the output binding without the guard: a binding that
   commands its object there is passed the older value last (`:2119`,
   `docs/server/README.md:100`), and always a value that did not change (`:2110`,
   `docs/server/README.md:93`). `calls` has no such binding (`GuardedOnly`).
7. `configure()` after `addObject()` can give two objects one name; a property that is
   both registered and stored is listed twice; a stored value that is not finite, and the
   text of a Multi-state Value that is missing, are listed but cannot be read.
8. A write to an object that takes none is answered unknown-object.

*Client.*

9. `stop()` leaves `covActive_` set, so a stopped handle that is still polled gets
   notifications (`BacnetDeviceSession.cpp:1618`, `docs/cov.md:93`). `PollsStopped` is FALSE.
10. A callback that polls another handle can start a request that the outer poll
    overwrites (`:1650`, `docs/client/important.md:41`): the other handle stays in flight
    for ever. `CallbacksPoll` is FALSE, and the theorems assume it.
11. A renewal lead not shorter than the lifetime schedules the renewal after the entry
    has ended (`:1838`, `docs/cov.md:82`). `lease` has a shorter one.
12. `requestRefresh()` starts no read while COV is active (`:373`,
    `docs/client/important.md:40`). `RefreshHappens` excepts this.
13. Polled as an array, a handle without fallback polling never registers again after a
    refusal (`:1675`, `docs/cov.md:102`). `progress` polls one handle.

*Protocol.*

14. A list read as a whole is cut at 512 characters of text, silently when the cut falls
    on its last entry (`BacnetProtocol.cpp:482`): run `longlist`.
15. Requests advertise answers of 1476 octets but the client's buffer has 512: a longer
    answer is dropped. Texts over 253 octets, bit strings over 24 octets and lists that
    do not fit get no answer from the server. A State_Text list read as a whole cannot be
    parsed by the client.
16. A read without an array index accepts an answer with one; an object type above 1023
    wraps in read and subscribe requests; the error of a write counts as "not commandable"
    only when the header holds no router address.
17. `parseCovNotification` checks for two octets of header and then reads a third; the
    display of a number casts any float to 32 bits, which C++ leaves undefined for large
    ones. Neither is modelled: the model's parser needs the third octet.

## 6. Not modelled

- **Remote object and priority reset**: a sequence of the session's blocking writes that
  stops at the first failure and keeps no state beyond the call.
- **Analog limits and linear scale**: floating-point arithmetic. Over integers the model
  would be of other code.
- **Restart inside a run**: `end()` and `begin()` are in `CovServer` and `ServerObjects`;
  no state is persisted, so there is no crash recovery to check.
- **Moving a handle** keeps its identity here: `moveFrom()` re-points the session.
- **Low level**: `pollCovNotification()` that acknowledges without a subscription, and
  `begin()` and `end()` of the client; diagnostics; error codes and times in the cache;
  the derivation of an object's health from its status properties.
- **Logger, text buffers, display text; platform adapters; the command-line client, the
  ESP32 examples with their demo recovery, tools**: formatting, sockets, applications.
  In the models the transport is a choice between taking and refusing a datagram.
