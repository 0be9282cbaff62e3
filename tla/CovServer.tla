------------------------------ MODULE CovServer ------------------------------
(***************************************************************************)
(* The COV (change of value) side of BacnetServer: the fixed table of      *)
(* subscriptions, the SubscribeCOV handlers, the scan that poll() runs     *)
(* when no datagram is waiting, and the answers to confirmed               *)
(* notifications.  The server is single-threaded: each action below is one *)
(* call into it (begin, end, or one poll), or a change of what it reads    *)
(* (the clock, the monitored objects).                                     *)
(*                                                                         *)
(* Time is the 32-bit millisecond counter of BacnetMonotonicClock, kept    *)
(* modulo TimeMod.  covSubscriptions_ and the arrays that run parallel to  *)
(* it are one function, slots.  lastAckMs is left out: the server only     *)
(* stores it for diagnostics.  Array indexes are left out: readCovValue    *)
(* refuses every request that has one.                                     *)
(***************************************************************************)
EXTENDS Integers, FiniteSets

CONSTANTS
    MaxCovSubscriptions,  \* kMaxCovSubscriptions, 8 in the code
    Keys,                 \* the subscription tuples peers may ask for
    Requests,             \* the SubscribeCOV requests peers may send
    Peers,                \* subscriber endpoints (address and port)
    Objects,              \* the monitored objects
    RealObjects,          \* those whose Present_Value is a Real
    Values,               \* the values a property takes
    Unset,                \* no value in this cell of a snapshot
    Blank,                \* a value whose payload the snapshot does not keep
    HasClock,             \* setClock was called
    TimeMod,              \* 2^32
    InvokeMod,            \* 2^8
    CounterMod,           \* 2^8, the width of the two retry counters
    TicksPerSecond,       \* 1000
    ApduTimeout,          \* device_.apduTimeout
    NumberOfApduRetries   \* device_.numberOfApduRetries

Slots == 1..MaxCovSubscriptions

\* ObjectName stands for every property whose datatype the change test does
\* not compare (character strings, object identifiers).
Properties == {"PresentValue", "StatusFlags", "ObjectName"}
Comparable == {"PresentValue", "StatusFlags"}

Key == [peer : Peers, processId : Nat, object : Objects,
        form : Properties \cup {"object"}]

\* A request with no COV increment carries NoIncrement.
NoIncrement == -1
Request == [key : Keys, lifetime : Nat, confirmed : BOOLEAN, increment : Int]

ASSUME CovServerAssumption ==
    /\ MaxCovSubscriptions \in Nat \ {0}
    /\ Keys \subseteq Key
    /\ Requests \subseteq Request
    /\ RealObjects \subseteq Objects
    /\ Values \subseteq Int /\ Values # {}
    /\ Unset \notin Values /\ Blank \notin Values /\ Unset # Blank
    /\ HasClock \in BOOLEAN
    /\ TimeMod \in Nat /\ TimeMod > 5
    /\ InvokeMod \in Nat /\ InvokeMod > 1
    /\ CounterMod \in Nat \ {0}
    /\ TicksPerSecond \in Nat \ {0}
    /\ ApduTimeout \in Nat
    /\ NumberOfApduRetries \in Nat

VARIABLES
    running,        \* running_
    now,            \* what clock_->nowMs() returns
    values,         \* the current value of each property of each object
    readable,       \* the objects whose properties readCovValue can read
    slots,          \* the subscription table
    nextInvokeId    \* nextCovInvokeId_

vars == <<running, now, values, readable, slots, nextInvokeId>>

-----------------------------------------------------------------------------
\* Clock arithmetic.

Time == 0..(TimeMod - 1)
Wrap(t) == t % TimeMod

\* nowMs() is 0 when no clock is bound.
Now == IF HasClock THEN now ELSE 0

\* Mutant: the deadline is compared without regard to the wrap.
ReachedUnwrapped(deadline) == Now >= deadline

\* static_cast<int32_t>(now - deadline) >= 0
Reached(deadline) == Wrap(Now - deadline) < TimeMod \div 2

Elapsed(since) == Wrap(Now - since)

-----------------------------------------------------------------------------
\* One entry of the table.

NoSnapshot == [p \in Properties |-> Unset]

Inactive == [state |-> "Inactive", key |-> Unset, confirmed |-> FALSE,
             increment |-> NoIncrement, lifetime |-> 0, expiresAt |-> 0,
             lastSent |-> 0, pendingInvokeId |-> 0, snapshot |-> NoSnapshot,
             confirmedRetries |-> 0, sendRetries |-> 0, retryAt |-> 0]

InUse(s) == s.state # "Inactive"
Awaiting(s) == s.state = "AwaitingConfirmedAck"

\* Cancelling, and begin() and end(), clear the entry, its snapshot and its
\* confirmed-retry count; the backoff of the slot stays behind.
Cleared(s) == [Inactive EXCEPT !.sendRetries = s.sendRetries,
                               !.retryAt = s.retryAt]

\* An object subscription reports two properties, a property one its own.
Monitored(key) ==
    IF key.form = "object" THEN {"PresentValue", "StatusFlags"} ELSE {key.form}

Reading(key) ==
    [p \in Properties |->
        IF p \in Monitored(key) THEN values[key.object][p] ELSE Unset]

\* What a snapshot keeps of a reading: the payload of a text is not stored.
Stored(reading) ==
    [p \in Properties |->
        IF p \in Comparable \/ reading[p] = Unset THEN reading[p] ELSE Blank]

Distance(a, b) == IF a < b THEN b - a ELSE a - b

\* Mutant: a change of exactly the increment is not enough.
DiffersAboveIncrement(s, p, value) ==
    LET last == s.snapshot[p]
    IN  \/ last = Unset
        \/ /\ last # Unset
           /\ value # last
           /\ s.increment # NoIncrement => Distance(value, last) > s.increment

\* The increment of the subscription applies to a Real Present_Value only.
DiffersFromSnapshot(s, p, value) ==
    LET last == s.snapshot[p]
    IN  \/ p \notin Comparable
        \/ last = Unset
        \/ /\ p \in Comparable /\ last # Unset
           /\ value # last
           /\ s.increment # NoIncrement => Distance(value, last) >= s.increment

HasChange(s) ==
    /\ s.key.object \in readable
    /\ \E p \in Monitored(s.key) : DiffersFromSnapshot(s, p, values[s.key.object][p])

\* Mutant: an entry expires one tick after its deadline.
ExpiredLate(s) ==
    s.lifetime # 0 /\ HasClock /\ Reached(s.expiresAt) /\ Now # s.expiresAt

Expired(s) == s.lifetime # 0 /\ HasClock /\ Reached(s.expiresAt)

BackingOff(s) == s.retryAt # 0 /\ ~Reached(s.retryAt)

AckOverdue(s) == Awaiting(s) /\ HasClock /\ Elapsed(s.lastSent) >= ApduTimeout

\* Mutant: one retry too many.
RetriesUsedLate(s) == s.confirmedRetries > NumberOfApduRetries

RetriesUsed(s) == s.confirmedRetries >= NumberOfApduRetries

-----------------------------------------------------------------------------
\* processCovSubscriptions: what the scan does with one entry.

Due(s) == InUse(s) /\ ~Expired(s) /\ ~BackingOff(s)

Resends(s) == Due(s) /\ AckOverdue(s) /\ ~RetriesUsed(s)
Notifies(s) == Due(s) /\ s.state = "Active" /\ HasChange(s)
Sends(s) == Resends(s) \/ Notifies(s)

\* Mutant: the scan compares with what it read last, not with what was sent.
PassedOverDrifting(s) ==
    CASE InUse(s) /\ Expired(s) -> Inactive
      [] Due(s) /\ AckOverdue(s) /\ RetriesUsed(s) ->
            [s EXCEPT !.state = "Active", !.confirmedRetries = 0]
      [] Due(s) /\ s.state = "Active" /\ s.key.object \in readable ->
            [s EXCEPT !.snapshot = Stored(Reading(s.key))]
      [] OTHER -> s

\* An entry the scan goes past is cleared when its lifetime is over, and no
\* longer waits for an answer when its retries are used.
PassedOver(s) ==
    CASE InUse(s) /\ Expired(s) -> Inactive
      [] Due(s) /\ AckOverdue(s) /\ RetriesUsed(s) ->
            [s EXCEPT !.state = "Active", !.confirmedRetries = 0]
      [] OTHER -> s

\* A resend repeats the snapshot; a new notification carries current values.
Outgoing(s) == IF Awaiting(s) THEN s.snapshot ELSE Reading(s.key)

\* The caller of sendCovNotification counts a resend, whether or not the send
\* succeeds, and restarts the count for a new notification.
Attempted(s) ==
    [s EXCEPT !.confirmedRetries = IF Awaiting(s) THEN (@ + 1) % CounterMod ELSE 0]

\* sendCovNotification, when the transport takes the datagram.
AfterSend(s) ==
    [Attempted(s) EXCEPT
        !.sendRetries = 0,
        !.retryAt = 0,
        !.lastSent = Now,
        !.pendingInvokeId = IF s.confirmed THEN nextInvokeId ELSE 0,
        !.state = IF s.confirmed THEN "AwaitingConfirmedAck" ELSE "Active",
        !.snapshot = Stored(Outgoing(s))]

\* sendCovNotification, when it does not: a linear backoff, capped below half
\* of the clock's range, with 0 kept free for "no retry pending".
BackoffDelay(retries) ==
    LET delay == (IF ApduTimeout # 0 THEN ApduTimeout ELSE TicksPerSecond)
                     * (IF retries # 0 THEN retries ELSE 1)
        cap   == (TimeMod \div 2) - 2
    IN  IF delay < cap THEN delay ELSE cap

BackoffDeadline(retries) ==
    LET deadline == Wrap(Now + BackoffDelay(retries))
    IN  IF deadline = 0 THEN 1 ELSE deadline

FailedSends(s) ==
    IF s.sendRetries < NumberOfApduRetries
    THEN (s.sendRetries + 1) % CounterMod ELSE s.sendRetries

\* Mutant: a refused send stores what it would have sent.
AfterFailedSendStored(s) ==
    [Attempted(s) EXCEPT !.sendRetries = FailedSends(s),
                         !.retryAt = BackoffDeadline(FailedSends(s)),
                         !.snapshot = Stored(Outgoing(s))]

\* A refused send: the snapshot stays what was last taken.
AfterFailedSend(s) ==
    [Attempted(s) EXCEPT !.sendRetries = FailedSends(s),
                         !.retryAt = BackoffDeadline(FailedSends(s))]

\* Mutant: the invoke id wraps to 0.
InvokeIdThroughZero(s) ==
    IF s.confirmed THEN (nextInvokeId + 1) % InvokeMod ELSE nextInvokeId

\* Only a confirmed notification takes an invoke id, and takes it even when
\* the send fails; 0 is skipped.
InvokeIdAfter(s) ==
    CASE ~s.confirmed -> nextInvokeId
      [] s.confirmed /\ (nextInvokeId + 1) % InvokeMod = 0 -> 1
      [] OTHER -> (nextInvokeId + 1) % InvokeMod

-----------------------------------------------------------------------------
\* handleSubscribeCov: acceptance, and the entry a request is given.

\* The property exists, and an increment is for a Real Present_Value; any
\* other request is answered with an error and changes nothing.
Acceptable(req) ==
    /\ req.key.object \in readable
    /\ \/ req.increment = NoIncrement
       \/ req.key.form = "PresentValue" /\ req.key.object \in RealObjects

Holds(i, key) == InUse(slots[i]) /\ slots[i].key = key

\* Mutant: the search ends at the first entry that is free or has the key.
TargetFirst(i, key) ==
    /\ ~InUse(slots[i]) \/ Holds(i, key)
    /\ \A j \in Slots : j < i => InUse(slots[j]) /\ ~Holds(j, key)

\* The search goes on past the first free slot: an entry with the key wins
\* wherever it is.
Target(i, key) ==
    \/ /\ Holds(i, key)
       /\ \A j \in Slots : j < i => ~Holds(j, key)
    \/ /\ \A j \in Slots : ~Holds(j, key)
       /\ ~InUse(slots[i])
       /\ \A j \in Slots : j < i => InUse(slots[j])

NewEntry(req) ==
    [Inactive EXCEPT
        !.state = "Active",
        !.key = req.key,
        !.confirmed = req.confirmed,
        !.increment = req.increment,
        !.lifetime = req.lifetime,
        !.expiresAt = IF HasClock THEN Wrap(Now + req.lifetime * TicksPerSecond) ELSE 0]

-----------------------------------------------------------------------------
\* The calls.

Init ==
    /\ running = FALSE
    /\ now \in Time
    /\ values \in [Objects -> [Properties -> Values]]
    /\ readable = Objects
    /\ slots = [i \in Slots |-> Inactive]
    /\ nextInvokeId = 1

\* begin(), when the transport opens; a running server may be begun again.
Begin ==
    /\ running' = TRUE
    /\ slots' = [i \in Slots |-> Cleared(slots[i])]
    /\ UNCHANGED <<now, values, readable, nextInvokeId>>

End ==
    /\ running' = FALSE
    /\ slots' = [i \in Slots |-> Cleared(slots[i])]
    /\ UNCHANGED <<now, values, readable, nextInvokeId>>

\* A millisecond passes.
Tick ==
    /\ now' = Wrap(now + 1)
    /\ UNCHANGED <<running, values, readable, slots, nextInvokeId>>

\* The application, a WriteProperty or a value provider changes what a
\* property reads as.
ChangeValue(o, p, v) ==
    /\ values[o][p] # v
    /\ values' = [values EXCEPT ![o][p] = v]
    /\ UNCHANGED <<running, now, readable, slots, nextInvokeId>>

\* The object is registered or withdrawn, or its provider starts or stops
\* failing.
ChangeReadable(o) ==
    /\ readable' = IF o \in readable THEN readable \ {o} ELSE readable \cup {o}
    /\ UNCHANGED <<running, now, values, slots, nextInvokeId>>

\* Mutant: a new entry inherits the backoff of its slot.
SubscribeKeepingBackoff(req, i) ==
    /\ running
    /\ Acceptable(req)
    /\ req.lifetime # 0
    /\ Target(i, req.key)
    /\ slots' = [slots EXCEPT ![i] = [NewEntry(req) EXCEPT
                                         !.sendRetries = slots[i].sendRetries,
                                         !.retryAt = slots[i].retryAt]]
    /\ UNCHANGED <<running, now, values, readable, nextInvokeId>>

\* A poll that receives SubscribeCOV with a lifetime.  The entry is made
\* before the answer is sent, and stays when the answer cannot be sent.
Subscribe(req, i) ==
    /\ running
    /\ Acceptable(req)
    /\ req.lifetime # 0
    /\ Target(i, req.key)
    /\ slots' = [slots EXCEPT ![i] = NewEntry(req)]
    /\ UNCHANGED <<running, now, values, readable, nextInvokeId>>

\* A poll that receives SubscribeCOV with lifetime 0, for an entry it has.
Cancel(req, i) ==
    /\ running
    /\ Acceptable(req)
    /\ req.lifetime = 0
    /\ Holds(i, req.key)
    /\ Target(i, req.key)
    /\ slots' = [slots EXCEPT ![i] = Cleared(@)]
    /\ UNCHANGED <<running, now, values, readable, nextInvokeId>>

\* A poll that receives an answer (SimpleACK, Error, Reject or Abort) to the
\* pending notification of entry i: the first one waiting on this peer with
\* this invoke id.
Answers(i, peer, invokeId) ==
    Awaiting(slots[i]) /\ slots[i].key.peer = peer /\ slots[i].pendingInvokeId = invokeId

ReceiveAnswer(peer, invokeId, i) ==
    /\ running
    /\ Answers(i, peer, invokeId)
    /\ \A j \in Slots : j < i => ~Answers(j, peer, invokeId)
    /\ slots' = [slots EXCEPT ![i].state = "Active", ![i].confirmedRetries = 0]
    /\ UNCHANGED <<running, now, values, readable, nextInvokeId>>

\* A poll with no datagram and nothing to send.
ScanWithoutSend ==
    /\ running
    /\ \A i \in Slots : ~Sends(slots[i])
    /\ slots' = [i \in Slots |-> PassedOver(slots[i])]
    /\ UNCHANGED <<running, now, values, readable, nextInvokeId>>

\* A poll with no datagram that sends: the scan starts at the first entry and
\* ends with the first send.  taken is what transport_->send returns.
ScanAndSend(i, taken) ==
    /\ running
    /\ Sends(slots[i])
    /\ \A j \in Slots : j < i => ~Sends(slots[j])
    /\ slots' = [j \in Slots |->
                    CASE j < i -> PassedOver(slots[j])
                      [] j = i -> IF taken THEN AfterSend(slots[i])
                                           ELSE AfterFailedSend(slots[i])
                      [] OTHER -> slots[j]]
    /\ nextInvokeId' = InvokeIdAfter(slots[i])
    /\ UNCHANGED <<running, now, values, readable>>

IdlePoll ==
    \/ ScanWithoutSend
    \/ \E i \in Slots, taken \in BOOLEAN : ScanAndSend(i, taken)

ReceivePoll ==
    \/ \E req \in Requests, i \in Slots : Subscribe(req, i) \/ Cancel(req, i)
    \/ \E peer \in Peers, invokeId \in 1..(InvokeMod - 1), i \in Slots :
            ReceiveAnswer(peer, invokeId, i)

Environment ==
    \/ Begin
    \/ End
    \/ Tick
    \/ \E o \in Objects, p \in Properties, v \in Values : ChangeValue(o, p, v)
    \/ \E o \in Objects : ChangeReadable(o)

Next == IdlePoll \/ ReceivePoll \/ Environment

Spec == Init /\ [][Next]_vars

-----------------------------------------------------------------------------
\* Safety.

Entry == [state : {"Inactive", "Active", "AwaitingConfirmedAck"},
          key : Keys \cup {Unset}, confirmed : BOOLEAN, increment : Int,
          lifetime : Nat, expiresAt : Time, lastSent : Time,
          pendingInvokeId : 0..(InvokeMod - 1),
          snapshot : [Properties -> Values \cup {Unset, Blank}],
          confirmedRetries : 0..(CounterMod - 1),
          sendRetries : 0..(CounterMod - 1), retryAt : Time]

\* The type of every variable: clock readings stay inside the 32-bit counter,
\* invoke ids are 1..255, and every field of the table keeps its width.
TypeOK ==
    /\ running \in BOOLEAN
    /\ now \in Time
    /\ values \in [Objects -> [Properties -> Values]]
    /\ readable \subseteq Objects
    /\ slots \in [Slots -> Entry]
    /\ nextInvokeId \in 1..(InvokeMod - 1)

\* An entry is identified by its tuple: no sequence of subscriptions,
\* renewals, cancellations and expiries gives one tuple two entries, which
\* would notify its peer twice for every change.
UniqueKeys ==
    \A i, j \in Slots : (i # j /\ InUse(slots[i])) => ~Holds(j, slots[i].key)

\* An entry that waits for an acknowledgement is a confirmed one, has a usable
\* invoke id, and its snapshot holds a value for everything a resend carries
\* (the resend does not read the object again).
AwaitingCanResend ==
    \A i \in Slots : Awaiting(slots[i]) =>
        /\ slots[i].confirmed
        /\ slots[i].pendingInvokeId # 0
        /\ \A p \in Monitored(slots[i].key) : slots[i].snapshot[p] # Unset

\* A stopped server has no subscriptions, so begin() starts with none.
StoppedIsEmpty == ~running => \A i \in Slots : ~InUse(slots[i])

=============================================================================
