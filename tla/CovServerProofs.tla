---------------------------- MODULE CovServerProofs ----------------------------
(***************************************************************************)
(* TLAPS proofs about CovServer and the promises CovServerHistory states    *)
(* with its auxiliary variables, for every table size, clock width, retry   *)
(* setting and set of requests.  First the type of the clock and of one     *)
(* entry under each operation, then the invariants.  The promises look at   *)
(* one slot at a time: a step empties a slot, keeps its entry, puts a new   *)
(* entry into it, or tries to send for the entry in it.                     *)
(***************************************************************************)
EXTENDS CovServerHistory, TLAPS

-----------------------------------------------------------------------------
\* Arithmetic modulo the clock and counter widths.

\* Every wrapped reading lies inside the clock's range.
LEMMA WrapType == ASSUME NEW t \in Int PROVE Wrap(t) \in Time
BY CovServerAssumption DEF Wrap, Time

\* The clock the server sees, bound or not, is an integer inside the range.
LEMMA NowType == ASSUME now \in Time PROVE Now \in Time
BY CovServerAssumption DEF Now, Time

\* Time is a set of integers that holds 0 and 1.
LEMMA TimeFacts == Time \subseteq Int /\ 0 \in Time /\ 1 \in Time
BY CovServerAssumption DEF Time

\* A counter that is stepped stays inside its width.
LEMMA CounterStep ==
    ASSUME NEW c \in 0..(CounterMod - 1)
    PROVE  (c + 1) % CounterMod \in 0..(CounterMod - 1) /\ 0 \in 0..(CounterMod - 1)
BY CovServerAssumption

\* An invoke id is followed by an invoke id, never by 0.
LEMMA InvokeIdStep ==
    ASSUME NEW s, nextInvokeId \in 1..(InvokeMod - 1)
    PROVE  InvokeIdAfter(s) \in 1..(InvokeMod - 1)
<1>1. (nextInvokeId + 1) % InvokeMod \in 0..(InvokeMod - 1)
  BY CovServerAssumption
<1>. QED BY <1>1, CovServerAssumption DEF InvokeIdAfter

-----------------------------------------------------------------------------
\* One entry under each operation.

\* What is true of every entry of the table in every state.
WellFormed(s) ==
    /\ s \in Entry
    /\ InUse(s) => s.key \in Keys
    /\ Awaiting(s) =>
        /\ s.confirmed
        /\ s.pendingInvokeId # 0
        /\ \A p \in Monitored(s.key) : s.snapshot[p] # Unset

\* An empty entry is well formed and not in use.
LEMMA InactiveWellFormed == WellFormed(Inactive) /\ ~InUse(Inactive)
<1>1. NoSnapshot \in [Properties -> Values \cup {Unset, Blank}]
  BY DEF NoSnapshot
<1>2. /\ 0 \in 0..(CounterMod - 1) /\ 0 \in 0..(InvokeMod - 1) /\ 0 \in Time
  BY CovServerAssumption DEF Time
<1>. QED BY <1>1, <1>2 DEF WellFormed, Inactive, Entry, InUse, Awaiting, NoIncrement

\* So is an entry that was cancelled, or cleared by begin() or end().
LEMMA ClearedWellFormed ==
    ASSUME NEW s, WellFormed(s)
    PROVE  WellFormed(Cleared(s)) /\ ~InUse(Cleared(s))
BY InactiveWellFormed DEF WellFormed, Cleared, Inactive, Entry, InUse, Awaiting

\* The scan gives an entry it goes past no new owner: it is kept or removed.
LEMMA PassedOverWellFormed ==
    ASSUME NEW s, WellFormed(s)
    PROVE  /\ WellFormed(PassedOver(s))
           /\ InUse(PassedOver(s)) => InUse(s) /\ PassedOver(s).key = s.key
<1>1. CASE InUse(s) /\ Expired(s)
  BY <1>1, InactiveWellFormed DEF PassedOver, Due
<1>2. CASE ~(InUse(s) /\ Expired(s)) /\ Due(s) /\ AckOverdue(s) /\ RetriesUsed(s)
  <2>1. PassedOver(s) = [s EXCEPT !.state = "Active", !.confirmedRetries = 0]
    BY <1>2 DEF PassedOver, Due
  <2>2. 0 \in 0..(CounterMod - 1)
    BY CovServerAssumption
  <2>. QED BY <1>2, <2>1, <2>2 DEF WellFormed, Entry, InUse, Awaiting, Due
<1>3. CASE ~(InUse(s) /\ Expired(s)) /\ ~(Due(s) /\ AckOverdue(s) /\ RetriesUsed(s))
  BY <1>3 DEF PassedOver
<1>. QED BY <1>1, <1>2, <1>3

\* The deadline a refused send leaves behind is a clock reading.
LEMMA BackoffDeadlineType ==
    ASSUME now \in Time, NEW n \in 0..(CounterMod - 1)
    PROVE  BackoffDeadline(n) \in Time
<1>1. BackoffDelay(n) \in Int
  BY CovServerAssumption DEF BackoffDelay
<1>2. Now \in Int
  BY NowType, TimeFacts
<1>3. Now + BackoffDelay(n) \in Int
  BY <1>1, <1>2
<1>4. Wrap(Now + BackoffDelay(n)) \in Time
  BY <1>3, WrapType
<1>. QED BY <1>4, TimeFacts DEF BackoffDeadline

\* Counting an attempt keeps the entry's type and everything but the count.
LEMMA AttemptedType ==
    ASSUME NEW s \in Entry
    PROVE  /\ Attempted(s) \in Entry
           /\ Attempted(s).state = s.state
           /\ Attempted(s).key = s.key
           /\ Attempted(s).confirmed = s.confirmed
           /\ Attempted(s).pendingInvokeId = s.pendingInvokeId
           /\ Attempted(s).snapshot = s.snapshot
<1>1. (IF Awaiting(s) THEN (s.confirmedRetries + 1) % CounterMod ELSE 0)
          \in 0..(CounterMod - 1)
  BY CounterStep DEF Entry
<1>. QED BY <1>1 DEF Attempted, Entry

\* What is sent for an entry in use has a value for everything it reports, and
\* so has what the snapshot keeps of it.
LEMMA StoredType ==
    ASSUME values \in [Objects -> [Properties -> Values]],
           NEW s, WellFormed(s), InUse(s)
    PROVE  /\ Stored(Outgoing(s)) \in [Properties -> Values \cup {Unset, Blank}]
           /\ \A p \in Monitored(s.key) : Stored(Outgoing(s))[p] # Unset
<1>1. s.key \in Key /\ s.key.object \in Objects /\ Monitored(s.key) \subseteq Properties
  BY CovServerAssumption DEF WellFormed, Key, Monitored, Properties
<1>2. /\ Outgoing(s) \in [Properties -> Values \cup {Unset, Blank}]
      /\ \A p \in Monitored(s.key) : Outgoing(s)[p] # Unset
  <2>1. CASE Awaiting(s)
    BY <2>1 DEF Outgoing, WellFormed, Entry
  <2>2. CASE ~Awaiting(s)
    BY <1>1, <2>2, CovServerAssumption DEF Outgoing, Reading
  <2>. QED BY <2>1, <2>2
<1>. QED BY <1>1, <1>2, CovServerAssumption DEF Stored

\* A notification that is sent leaves a well-formed entry for the same tuple;
\* where it waits for an answer it can be resent.
LEMMA AfterSendWellFormed ==
    ASSUME TypeOK, NEW s, WellFormed(s), InUse(s)
    PROVE  /\ WellFormed(AfterSend(s))
           /\ InUse(AfterSend(s))
           /\ AfterSend(s).key = s.key
<1> DEFINE a == Attempted(s)
<1>1. /\ a \in Entry /\ a.key = s.key /\ a.confirmed = s.confirmed
  BY AttemptedType DEF WellFormed
<1>2. /\ Stored(Outgoing(s)) \in [Properties -> Values \cup {Unset, Blank}]
      /\ \A p \in Monitored(s.key) : Stored(Outgoing(s))[p] # Unset
  BY StoredType DEF TypeOK
<1>3. Now \in Time /\ 0 \in Time
  BY NowType, TimeFacts DEF TypeOK
<1>4. /\ (IF s.confirmed THEN nextInvokeId ELSE 0) \in 0..(InvokeMod - 1)
      /\ s.confirmed => (IF s.confirmed THEN nextInvokeId ELSE 0) # 0
      /\ 0 \in 0..(CounterMod - 1)
  BY CovServerAssumption DEF TypeOK
<1>5. s.confirmed \in BOOLEAN /\ s.key \in Keys
  BY DEF WellFormed, Entry
<1> HIDE DEF a
<1>6. AfterSend(s) = [a EXCEPT
        !.sendRetries = 0,
        !.retryAt = 0,
        !.lastSent = Now,
        !.pendingInvokeId = IF s.confirmed THEN nextInvokeId ELSE 0,
        !.state = IF s.confirmed THEN "AwaitingConfirmedAck" ELSE "Active",
        !.snapshot = Stored(Outgoing(s))]
  BY DEF AfterSend, a
<1>7. AfterSend(s) \in Entry
  BY <1>1, <1>2, <1>3, <1>4, <1>6 DEF Entry
<1>8. /\ AfterSend(s).state = IF s.confirmed THEN "AwaitingConfirmedAck" ELSE "Active"
      /\ AfterSend(s).key = s.key
      /\ AfterSend(s).confirmed = s.confirmed
      /\ AfterSend(s).pendingInvokeId = IF s.confirmed THEN nextInvokeId ELSE 0
      /\ AfterSend(s).snapshot = Stored(Outgoing(s))
  BY <1>1, <1>6 DEF Entry
<1>. QED BY <1>2, <1>4, <1>5, <1>7, <1>8 DEF WellFormed, InUse, Awaiting

\* So does one that is refused: the entry keeps its state and its snapshot.
LEMMA AfterFailedSendWellFormed ==
    ASSUME TypeOK, NEW s, WellFormed(s), InUse(s)
    PROVE  /\ WellFormed(AfterFailedSend(s))
           /\ InUse(AfterFailedSend(s))
           /\ AfterFailedSend(s).key = s.key
<1> DEFINE a == Attempted(s)
<1>1. /\ a \in Entry
      /\ a.state = s.state
      /\ a.key = s.key
      /\ a.confirmed = s.confirmed
      /\ a.pendingInvokeId = s.pendingInvokeId
      /\ a.snapshot = s.snapshot
  BY AttemptedType DEF WellFormed
<1>2. FailedSends(s) \in 0..(CounterMod - 1)
  BY CounterStep DEF FailedSends, WellFormed, Entry
<1>3. BackoffDeadline(FailedSends(s)) \in Time
  BY <1>2, BackoffDeadlineType DEF TypeOK
<1> HIDE DEF a
<1>4. AfterFailedSend(s) = [a EXCEPT !.sendRetries = FailedSends(s),
                                     !.retryAt = BackoffDeadline(FailedSends(s))]
  BY DEF AfterFailedSend, a
<1>5. AfterFailedSend(s) \in Entry
  BY <1>1, <1>2, <1>3, <1>4 DEF Entry
<1>6. /\ AfterFailedSend(s).state = s.state
      /\ AfterFailedSend(s).key = s.key
      /\ AfterFailedSend(s).confirmed = s.confirmed
      /\ AfterFailedSend(s).pendingInvokeId = s.pendingInvokeId
      /\ AfterFailedSend(s).snapshot = s.snapshot
  BY <1>1, <1>4 DEF Entry
<1>. QED BY <1>5, <1>6 DEF WellFormed, InUse, Awaiting

\* A new or renewed entry.
LEMMA NewEntryWellFormed ==
    ASSUME TypeOK, NEW req \in Requests
    PROVE  WellFormed(NewEntry(req)) /\ NewEntry(req).key = req.key
<1>1. /\ req.key \in Keys /\ req.lifetime \in Nat
      /\ req.confirmed \in BOOLEAN /\ req.increment \in Int
  BY CovServerAssumption DEF Request
<1>2. Now + req.lifetime * TicksPerSecond \in Int
  <2>1. Now \in Int
    BY NowType, TimeFacts DEF TypeOK
  <2>2. req.lifetime * TicksPerSecond \in Int
    BY <1>1, CovServerAssumption
  <2>. QED BY <2>1, <2>2
<1>3. (IF HasClock THEN Wrap(Now + req.lifetime * TicksPerSecond) ELSE 0) \in Time
  BY <1>2, WrapType, TimeFacts
<1>4. Inactive \in Entry
  BY InactiveWellFormed DEF WellFormed
<1>. QED BY <1>1, <1>3, <1>4 DEF NewEntry, Inactive, WellFormed, Entry, InUse, Awaiting

-----------------------------------------------------------------------------
\* The inductive invariant.

\* TypeOK alone is not inductive: a resend needs the snapshot of its entry, and
\* a renewal replaces the only entry that has the tuple.
IInv ==
    /\ TypeOK
    /\ \A i \in Slots : WellFormed(slots[i])
    /\ UniqueKeys
    /\ StoppedIsEmpty

\* When every entry keeps its tuple or goes out of use, no tuple is doubled.
LEMMA KeptKeysStayUnique ==
    ASSUME UniqueKeys,
           \A i \in Slots : InUse(slots'[i]) => InUse(slots[i]) /\ slots'[i].key = slots[i].key
    PROVE  UniqueKeys'
BY DEF UniqueKeys, Holds

\* The server starts stopped, with an empty table.
LEMMA InitIInv == Init => IInv
<1> SUFFICES ASSUME Init PROVE IInv
  OBVIOUS
<1>1. \A i \in Slots : slots[i] = Inactive
  BY DEF Init
<1>2. \A i \in Slots : WellFormed(slots[i]) /\ ~InUse(slots[i])
  BY <1>1, InactiveWellFormed
<1>3. slots \in [Slots -> Entry]
  BY <1>2 DEF Init, WellFormed
<1>4. nextInvokeId \in 1..(InvokeMod - 1)
  BY CovServerAssumption DEF Init
<1>5. TypeOK
  BY <1>3, <1>4 DEF Init, TypeOK
<1>. QED BY <1>2, <1>5 DEF IInv, UniqueKeys, StoppedIsEmpty, Holds

\* Calls that leave the table alone: only the type of what they change counts.
LEMMA TableKept ==
    ASSUME IInv, UNCHANGED <<slots, running>>, TypeOK'
    PROVE  IInv'
<1>1. \A i \in Slots : WellFormed(slots'[i])
  BY DEF IInv
<1>2. UniqueKeys' /\ StoppedIsEmpty'
  BY DEF IInv, UniqueKeys, StoppedIsEmpty, Holds
<1>. QED BY <1>1, <1>2 DEF IInv, WellFormed

\* begin() and end() empty the table.
LEMMA ClearedTable ==
    ASSUME IInv,
           slots' = [i \in Slots |-> Cleared(slots[i])],
           running' \in BOOLEAN,
           UNCHANGED <<now, values, readable, nextInvokeId>>
    PROVE  IInv'
<1>1. \A i \in Slots : WellFormed(slots'[i]) /\ ~InUse(slots'[i])
  BY ClearedWellFormed DEF IInv
<1>2. slots' \in [Slots -> Entry]
  BY <1>1 DEF WellFormed
<1>3. TypeOK'
  BY <1>2 DEF IInv, TypeOK, Time
<1>. QED BY <1>1, <1>3 DEF IInv, UniqueKeys, StoppedIsEmpty, Holds

\* A poll of a running server that leaves every entry well formed.
LEMMA PolledTable ==
    ASSUME IInv, running,
           slots' \in [Slots -> Entry],
           \A i \in Slots : WellFormed(slots'[i]),
           UniqueKeys',
           nextInvokeId' \in 1..(InvokeMod - 1),
           UNCHANGED <<running, now, values, readable>>
    PROVE  IInv'
<1>1. TypeOK'
  BY DEF IInv, TypeOK
<1>. QED BY <1>1 DEF IInv, StoppedIsEmpty

\* Subscribing keeps the invariant: the entry that is replaced either has the
\* tuple already or is free while no other entry has it.
LEMMA SubscribeIInv ==
    ASSUME IInv, NEW req \in Requests, NEW i \in Slots, Subscribe(req, i)
    PROVE  IInv'
<1>1. WellFormed(NewEntry(req)) /\ NewEntry(req).key = req.key
  BY NewEntryWellFormed DEF IInv
<1>2. /\ slots' = [slots EXCEPT ![i] = NewEntry(req)]
      /\ slots \in [Slots -> Entry]
  BY DEF Subscribe, IInv, TypeOK
<1>3. slots'[i] = NewEntry(req) /\ \A j \in Slots \ {i} : slots'[j] = slots[j]
  BY <1>2
<1>4. \A j \in Slots : WellFormed(slots'[j])
  BY <1>1, <1>3 DEF IInv
<1>5. slots' \in [Slots -> Entry]
  BY <1>1, <1>2 DEF WellFormed
<1>6. UniqueKeys'
  <2>1. \A j \in Slots \ {i} : ~Holds(j, req.key)
    BY DEF IInv, UniqueKeys, Subscribe, Target, Holds
  <2>2. slots'[i].key = req.key
    BY <1>1, <1>3
  <2>. QED BY <1>3, <2>1, <2>2 DEF IInv, UniqueKeys, Holds
<1>. QED BY <1>4, <1>5, <1>6, PolledTable DEF Subscribe, IInv, TypeOK

\* Cancelling keeps the invariant: it only empties an entry.
LEMMA CancelIInv ==
    ASSUME IInv, NEW req \in Requests, NEW i \in Slots, Cancel(req, i)
    PROVE  IInv'
<1>1. WellFormed(Cleared(slots[i])) /\ ~InUse(Cleared(slots[i]))
  BY ClearedWellFormed DEF IInv
<1>2. slots' = [slots EXCEPT ![i] = Cleared(slots[i])] /\ slots \in [Slots -> Entry]
  BY DEF Cancel, IInv, TypeOK
<1>3. slots'[i] = Cleared(slots[i]) /\ \A j \in Slots \ {i} : slots'[j] = slots[j]
  BY <1>2
<1>4. \A j \in Slots : WellFormed(slots'[j])
  BY <1>1, <1>3 DEF IInv
<1>5. slots' \in [Slots -> Entry]
  BY <1>1, <1>2 DEF WellFormed
<1>6. UniqueKeys'
  BY <1>1, <1>3, KeptKeysStayUnique DEF IInv
<1>. QED BY <1>4, <1>5, <1>6, PolledTable DEF Cancel, IInv, TypeOK

\* An answer keeps the invariant: the entry stops waiting and keeps its tuple.
LEMMA ReceiveAnswerIInv ==
    ASSUME IInv, NEW peer, NEW invokeId, NEW i \in Slots,
           ReceiveAnswer(peer, invokeId, i)
    PROVE  IInv'
<1> DEFINE answered == [slots[i] EXCEPT !.state = "Active", !.confirmedRetries = 0]
<1>1. slots \in [Slots -> Entry] /\ WellFormed(slots[i]) /\ Awaiting(slots[i])
  BY DEF ReceiveAnswer, Answers, IInv, TypeOK
<1>2. slots' = [slots EXCEPT ![i] = answered]
  BY <1>1 DEF ReceiveAnswer
<1>3. 0 \in 0..(CounterMod - 1)
  BY CovServerAssumption
<1>4. WellFormed(answered) /\ answered.key = slots[i].key
  BY <1>1, <1>3 DEF WellFormed, Entry, InUse, Awaiting
<1> HIDE DEF answered
<1>5. slots'[i] = answered /\ \A j \in Slots \ {i} : slots'[j] = slots[j]
  BY <1>1, <1>2
<1>6. \A j \in Slots : WellFormed(slots'[j])
  BY <1>4, <1>5 DEF IInv
<1>7. slots' \in [Slots -> Entry]
  BY <1>1, <1>2, <1>4 DEF WellFormed
<1>8. UniqueKeys'
  BY <1>1, <1>4, <1>5, KeptKeysStayUnique DEF IInv, InUse, Awaiting
<1>. QED BY <1>6, <1>7, <1>8, PolledTable DEF ReceiveAnswer, IInv, TypeOK

\* A scan that sends nothing keeps the invariant: entries are kept or removed.
LEMMA ScanWithoutSendIInv == ASSUME IInv, ScanWithoutSend PROVE IInv'
<1>1. \A i \in Slots :
          /\ slots'[i] = PassedOver(slots[i])
          /\ WellFormed(slots'[i])
          /\ InUse(slots'[i]) => InUse(slots[i]) /\ slots'[i].key = slots[i].key
  BY PassedOverWellFormed DEF ScanWithoutSend, IInv
<1>2. slots' \in [Slots -> Entry]
  BY <1>1 DEF ScanWithoutSend, WellFormed
<1>3. UniqueKeys'
  BY <1>1, KeptKeysStayUnique DEF IInv
<1>. QED BY <1>1, <1>2, <1>3, PolledTable DEF ScanWithoutSend, IInv, TypeOK

\* A scan that sends keeps the invariant: the entry it stops at keeps its tuple,
\* those before it are kept or removed, those after it are not looked at.
LEMMA ScanAndSendIInv ==
    ASSUME IInv, NEW i \in Slots, NEW taken \in BOOLEAN, ScanAndSend(i, taken)
    PROVE  IInv'
<1>1. InUse(slots[i]) /\ WellFormed(slots[i]) /\ TypeOK
  BY DEF ScanAndSend, Sends, Resends, Notifies, Due, IInv
<1>2. \A j \in Slots :
          /\ WellFormed(slots'[j])
          /\ InUse(slots'[j]) => InUse(slots[j]) /\ slots'[j].key = slots[j].key
  <2> SUFFICES ASSUME NEW j \in Slots
               PROVE  /\ WellFormed(slots'[j])
                      /\ InUse(slots'[j]) =>
                            InUse(slots[j]) /\ slots'[j].key = slots[j].key
    OBVIOUS
  <2>1. j \in Int /\ i \in Int
    BY DEF Slots
  <2>2. CASE j < i
    <3>1. slots'[j] = PassedOver(slots[j])
      BY <2>2 DEF ScanAndSend
    <3>. QED BY <3>1, PassedOverWellFormed DEF IInv
  <2>3. CASE j = i
    <3>1. slots'[j] = IF taken THEN AfterSend(slots[i]) ELSE AfterFailedSend(slots[i])
      BY <2>1, <2>3 DEF ScanAndSend
    <3>. QED BY <1>1, <2>3, <3>1, AfterSendWellFormed, AfterFailedSendWellFormed
  <2>4. CASE i < j
    <3>1. slots'[j] = slots[j]
      BY <2>1, <2>4 DEF ScanAndSend
    <3>. QED BY <3>1 DEF IInv
  <2>. QED BY <2>1, <2>2, <2>3, <2>4
<1>3. slots' \in [Slots -> Entry]
  BY <1>2 DEF ScanAndSend, WellFormed
<1>4. UniqueKeys'
  BY <1>2, KeptKeysStayUnique DEF IInv
<1>5. nextInvokeId' \in 1..(InvokeMod - 1)
  BY <1>1, InvokeIdStep DEF ScanAndSend, TypeOK
<1>. QED BY <1>2, <1>3, <1>4, <1>5, PolledTable DEF ScanAndSend

\* The environment keeps the invariant: it changes what the server reads.
LEMMA EnvironmentIInv == ASSUME IInv, Environment PROVE IInv'
<1>1. CASE Begin
  BY <1>1, ClearedTable DEF Begin
<1>2. CASE End
  BY <1>2, ClearedTable DEF End
<1>3. CASE Tick
  <2>1. now' \in Time
    BY <1>3, TimeFacts, WrapType DEF Tick, IInv, TypeOK
  <2>2. TypeOK'
    BY <1>3, <2>1 DEF Tick, IInv, TypeOK
  <2>. QED BY <1>3, <2>2, TableKept DEF Tick
<1>4. ASSUME NEW o \in Objects, NEW p \in Properties, NEW v \in Values,
             ChangeValue(o, p, v)
      PROVE  IInv'
  <2>1. values' \in [Objects -> [Properties -> Values]]
    BY <1>4 DEF ChangeValue, IInv, TypeOK
  <2>2. TypeOK'
    BY <1>4, <2>1 DEF ChangeValue, IInv, TypeOK, Time
  <2>. QED BY <1>4, <2>2, TableKept DEF ChangeValue
<1>5. ASSUME NEW o \in Objects, ChangeReadable(o)
      PROVE  IInv'
  <2>1. TypeOK'
    BY <1>5 DEF ChangeReadable, IInv, TypeOK, Time
  <2>. QED BY <1>5, <2>1, TableKept DEF ChangeReadable
<1>. QED BY <1>1, <1>2, <1>3, <1>4, <1>5 DEF Environment

\* Every step keeps the invariant.
LEMMA NextIInv == IInv /\ [Next]_vars => IInv'
<1> SUFFICES ASSUME IInv, [Next]_vars PROVE IInv'
  OBVIOUS
<1>1. CASE IdlePoll
  BY <1>1, ScanWithoutSendIInv, ScanAndSendIInv DEF IdlePoll
<1>2. CASE ReceivePoll
  BY <1>2, SubscribeIInv, CancelIInv, ReceiveAnswerIInv DEF ReceivePoll
<1>3. CASE Environment
  BY <1>3, EnvironmentIInv
<1>4. CASE UNCHANGED vars
  <2>1. TypeOK'
    BY <1>4 DEF vars, IInv, TypeOK, Time
  <2>. QED BY <1>4, <2>1, TableKept DEF vars
<1>. QED BY <1>1, <1>2, <1>3, <1>4 DEF Next

\* The invariant holds in every reachable state.
THEOREM Invariance == Spec => []IInv
BY InitIInv, NextIInv, PTL DEF Spec

-----------------------------------------------------------------------------
\* The theorems.

\* Clock readings, invoke ids, counters and deadlines keep their widths in
\* every behaviour of begin(), end() and poll(), whatever peers ask for.
THEOREM TypeCorrect == Spec => []TypeOK
<1>1. IInv => TypeOK
  BY DEF IInv
<1>. QED BY <1>1, Invariance, PTL

\* handleSubscribeCov never gives one tuple two entries of the table, for a
\* table of any size and however entries come, go and expire.
THEOREM KeysAreUnique == Spec => []UniqueKeys
<1>1. IInv => UniqueKeys
  BY DEF IInv
<1>. QED BY <1>1, Invariance, PTL

\* Whenever processCovSubscriptions finds an entry waiting for its answer, the
\* snapshot it would resend is complete and the entry is a confirmed one.
THEOREM ResendsAreComplete == Spec => []AwaitingCanResend
<1>1. IInv => AwaitingCanResend
  BY DEF IInv, WellFormed, AwaitingCanResend
<1>. QED BY <1>1, Invariance, PTL

\* After end(), and before begin(), the table is empty.
THEOREM StoppedServerIsEmpty == Spec => []StoppedIsEmpty
<1>1. IInv => StoppedIsEmpty
  BY DEF IInv
<1>. QED BY <1>1, Invariance, PTL

-----------------------------------------------------------------------------
\* The promises of CovServerHistory.  The recorded variables have their types, whatever a step does.

HTypeOK ==
    /\ told \in [Slots -> [Properties -> Values \cup {Unset, Blank}]]
    /\ attempts \in [Slots -> Nat]
    /\ failed \in [Slots -> BOOLEAN]
    /\ age \in [Slots -> 0..TimeMod]
    /\ spent \in Nat

HInv == IInv /\ HTypeOK

\* Recording the history adds no behaviour: every step is one of CovServer.
LEMMA HistoryStep == ASSUME HInv, [HNext]_allVars PROVE [Next]_vars
<1>1. ASSUME NEW i \in Slots,
             ReceiveAnswer(slots[i].key.peer, slots[i].pendingInvokeId, i)
      PROVE  ReceivePoll
  <2>1. WellFormed(slots[i]) /\ Awaiting(slots[i])
    BY <1>1 DEF ReceiveAnswer, Answers, HInv, IInv
  <2>2. slots[i].key.peer \in Peers
    BY <2>1, CovServerAssumption DEF WellFormed, InUse, Awaiting, Key
  <2>3. slots[i].pendingInvokeId \in 1..(InvokeMod - 1)
    BY <2>1, CovServerAssumption DEF WellFormed, Entry
  <2>. QED BY <1>1, <2>2, <2>3 DEF ReceivePoll
<1>2. CASE \E req \in Requests, i \in Slots : Accepted(req, i)
  BY <1>2 DEF Accepted, Next, ReceivePoll
<1>3. CASE Disturbed
  <2>1. ASSUME NEW o \in Objects, NEW p \in Comparable, NEW v \in Values,
               ChangeValue(o, p, v)
        PROVE  Environment
    BY <2>1 DEF Environment, Comparable, Properties
  <2>. QED BY <1>3, <2>1 DEF Disturbed, Next, ReceivePoll, Environment
<1>5. CASE Ticked
  BY <1>5 DEF Ticked, Next, Environment
<1>6. CASE Answered
  BY <1>1, <1>6 DEF Answered, Next
<1>7. CASE Scanned
  BY <1>7 DEF Scanned, Next, IdlePoll
<1>8. CASE \E i \in Slots, taken \in BOOLEAN : Sent(i, taken)
  BY <1>8 DEF Sent, Next, IdlePoll
<1>9. CASE UNCHANGED allVars
  BY <1>9 DEF allVars
<1>. QED BY <1>2, <1>3, <1>5, <1>6, <1>7, <1>8, <1>9 DEF HNext

\* What a subscriber is sent is a reading.
LEMMA OutgoingType ==
    ASSUME values \in [Objects -> [Properties -> Values]],
           NEW s, WellFormed(s), InUse(s)
    PROVE  Outgoing(s) \in [Properties -> Values \cup {Unset, Blank}]
<1>1. s.key.object \in Objects
  BY CovServerAssumption DEF WellFormed, Key
<1>. QED BY <1>1 DEF Outgoing, Reading, WellFormed, Entry

\* The recorded variables keep their types.
LEMMA HistoryTypes == ASSUME HInv, [HNext]_allVars PROVE HTypeOK'
<1>1. NoSnapshot \in [Properties -> Values \cup {Unset, Blank}]
  BY DEF NoSnapshot
<1>2. Spend => spent' \in Nat
  BY DEF Spend, HInv, HTypeOK
<1>3. ASSUME NEW req \in Requests, NEW i \in Slots, Accepted(req, i)
      PROVE  HTypeOK'
  BY <1>1, <1>2, <1>3, CovServerAssumption DEF Accepted, HInv, HTypeOK
<1>4. ASSUME NEW i \in Slots, NEW taken \in BOOLEAN, Sent(i, taken)
      PROVE  HTypeOK'
  <2>1. InUse(slots[i]) /\ WellFormed(slots[i]) /\ TypeOK
    BY <1>4 DEF Sent, ScanAndSend, Sends, Resends, Notifies, Due, HInv, IInv
  <2>2. Outgoing(slots[i]) \in [Properties -> Values \cup {Unset, Blank}]
    BY <2>1, OutgoingType DEF TypeOK
  <2>3. told' \in [Slots -> [Properties -> Values \cup {Unset, Blank}]]
    BY <1>4, <2>2 DEF Sent, HInv, HTypeOK
  <2>4. attempts' \in [Slots -> Nat]
    BY <1>4 DEF Sent, HInv, HTypeOK
  <2>5. failed' \in [Slots -> BOOLEAN]
    BY <1>4 DEF Sent, HInv, HTypeOK
  <2>. QED BY <1>4, <2>3, <2>4, <2>5 DEF Sent, HInv, HTypeOK
<1>5. CASE UNCHANGED <<age, told, attempts, failed>> /\ (Spend \/ UNCHANGED spent)
  BY <1>2, <1>5 DEF HInv, HTypeOK
<1>6. CASE Ticked
  <2>1. \A i \in Slots : age[i] \in 0..TimeMod
                              /\ (age[i] < TimeMod => age[i] + 1 \in 0..TimeMod)
    BY CovServerAssumption DEF HInv, HTypeOK
  <2>. QED BY <1>6, <2>1 DEF Ticked, HInv, HTypeOK
<1>. QED BY <1>3, <1>4, <1>5, <1>6
     DEF HNext, allVars, history, Disturbed, Answered, Scanned

\* The server starts with nothing recorded.
LEMMA HistoryInit == HInit => HInv
<1>1. HInit => HTypeOK
  BY CovServerAssumption DEF HInit, HTypeOK, NoSnapshot
<1>. QED BY <1>1, InitIInv DEF HInit, HInv

\* The invariant of CovServer and the types hold with the history as well.
LEMMA HistoryInvariance == HSpec => []HInv
<1>1. HInv /\ [HNext]_allVars => HInv'
  BY HistoryStep, HistoryTypes, NextIInv DEF HInv
<1>. QED BY <1>1, HistoryInit, PTL DEF HSpec

\* CovServerHistory implements CovServer: the auxiliary variables observe the
\* server and the bounds only restrict its environment.
THEOREM HistoryImplementsCovServer == HSpec => Spec
<1>1. HInit => Init
  BY DEF HInit
<1>2. HInv /\ [HNext]_allVars => [Next]_vars
  BY HistoryStep
<1>. QED BY <1>1, <1>2, HistoryInvariance, PTL DEF HSpec, Spec

-----------------------------------------------------------------------------
\* What one step does to one slot.

\* A step takes no time, or is a tick of the clock.
TimePasses(j) ==
    \/ now' = now /\ age'[j] = age[j]
    \/ now' = Wrap(now + 1) /\ age'[j] = IF age[j] < TimeMod THEN age[j] + 1 ELSE age[j]

\* The deadline of the entry stays.
Lasts(j) ==
    /\ InUse(slots[j])
    /\ slots'[j].lifetime = slots[j].lifetime
    /\ slots'[j].expiresAt = slots[j].expiresAt

\* The entry stays: nothing it is measured by changes, and it does not start to
\* wait for an answer.
Kept(j) ==
    /\ Lasts(j) /\ TimePasses(j)
    /\ slots'[j].snapshot = slots[j].snapshot
    /\ slots'[j].retryAt = slots[j].retryAt
    /\ Awaiting(slots'[j]) =>
          Awaiting(slots[j]) /\ slots'[j].confirmedRetries = slots[j].confirmedRetries
    /\ told'[j] = told[j] /\ attempts'[j] = attempts[j] /\ failed'[j] = failed[j]

\* A request is accepted into the slot.
Fresh(j) ==
    /\ \E req \in Requests : req.lifetime # 0 /\ slots'[j] = NewEntry(req)
    /\ told'[j] = NoSnapshot
    /\ now' = now /\ age'[j] = 0

\* A notification is attempted for the entry.
Tried(j, taken) ==
    /\ Sends(slots[j])
    /\ slots'[j] = IF taken THEN AfterSend(slots[j]) ELSE AfterFailedSend(slots[j])
    /\ told'[j] = IF taken THEN Outgoing(slots[j]) ELSE told[j]
    /\ attempts'[j] = IF Awaiting(slots[j]) THEN attempts[j] + 1 ELSE 1
    /\ failed'[j] = ~taken
    /\ now' = now /\ age'[j] = age[j]

\* An entry the scan goes past is removed, or stays as it is but for an answer
\* it gives up on.
LEMMA PassedOverKeeps ==
    ASSUME NEW s \in Entry, InUse(PassedOver(s))
    PROVE  /\ InUse(s)
           /\ PassedOver(s).lifetime = s.lifetime
           /\ PassedOver(s).expiresAt = s.expiresAt
           /\ PassedOver(s).snapshot = s.snapshot
           /\ PassedOver(s).retryAt = s.retryAt
           /\ Awaiting(PassedOver(s)) =>
                 Awaiting(s) /\ PassedOver(s).confirmedRetries = s.confirmedRetries
<1>1. CASE InUse(s) /\ Expired(s)
  BY <1>1, InactiveWellFormed DEF PassedOver, Due
<1>2. CASE ~(InUse(s) /\ Expired(s)) /\ Due(s) /\ AckOverdue(s) /\ RetriesUsed(s)
  <2>1. PassedOver(s) = [s EXCEPT !.state = "Active", !.confirmedRetries = 0]
    BY <1>2 DEF PassedOver, Due
  <2>. QED BY <1>2, <2>1 DEF Entry, InUse, Awaiting, Due
<1>3. CASE ~(InUse(s) /\ Expired(s)) /\ ~(Due(s) /\ AckOverdue(s) /\ RetriesUsed(s))
  BY <1>3 DEF PassedOver
<1>. QED BY <1>1, <1>2, <1>3

\* A slot after a step is out of use, kept, fresh, or one a send was tried for.
LEMMA SlotStep ==
    ASSUME HInv, [HNext]_allVars, NEW j \in Slots, InUse(slots'[j])
    PROVE  Kept(j) \/ Fresh(j) \/ \E taken \in BOOLEAN : Tried(j, taken)
<1>1. slots \in [Slots -> Entry] /\ WellFormed(slots[j])
  BY DEF HInv, IInv, TypeOK
<1>2. ASSUME UNCHANGED <<told, attempts, failed>>, TimePasses(j), slots'[j] = slots[j]
      PROVE  Kept(j)
  BY <1>2 DEF Kept, Lasts
<1>3. ASSUME NEW req \in Requests, NEW i \in Slots, Accepted(req, i)
      PROVE  Kept(j) \/ Fresh(j)
  <2>1. CASE j = i
    <3>1. slots'[j] = NewEntry(req) /\ req.lifetime # 0 /\ now' = now
      BY <1>1, <1>3, <2>1 DEF Accepted, Subscribe
    <3>2. told'[j] = NoSnapshot /\ age'[j] = 0
      BY <1>3, <2>1 DEF Accepted, HInv, HTypeOK
    <3>. QED BY <3>1, <3>2 DEF Fresh
  <2>2. CASE j # i
    <3>1. slots'[j] = slots[j] /\ now' = now
      BY <1>1, <1>3, <2>2 DEF Accepted, Subscribe
    <3>2. /\ told'[j] = told[j] /\ attempts'[j] = attempts[j] /\ failed'[j] = failed[j]
          /\ age'[j] = age[j]
      BY <1>3, <2>2 DEF Accepted, HInv, HTypeOK
    <3>. QED BY <3>1, <3>2 DEF Kept, Lasts, TimePasses
  <2>. QED BY <2>1, <2>2
<1>4. CASE Disturbed
  <2>1. CASE Begin \/ End
    BY <1>1, <2>1, ClearedWellFormed DEF Begin, End
  <2>2. ASSUME NEW req \in Requests, NEW i \in Slots, Cancel(req, i)
        PROVE  Kept(j)
    <3>1. WellFormed(slots[i])
      BY DEF HInv, IInv
    <3>2. j # i
      BY <1>1, <2>2, <3>1, ClearedWellFormed DEF Cancel
    <3>3. slots'[j] = slots[j]
      BY <1>1, <2>2, <3>2 DEF Cancel
    <3>. QED BY <1>2, <1>4, <2>2, <3>3 DEF Disturbed, Cancel, TimePasses
  <2>3. ASSUME NEW o \in Objects, NEW p \in Comparable, NEW v \in Values,
               ChangeValue(o, p, v)
        PROVE  Kept(j)
    BY <1>2, <1>4, <2>3 DEF ChangeValue, Disturbed, TimePasses
  <2>4. ASSUME NEW o \in Objects, ChangeReadable(o)
        PROVE  Kept(j)
    BY <1>2, <1>4, <2>4 DEF ChangeReadable, Disturbed, TimePasses
  <2>. QED BY <1>4, <2>1, <2>2, <2>3, <2>4 DEF Disturbed
<1>6. CASE Ticked
  <2>1. TimePasses(j)
    BY <1>6, <1>1 DEF Ticked, Tick, TimePasses
  <2>. QED BY <1>2, <1>6, <2>1 DEF Ticked, Tick
<1>7. CASE Answered
  <2>1. PICK i \in Slots : ReceiveAnswer(slots[i].key.peer, slots[i].pendingInvokeId, i)
    BY <1>7 DEF Answered
  <2>2. slots' = [slots EXCEPT ![i].state = "Active", ![i].confirmedRetries = 0]
    BY <2>1 DEF ReceiveAnswer
  <2>3. UNCHANGED <<told, attempts, failed>> /\ TimePasses(j)
    BY <1>7 DEF Answered, ReceiveAnswer, history, TimePasses
  <2>4. CASE j = i
    <3>1. slots'[j] = [slots[j] EXCEPT !.state = "Active", !.confirmedRetries = 0]
      BY <1>1, <2>2, <2>4
    <3>2. Awaiting(slots[j])
      BY <2>1, <2>4 DEF ReceiveAnswer, Answers
    <3>. QED BY <1>1, <2>3, <3>1, <3>2 DEF Kept, Lasts, Entry, InUse, Awaiting
  <2>5. CASE j # i
    BY <1>1, <1>2, <2>2, <2>3, <2>5
  <2>. QED BY <2>4, <2>5
<1>8. CASE Scanned
  <2>1. /\ slots'[j] = PassedOver(slots[j])
        /\ UNCHANGED <<told, attempts, failed>> /\ TimePasses(j)
    BY <1>8 DEF Scanned, ScanWithoutSend, TimePasses
  <2>. QED BY <1>1, <2>1, PassedOverKeeps DEF Kept, Lasts, WellFormed
<1>9. ASSUME NEW i \in Slots, NEW taken \in BOOLEAN, Sent(i, taken)
      PROVE  Kept(j) \/ Tried(j, taken)
  <2>1. j \in Int /\ i \in Int
    BY DEF Slots
  <2>2. j # i => told'[j] = told[j] /\ attempts'[j] = attempts[j] /\ failed'[j] = failed[j]
    BY <1>9 DEF Sent, HInv, HTypeOK
  <2>5. now' = now /\ age' = age
    BY <1>9 DEF Sent, ScanAndSend
  <2>3. CASE j < i
    <3>1. slots'[j] = PassedOver(slots[j])
      BY <1>9, <2>3 DEF Sent, ScanAndSend
    <3>. QED BY <1>1, <2>1, <2>2, <2>3, <2>5, <3>1, PassedOverKeeps
             DEF Kept, Lasts, TimePasses, WellFormed
  <2>4. CASE j = i
    <3>1. slots'[j] = IF taken THEN AfterSend(slots[j]) ELSE AfterFailedSend(slots[j])
      BY <1>9, <2>1, <2>4 DEF Sent, ScanAndSend
    <3>2. /\ Sends(slots[j])
          /\ told'[j] = IF taken THEN Outgoing(slots[j]) ELSE told[j]
          /\ attempts'[j] = IF Awaiting(slots[j]) THEN attempts[j] + 1 ELSE 1
          /\ failed'[j] = ~taken
      BY <1>9, <2>4 DEF Sent, ScanAndSend, HInv, HTypeOK
    <3>. QED BY <2>5, <3>1, <3>2 DEF Tried
  <2>6. CASE i < j
    <3>1. slots'[j] = slots[j]
      BY <1>9, <2>1, <2>6 DEF Sent, ScanAndSend
    <3>. QED BY <2>1, <2>2, <2>5, <2>6, <3>1 DEF Kept, Lasts, TimePasses
  <2>. QED BY <2>1, <2>3, <2>4, <2>6
<1>10. CASE UNCHANGED allVars
  BY <1>2, <1>10 DEF allVars, vars, history, TimePasses
<1>. QED BY <1>3, <1>4, <1>6, <1>7, <1>8, <1>9, <1>10 DEF HNext

-----------------------------------------------------------------------------
\* Nothing is in the table at first, so each promise holds of it.
LEMMA InitEmpty == HInit => \A i \in Slots : ~InUse(slots[i]) /\ ~Awaiting(slots[i])
BY InactiveWellFormed DEF HInit, Init, Inactive, InUse, Awaiting

\* A backoff is only ever in force after a refused send for the entry that has
\* the slot: acceptance and success clear it, and nothing else sets it.
THEOREM BackoffsAreEarned == HSpec => []BackoffIsOwn
<1>1. HInit => BackoffIsOwn
  BY InitEmpty DEF BackoffIsOwn
<1>2. HInv /\ BackoffIsOwn /\ [HNext]_allVars => BackoffIsOwn'
  <2> SUFFICES ASSUME HInv, BackoffIsOwn, [HNext]_allVars,
                      NEW j \in Slots, InUse(slots'[j]), slots'[j].retryAt # 0
               PROVE  failed'[j]
    BY DEF BackoffIsOwn
  <2>1. CASE Kept(j)
    BY <2>1 DEF Kept, Lasts, BackoffIsOwn
  <2>2. CASE Fresh(j)
    BY <2>2 DEF Fresh, NewEntry, Inactive
  <2>3. ASSUME NEW taken \in BOOLEAN, Tried(j, taken)
        PROVE  failed'[j]
    <3>1. slots[j] \in Entry
      BY DEF HInv, IInv, TypeOK
    <3>2. Attempted(slots[j]) \in Entry
      BY <3>1, AttemptedType
    <3>3. AfterSend(slots[j]).retryAt = 0
      BY <3>2 DEF AfterSend, Entry
    <3>. QED BY <2>3, <3>3 DEF Tried
  <2>. QED BY <2>1, <2>2, <2>3, SlotStep
<1>. QED BY <1>1, <1>2, HistoryInvariance, PTL DEF HSpec

\* The confirmed-retry count is one less than the number of attempts.
AttemptsCounted ==
    \A i \in Slots : Awaiting(slots[i]) =>
        /\ attempts[i] = 1 + slots[i].confirmedRetries
        /\ slots[i].confirmedRetries <= NumberOfApduRetries

\* Where the retry count fits the 8-bit counter, no confirmed notification is
\* attempted more than 1 + numberOfApduRetries times.
THEOREM RetriesAreBounded ==
    ASSUME NumberOfApduRetries < CounterMod
    PROVE  HSpec => []AttemptsBounded
<1>1. HInit => AttemptsCounted
  BY InitEmpty DEF AttemptsCounted
<1>2. HInv /\ AttemptsCounted /\ [HNext]_allVars => AttemptsCounted'
  <2> SUFFICES ASSUME HInv, AttemptsCounted, [HNext]_allVars,
                      NEW j \in Slots, Awaiting(slots'[j])
               PROVE  /\ attempts'[j] = 1 + slots'[j].confirmedRetries
                      /\ slots'[j].confirmedRetries <= NumberOfApduRetries
    BY DEF AttemptsCounted
  <2>0. InUse(slots'[j])
    BY DEF Awaiting, InUse
  <2>1. CASE Kept(j)
    BY <2>1 DEF Kept, AttemptsCounted
  <2>2. CASE Fresh(j)
    <3>1. ~Awaiting(slots'[j])
      BY <2>2 DEF Fresh, NewEntry, Inactive, Awaiting
    <3>. QED BY <3>1
  <2>3. ASSUME NEW taken \in BOOLEAN, Tried(j, taken)
        PROVE  /\ attempts'[j] = 1 + slots'[j].confirmedRetries
               /\ slots'[j].confirmedRetries <= NumberOfApduRetries
    <3> DEFINE s == slots[j]
    <3>1. s \in Entry
      BY DEF HInv, IInv, TypeOK
    <3>2. /\ slots'[j].confirmedRetries =
                 IF Awaiting(s) THEN (s.confirmedRetries + 1) % CounterMod ELSE 0
      <4>1. Attempted(s) \in Entry
        BY <3>1, AttemptedType
      <4>2. /\ AfterSend(s).confirmedRetries = Attempted(s).confirmedRetries
            /\ AfterFailedSend(s).confirmedRetries = Attempted(s).confirmedRetries
        BY <4>1 DEF AfterSend, AfterFailedSend, Entry
      <4>3. Attempted(s).confirmedRetries =
                IF Awaiting(s) THEN (s.confirmedRetries + 1) % CounterMod ELSE 0
        BY <3>1 DEF Attempted, Entry
      <4>. QED BY <2>3, <4>2, <4>3 DEF Tried
    <3>3. attempts'[j] = IF Awaiting(s) THEN attempts[j] + 1 ELSE 1
      BY <2>3 DEF Tried
    <3>4. CASE Awaiting(s)
      <4>1. s.confirmedRetries < NumberOfApduRetries
        <5>1. s.confirmedRetries \in Int
          BY <3>1 DEF Entry
        <5>2. ~RetriesUsed(s)
          BY <2>3, <3>4 DEF Tried, Sends, Notifies, Resends, Awaiting
        <5>. QED BY <5>1, <5>2, CovServerAssumption DEF RetriesUsed
      <4>2. s.confirmedRetries \in 0..(CounterMod - 1)
        BY <3>1 DEF Entry
      <4>3. (s.confirmedRetries + 1) % CounterMod = s.confirmedRetries + 1
        BY <4>1, <4>2, CovServerAssumption
      <4>4. attempts[j] = 1 + s.confirmedRetries
        BY <3>4 DEF AttemptsCounted
      <4> HIDE DEF s
      <4>. QED BY <3>2, <3>3, <3>4, <4>1, <4>2, <4>3, <4>4, CovServerAssumption
    <3>5. CASE ~Awaiting(s)
      BY <3>2, <3>3, <3>5, CovServerAssumption
    <3>. QED BY <3>4, <3>5
  <2>. QED BY <2>0, <2>1, <2>2, <2>3, SlotStep
<1>3. HInv /\ AttemptsCounted => AttemptsBounded
  <2> SUFFICES ASSUME HInv, AttemptsCounted, NEW i \in Slots, Awaiting(slots[i])
               PROVE  attempts[i] <= 1 + NumberOfApduRetries
    BY DEF AttemptsBounded
  <2>1. slots[i].confirmedRetries \in Int
    BY DEF HInv, IInv, TypeOK, Entry
  <2>. QED BY <2>1, CovServerAssumption DEF AttemptsCounted
<1>. QED BY <1>1, <1>2, <1>3, HistoryInvariance, PTL DEF HSpec

\* The snapshot is what was last sent, and storing it again loses nothing.
SnapshotsFaithful ==
    \A i \in Slots : InUse(slots[i]) =>
        slots[i].snapshot = told[i] /\ Stored(told[i]) = told[i]

\* Where snapshots keep every monitored property, storing what is sent loses
\* nothing, and no step moves the snapshot away from what was last sent.
LEMMA SnapshotsInvariance ==
    ASSUME \A key \in Keys : Monitored(key) \subseteq Comparable
    PROVE  HSpec => []SnapshotsFaithful
<1>1. HInit => SnapshotsFaithful
  BY InitEmpty DEF SnapshotsFaithful
<1>2. HInv /\ SnapshotsFaithful /\ [HNext]_allVars => SnapshotsFaithful'
  <2> SUFFICES ASSUME HInv, SnapshotsFaithful, [HNext]_allVars,
                      NEW j \in Slots, InUse(slots'[j])
               PROVE  slots'[j].snapshot = told'[j] /\ Stored(told'[j]) = told'[j]
    BY DEF SnapshotsFaithful
  <2>1. CASE Kept(j)
    BY <2>1 DEF Kept, Lasts, SnapshotsFaithful
  <2>2. CASE Fresh(j)
    <3>1. Stored(NoSnapshot) = NoSnapshot
      BY DEF Stored, NoSnapshot
    <3>2. slots'[j].snapshot = NoSnapshot /\ told'[j] = NoSnapshot
      BY <2>2 DEF Fresh, NewEntry, Inactive
    <3>. QED BY <3>1, <3>2
  <2>3. ASSUME NEW taken \in BOOLEAN, Tried(j, taken)
        PROVE  slots'[j].snapshot = told'[j] /\ Stored(told'[j]) = told'[j]
    <3> DEFINE s == slots[j]
    <3>1. s \in Entry /\ InUse(s) /\ s.key \in Keys
      BY <2>3 DEF Tried, Sends, Resends, Notifies, Due, HInv, IInv, TypeOK, WellFormed
    <3>2. s.snapshot = told[j] /\ Stored(told[j]) = told[j]
      BY <3>1 DEF SnapshotsFaithful
    <3>3. Stored(Outgoing(s)) = Outgoing(s)
      <4>1. CASE Awaiting(s)
        BY <3>2, <4>1 DEF Outgoing
      <4>2. CASE ~Awaiting(s)
        <5>1. Monitored(s.key) \subseteq Comparable
          BY <3>1
        <5>. QED BY <4>2, <5>1 DEF Outgoing, Reading, Stored
      <4>. QED BY <4>1, <4>2
    <3>4. Attempted(s) \in Entry /\ Attempted(s).snapshot = s.snapshot
      BY <3>1, AttemptedType
    <3>5. /\ AfterSend(s).snapshot = Stored(Outgoing(s))
          /\ AfterFailedSend(s).snapshot = s.snapshot
      BY <3>4 DEF AfterSend, AfterFailedSend, Entry
    <3>. QED BY <2>3, <3>2, <3>3, <3>5 DEF Tried
  <2>. QED BY <2>1, <2>2, <2>3, SlotStep
<1>. QED BY <1>1, <1>2, HistoryInvariance, PTL DEF HSpec

-----------------------------------------------------------------------------

\* Where every monitored property has a datatype that snapshots keep, what a
\* change is measured against is what the subscriber was last sent, through
\* refused sends, retries, answers, renewals and restarts.
THEOREM SnapshotsAreLastTold ==
    ASSUME \A key \in Keys : Monitored(key) \subseteq Comparable
    PROVE  HSpec => []SnapshotIsLastTold
<1>1. SnapshotsFaithful => SnapshotIsLastTold
  BY DEF SnapshotsFaithful, SnapshotIsLastTold
<1>. QED BY <1>1, SnapshotsInvariance, PTL

\* Under the same condition no notification but a resend repeats what its
\* subscriber has: the scan's comparison with the snapshot is a comparison with
\* what was last sent.
THEOREM NotificationsTellChanges ==
    ASSUME \A key \in Keys : Monitored(key) \subseteq Comparable
    PROVE  HSpec => NotifiesOnlyChanges
<1> DEFINE Step == \A i \in Slots, taken \in BOOLEAN :
                      (Sent(i, taken) /\ ~Awaiting(slots[i])) => WorthTelling(i)
<1>1. HInv /\ SnapshotsFaithful /\ [HNext]_allVars => [Step]_allVars
  <2> SUFFICES ASSUME HInv, SnapshotsFaithful, NEW i \in Slots, NEW taken \in BOOLEAN,
                      Sent(i, taken), ~Awaiting(slots[i])
               PROVE  WorthTelling(i)
    OBVIOUS
  <2> DEFINE s == slots[i]
  <2>1. InUse(s) /\ HasChange(s)
    BY DEF Sent, ScanAndSend, Sends, Resends, AckOverdue, Notifies, Due
  <2>2. Monitored(s.key) \subseteq Comparable /\ s.snapshot = told[i]
    BY <2>1 DEF HInv, IInv, WellFormed, SnapshotsFaithful
  <2>3. PICK p \in Monitored(s.key) : DiffersFromSnapshot(s, p, values[s.key.object][p])
    BY <2>1 DEF HasChange
  <2>. QED BY <2>2, <2>3 DEF DiffersFromSnapshot, WorthTelling
<1>2. HSpec => []SnapshotsFaithful
  BY SnapshotsInvariance
<1>3. HSpec => [][Step]_allVars
  <2>. HIDE DEF Step
  <2>. QED BY <1>1, <1>2, HistoryInvariance, PTL DEF HSpec
<1>. QED BY <1>3 DEF NotifiesOnlyChanges

-----------------------------------------------------------------------------
\* Arithmetic on the clock.

\* Two readings that differ by whole turns of the clock.
Congruent(a, b) == \E k \in Int : a = b + k * TimeMod

\* A reading is so many turns of the clock and the rest,
LEMMA DivisionFact == ASSUME NEW t \in Int PROVE t = TimeMod * (t \div TimeMod) + (t % TimeMod)
BY CovServerAssumption

\* so wrapping changes nothing but the turns.
LEMMA WrapCongruent == ASSUME NEW t \in Int PROVE Congruent(Wrap(t), t)
<1>1. (t \div TimeMod) \in Int
  BY CovServerAssumption
<1>2. t % TimeMod = t + (-(t \div TimeMod)) * TimeMod
  BY <1>1, DivisionFact, CovServerAssumption
<1>3. -(t \div TimeMod) \in Int
  BY <1>1
<1>. QED BY <1>2, <1>3 DEF Congruent, Wrap

\* Shifting two readings, or taking them off a third, keeps the turns apart.
LEMMA CongruentShift ==
    ASSUME NEW a \in Int, NEW b \in Int, NEW c \in Int, Congruent(a, b)
    PROVE  Congruent(a + c, b + c) /\ Congruent(c - a, c - b)
<1>1. PICK k \in Int : a = b + k * TimeMod
  BY DEF Congruent
<1>2. TimeMod \in Int /\ k * TimeMod \in Int /\ (-k) \in Int /\ (-k) * TimeMod = -(k * TimeMod)
  BY CovServerAssumption
<1>3. a + c = (b + c) + k * TimeMod /\ c - a = (c - b) + (-k) * TimeMod
  BY <1>1, <1>2
<1>. QED BY <1>2, <1>3 DEF Congruent

\* Being turns apart is an equivalence,
LEMMA CongruentChain ==
    ASSUME NEW a \in Int, NEW b \in Int, NEW c \in Int, Congruent(a, b), Congruent(b, c)
    PROVE  Congruent(a, c) /\ Congruent(b, a)
<1>1. PICK k \in Int : a = b + k * TimeMod
  BY DEF Congruent
<1>2. PICK n \in Int : b = c + n * TimeMod
  BY DEF Congruent
<1>3. TimeMod \in Int /\ k * TimeMod \in Int /\ n * TimeMod \in Int /\ k + n \in Int /\ -k \in Int
  BY CovServerAssumption
<1>4. (k + n) * TimeMod = k * TimeMod + n * TimeMod /\ (-k) * TimeMod = -(k * TimeMod)
  BY CovServerAssumption
<1>5. a = c + (k + n) * TimeMod /\ b = a + (-k) * TimeMod
  BY <1>1, <1>2, <1>3, <1>4
<1>. QED BY <1>3, <1>5 DEF Congruent

\* and inside the clock's range it is equality.
LEMMA CongruentUnique ==
    ASSUME NEW a \in Time, NEW b \in Time, Congruent(a, b)
    PROVE  a = b
<1>1. PICK k \in Int : a = b + k * TimeMod
  BY DEF Congruent
<1>2. TimeMod \in Int /\ TimeMod > 0 /\ k * TimeMod \in Int
  BY CovServerAssumption
<1>3. a - b < TimeMod /\ b - a < TimeMod /\ a \in Int /\ b \in Int
  BY <1>2 DEF Time
<1>4. k >= 1 => k * TimeMod >= TimeMod
  BY <1>2
<1>5. k <= -1 => k * TimeMod <= -TimeMod
  BY <1>2
<1>6. k = 0
  BY <1>1, <1>2, <1>3, <1>4, <1>5
<1>. QED BY <1>1, <1>2, <1>3, <1>6

-----------------------------------------------------------------------------
\* Deadlines, where every lifetime is at most half of the clock's range (those
\* beyond look as if they were over at once).
LifetimesFit ==
    \A req \in Requests : req.lifetime * TicksPerSecond <= TimeMod \div 2

\* While an entry is younger than the clock's range its age is what the clock
\* has left to its deadline, up to whole turns.
Timed(i) ==
    /\ slots[i].lifetime \in Nat \ {0}
    /\ LifetimeTicks(i) \in 1..(TimeMod \div 2)
    /\ HasClock /\ age[i] < TimeMod =>
          Congruent(slots[i].expiresAt, now - age[i] + LifetimeTicks(i))

DeadlinesCounted == \A i \in Slots : InUse(slots[i]) => Timed(i)

\* An entry's deadline is set when it is accepted and then waits for the clock.
LEMMA DeadlinesInvariance == ASSUME LifetimesFit PROVE HSpec => []DeadlinesCounted
<1>1. HInit => DeadlinesCounted
  BY InitEmpty DEF DeadlinesCounted
<1>2. HInv /\ DeadlinesCounted /\ [HNext]_allVars => DeadlinesCounted'
  <2> SUFFICES ASSUME HInv, DeadlinesCounted, [HNext]_allVars,
                      NEW j \in Slots, InUse(slots'[j])
               PROVE  Timed(j)'
    BY DEF DeadlinesCounted
  <2>1. TimeMod \in Nat /\ TimeMod > 5 /\ TicksPerSecond \in Nat \ {0}
    BY CovServerAssumption
  <2>2. now \in Int /\ age[j] \in 0..TimeMod
    BY TimeFacts DEF HInv, IInv, TypeOK, HTypeOK
  <2>3. ASSUME Lasts(j), TimePasses(j) PROVE Timed(j)'
    <3> DEFINE life == LifetimeTicks(j)
    <3>1. Timed(j) /\ slots'[j].lifetime = slots[j].lifetime
          /\ slots'[j].expiresAt = slots[j].expiresAt /\ LifetimeTicks(j)' = life
      BY <2>3 DEF Lasts, DeadlinesCounted, LifetimeTicks
    <3>2. life \in Int /\ slots[j].expiresAt \in Int
      <4>1. life \in Int
        BY <2>1, <3>1 DEF Timed
      <4>2. slots[j].expiresAt \in Time
        BY DEF HInv, IInv, TypeOK, Entry
      <4>. QED BY <4>1, <4>2, TimeFacts
    <3>3. ASSUME HasClock, age'[j] < TimeMod
          PROVE  Congruent(slots[j].expiresAt, now' - age'[j] + life)
      <4>1. CASE now' = now /\ age'[j] = age[j]
        BY <3>1, <3>3, <4>1 DEF Timed
      <4>2. CASE now' = Wrap(now + 1) /\ age'[j] = age[j] + 1 /\ age[j] < TimeMod
        <5> DEFINE ahead == life - (age[j] + 1)
        <5>1. Congruent(slots[j].expiresAt, now - age[j] + life)
          BY <3>1, <3>3, <4>2 DEF Timed
        <5>2. Wrap(now + 1) \in Int /\ Congruent(Wrap(now + 1), now + 1)
          <6>1. now + 1 \in Int
            BY <2>2
          <6>2. Wrap(now + 1) \in Time
            BY <6>1, WrapType
          <6>3. Congruent(Wrap(now + 1), now + 1)
            BY <6>1, WrapCongruent
          <6>. QED BY <6>2, <6>3, TimeFacts
        <5>3. Congruent(now + 1, Wrap(now + 1))
          <6>1. (now + 1) \in Int /\ Congruent(now + 1, now + 1)
            BY <2>1, <2>2 DEF Congruent
          <6>. QED BY <5>2, <6>1, CongruentChain
        <5>4. Congruent(now + 1 + ahead, Wrap(now + 1) + ahead)
          <6>1. ahead \in Int /\ now + 1 \in Int
            BY <2>2, <3>2
          <6> HIDE DEF ahead
          <6>. QED BY <5>2, <5>3, <6>1, CongruentShift
        <5>5. now + 1 + ahead = now - age[j] + life
              /\ Wrap(now + 1) + ahead = now' - age'[j] + life
          BY <2>2, <3>2, <4>2, <5>2
        <5>. QED BY <2>2, <3>2, <5>1, <5>2, <5>4, <5>5, CongruentChain
      <4>. QED BY <2>1, <2>2, <2>3, <3>3, <4>1, <4>2 DEF TimePasses
    <3>. QED BY <3>1, <3>3 DEF Timed
  <2>4. CASE Kept(j)
    BY <2>3, <2>4 DEF Kept
  <2>5. ASSUME NEW taken \in BOOLEAN, Tried(j, taken) PROVE Timed(j)'
    <3>1. slots[j] \in Entry
      BY DEF HInv, IInv, TypeOK
    <3>2. /\ Attempted(slots[j]).lifetime = slots[j].lifetime
          /\ Attempted(slots[j]).expiresAt = slots[j].expiresAt
          /\ Attempted(slots[j]) \in Entry
      BY <3>1, AttemptedType DEF Attempted, Entry
    <3>3. Lasts(j)
      BY <2>5, <3>2 DEF Tried, Lasts, AfterSend, AfterFailedSend, Sends, Resends, Notifies, Due, Entry
    <3>4. TimePasses(j)
      BY <2>5 DEF Tried, TimePasses
    <3>. QED BY <2>3, <3>3, <3>4
  <2>6. CASE Fresh(j)
    <3>1. PICK req \in Requests : req.lifetime # 0 /\ slots'[j] = NewEntry(req)
      BY <2>6 DEF Fresh
    <3> DEFINE life == req.lifetime * TicksPerSecond
    <3>2. req.lifetime \in Nat \ {0}
      BY <3>1, CovServerAssumption DEF Request
    <3>3. life \in 1..(TimeMod \div 2)
      BY <2>1, <3>2 DEF LifetimesFit
    <3>4. slots'[j].lifetime = req.lifetime
          /\ (HasClock => slots'[j].expiresAt = Wrap(now + life))
      BY <3>1 DEF NewEntry, Inactive, Now
    <3>5. now' = now /\ age'[j] = 0
      BY <2>6 DEF Fresh
    <3>6. Congruent(Wrap(now + life), now + life) /\ now + life = now - 0 + life
      BY <2>2, <3>3, WrapCongruent
    <3>. QED BY <3>2, <3>3, <3>4, <3>5, <3>6 DEF Timed, LifetimeTicks
  <2>. QED BY <2>4, <2>5, <2>6, SlotStep
<1>. QED BY <1>1, <1>2, HistoryInvariance, PTL DEF HSpec

\* Up to half a turn after the lifetime the scan tells rightly whether it is over.
LEMMA ExpiryIsSeen ==
    ASSUME LifetimesFit, HInv, NEW i \in Slots, InUse(slots[i]), Timed(i), HasClock
    PROVE  /\ Expired(slots[i]) => age[i] >= LifetimeTicks(i)
           /\ ~Expired(slots[i]) => \/ age[i] < LifetimeTicks(i)
                                    \/ age[i] >= LifetimeTicks(i) + TimeMod \div 2
<1> DEFINE life == LifetimeTicks(i)
           late == Wrap(now - slots[i].expiresAt)
<1>1. /\ TimeMod \in Nat /\ TimeMod > 5 /\ life \in 1..(TimeMod \div 2)
      /\ age[i] \in 0..TimeMod /\ now \in Int /\ slots[i].expiresAt \in Int
  BY CovServerAssumption, TimeFacts DEF Timed, HInv, IInv, TypeOK, HTypeOK, Entry
<1>2. Expired(slots[i]) <=> late < TimeMod \div 2
  BY DEF Expired, Reached, Now, Timed
<1>3. CASE age[i] = TimeMod
  BY <1>1, <1>3
<1>4. CASE age[i] < TimeMod
  <2>1. Congruent(slots[i].expiresAt, now - age[i] + life)
    BY <1>4 DEF Timed
  <2>2. Congruent(now - slots[i].expiresAt, now - (now - age[i] + life))
    <3>1. now - age[i] + life \in Int
      BY <1>1
    <3>. QED BY <1>1, <2>1, <3>1, CongruentShift
  <2>3. now - (now - age[i] + life) = age[i] - life
    BY <1>1
  <2>4. late \in Time /\ late \in Int /\ Congruent(late, age[i] - life)
    <3> DEFINE gap == now - slots[i].expiresAt
               over == age[i] - life
    <3>1. gap \in Int /\ over \in Int
      BY <1>1
    <3>2. Congruent(gap, over)
      BY <2>2, <2>3
    <3> HIDE DEF gap, over
    <3>3. Wrap(gap) \in Time /\ Wrap(gap) \in Int /\ Congruent(Wrap(gap), gap)
      BY <3>1, WrapType, WrapCongruent, TimeFacts
    <3>4. Congruent(Wrap(gap), over)
      BY <3>1, <3>2, <3>3, CongruentChain
    <3>. QED BY <3>3, <3>4 DEF gap, over
  <2>5. CASE age[i] < life
    <3>1. age[i] - life + TimeMod \in Time /\ Congruent(age[i] - life, age[i] - life + TimeMod)
      <4>1. age[i] - life = (age[i] - life + TimeMod) + (-1) * TimeMod
        BY <1>1
      <4>. QED BY <1>1, <2>5, <4>1 DEF Time, Congruent
    <3>2. late = age[i] - life + TimeMod
      <4> DEFINE over == age[i] - life
      <4>1. over \in Int /\ over + TimeMod \in Int
        BY <1>1
      <4> HIDE DEF late, over
      <4>2. Congruent(late, over) /\ Congruent(over, over + TimeMod) /\ over + TimeMod \in Time
        BY <2>4, <3>1 DEF over
      <4>3. Congruent(late, over + TimeMod)
        BY <2>4, <4>1, <4>2, CongruentChain
      <4>4. late = over + TimeMod
        BY <2>4, <4>2, <4>3, CongruentUnique
      <4>. QED BY <4>4 DEF over
    <3>3. late >= TimeMod \div 2
      BY <1>1, <3>2
    <3>4. ~(late < TimeMod \div 2)
      BY <1>1, <2>4, <3>3
    <3>. QED BY <1>2, <2>5, <3>4
  <2>6. CASE age[i] >= life
    <3>1. age[i] - life \in Time
      BY <1>1, <1>4, <2>6 DEF Time
    <3>2. late = age[i] - life
      BY <2>4, <3>1, CongruentUnique
    <3>. QED BY <1>1, <1>2, <2>6, <3>2
  <2>. QED BY <1>1, <2>5, <2>6
<1>. QED BY <1>1, <1>3, <1>4

\* What a scan removes has expired.
LEMMA ScanRemovesExpired ==
    ASSUME HInv, [HNext]_allVars, NEW i \in Slots, Removed(i), quiet' = 0, UNCHANGED spent
    PROVE  Expired(slots[i]) /\ HasClock
<1>1. slots \in [Slots -> Entry] /\ HInv
  BY DEF HInv, IInv, TypeOK
<1>2. ASSUME slots'[i] = PassedOver(slots[i]) PROVE Expired(slots[i]) /\ HasClock
  <2>1. InUse(slots[i]) /\ ~InUse(PassedOver(slots[i]))
    BY <1>2 DEF Removed
  <2>2. CASE ~Expired(slots[i])
    <3>1. InUse(PassedOver(slots[i]))
      BY <1>1, <2>1, <2>2 DEF PassedOver, InUse, Entry
    <3>. QED BY <2>1, <3>1
  <2>. QED BY <2>2 DEF Expired
<1>3. CASE Scanned
  BY <1>2, <1>3 DEF Scanned, ScanWithoutSend
<1>4. ASSUME NEW j \in Slots, NEW taken \in BOOLEAN, Sent(j, taken)
      PROVE  Expired(slots[i]) /\ HasClock
  <2>1. i \in Int /\ j \in Int
    BY DEF Slots
  <2>2. CASE i < j
    BY <1>2, <1>4, <2>2 DEF Sent, ScanAndSend
  <2>3. CASE i = j
    <3>1. InUse(slots'[i])
      <4>1. WellFormed(slots[i]) /\ Sends(slots[i])
        BY <1>4, <2>3 DEF Sent, ScanAndSend, HInv, IInv
      <4>2. slots'[i] = IF taken THEN AfterSend(slots[i]) ELSE AfterFailedSend(slots[i])
        BY <1>4, <2>1, <2>3 DEF Sent, ScanAndSend
      <4>3. Attempted(slots[i]) \in Entry /\ Attempted(slots[i]).state = slots[i].state
        BY <1>1, AttemptedType DEF Attempted, Entry
      <4>4. InUse(slots[i])
        BY <4>1 DEF Sends, Resends, Notifies, Due
      <4>. QED BY <4>2, <4>3, <4>4 DEF AfterSend, AfterFailedSend, InUse, Entry
    <3>. QED BY <3>1 DEF Removed
  <2>4. CASE j < i
    <3>1. slots'[i] = slots[i]
      BY <1>4, <2>1, <2>4 DEF Sent, ScanAndSend
    <3>. QED BY <3>1 DEF Removed
  <2>. QED BY <2>1, <2>2, <2>3, <2>4
<1>5. ~Spend
  BY DEF Spend, HInv, HTypeOK
<1>6. ASSUME slots'[i] = slots[i] PROVE FALSE
  BY <1>6 DEF Removed
<1>7. CASE Answered
  <2>1. PICK j \in Slots : ReceiveAnswer(slots[j].key.peer, slots[j].pendingInvokeId, j)
    BY <1>7 DEF Answered
  <2>2. slots'[i].state \in {slots[i].state, "Active"}
    BY <1>1, <2>1 DEF ReceiveAnswer, Entry
  <2>. QED BY <2>2 DEF Removed, InUse
<1>8. CASE Ticked \/ UNCHANGED allVars
  BY <1>6, <1>8 DEF Ticked, Tick, allVars, vars
<1>. QED BY <1>3, <1>4, <1>5, <1>7, <1>8 DEF HNext, Accepted, Disturbed

\* No scan ends a subscription early: where lifetimes are at most half of the
\* clock's range, the wrapped deadline is reached only when the lifetime is over.
THEOREM NothingExpiresEarly == ASSUME LifetimesFit PROVE HSpec => NoEarlyExpiry
<1> DEFINE Step == \A i \in Slots :
                      (Removed(i) /\ quiet' = 0 /\ UNCHANGED spent) => age[i] >= LifetimeTicks(i)
<1>1. HInv /\ DeadlinesCounted /\ [HNext]_allVars => [Step]_allVars
  BY ScanRemovesExpired, ExpiryIsSeen DEF Removed, DeadlinesCounted
<1>2. HSpec => []DeadlinesCounted
  BY DeadlinesInvariance
<1>3. HSpec => [][Step]_allVars
  <2>. HIDE DEF Step
  <2>. QED BY <1>1, <1>2, HistoryInvariance, PTL DEF HSpec
<1>. QED BY <1>3 DEF NoEarlyExpiry

\* No subscriber is notified after its lifetime, unless the scan left the entry
\* alone for half of the clock's range after that.
THEOREM NothingIsSentLate == ASSUME LifetimesFit PROVE HSpec => NoNotificationAfterExpiry
<1> DEFINE Step == \A i \in Slots, taken \in BOOLEAN :
                      (HasClock /\ Sent(i, taken)) =>
                         \/ age[i] < LifetimeTicks(i)
                         \/ age[i] >= LifetimeTicks(i) + TimeMod \div 2
<1>1. HInv /\ DeadlinesCounted /\ [HNext]_allVars => [Step]_allVars
  <2> SUFFICES ASSUME HInv, DeadlinesCounted, HasClock, NEW i \in Slots,
                      NEW taken \in BOOLEAN, Sent(i, taken)
               PROVE  \/ age[i] < LifetimeTicks(i)
                      \/ age[i] >= LifetimeTicks(i) + TimeMod \div 2
    OBVIOUS
  <2>1. InUse(slots[i]) /\ ~Expired(slots[i])
    BY DEF Sent, ScanAndSend, Sends, Resends, Notifies, Due
  <2>. QED BY <2>1, ExpiryIsSeen DEF DeadlinesCounted
<1>2. HSpec => []DeadlinesCounted
  BY DeadlinesInvariance
<1>3. HSpec => [][Step]_allVars
  <2>. HIDE DEF Step
  <2>. QED BY <1>1, <1>2, HistoryInvariance, PTL DEF HSpec
<1>. QED BY <1>3 DEF NoNotificationAfterExpiry

=============================================================================
