--------------------------- MODULE CovServerHistory ---------------------------
(***************************************************************************)
(* CovServer with auxiliary variables that record what the server does not *)
(* remember: the true age of an entry, what its subscriber was last sent,  *)
(* how often a notification was attempted.  They let its promises be       *)
(* stated without the counters and wrapped deadlines it keeps itself.      *)
(* The module also bounds the environment: the number of subscriptions,    *)
(* restarts and changes by Budget, and the ticks between two idle polls by *)
(* MaxPollGap (the documentation asks that poll() be called regularly).    *)
(***************************************************************************)
EXTENDS CovServer

CONSTANTS
    MaxPollGap,   \* ticks a running server may go without an idle poll
    Budget,       \* number of environment steps other than the ones below
    SendMayFail,  \* whether transport_->send may refuse a notification
    StartTimes    \* what the clock may show when the application starts

ASSUME HistoryAssumption ==
    /\ MaxPollGap \in Nat
    /\ Budget \in Nat
    /\ SendMayFail \in BOOLEAN
    /\ StartTimes \subseteq Time

VARIABLES
    age,        \* ticks since the entry was last accepted, at most TimeMod
    told,       \* the reading last handed to the transport for the entry
    attempts,   \* how often the entry's latest notification was attempted
    failed,     \* a send failed since the last success or acceptance
    quiet,      \* ticks since the last idle poll
    spent       \* the part of Budget used

history == <<age, told, attempts, failed, quiet, spent>>
allVars == <<vars, history>>

FirstValue == CHOOSE v \in Values : TRUE

HInit ==
    /\ Init
    /\ \A o \in Objects, p \in Properties : values[o][p] = FirstValue
    /\ now \in StartTimes
    /\ age = [i \in Slots |-> 0]
    /\ told = [i \in Slots |-> NoSnapshot]
    /\ attempts = [i \in Slots |-> 0]
    /\ failed = [i \in Slots |-> FALSE]
    /\ quiet = 0
    /\ spent = 0

Spend == spent < Budget /\ spent' = spent + 1

Accepted(req, i) ==
    /\ Spend
    /\ Subscribe(req, i)
    /\ age' = [age EXCEPT ![i] = 0]
    /\ told' = [told EXCEPT ![i] = NoSnapshot]
    /\ attempts' = [attempts EXCEPT ![i] = 0]
    /\ failed' = [failed EXCEPT ![i] = FALSE]
    /\ UNCHANGED quiet

Disturbed ==
    /\ Spend
    /\ \/ Begin
       \/ End
       \/ \E req \in Requests, i \in Slots : Cancel(req, i)
       \/ \E o \in Objects, p \in Comparable, v \in Values : ChangeValue(o, p, v)
       \/ \E o \in Objects : ChangeReadable(o)
    /\ UNCHANGED <<age, told, attempts, failed, quiet>>

\* The clock only matters once a slot was used.
Ticked ==
    /\ HasClock
    /\ \E i \in Slots : slots[i] # Inactive
    /\ running => quiet < MaxPollGap
    /\ Tick
    /\ quiet' = IF running THEN quiet + 1 ELSE quiet
    /\ age' = [i \in Slots |-> IF InUse(slots[i]) /\ age[i] < TimeMod
                               THEN age[i] + 1 ELSE age[i]]
    /\ UNCHANGED <<told, attempts, failed, spent>>

Answered ==
    /\ \E i \in Slots :
          ReceiveAnswer(slots[i].key.peer, slots[i].pendingInvokeId, i)
    /\ UNCHANGED history

Scanned ==
    /\ ScanWithoutSend
    /\ quiet' = 0
    /\ UNCHANGED <<age, told, attempts, failed, spent>>

Sent(i, taken) ==
    /\ taken \/ SendMayFail
    /\ ScanAndSend(i, taken)
    /\ told' = IF taken THEN [told EXCEPT ![i] = Outgoing(slots[i])] ELSE told
    /\ attempts' = [attempts EXCEPT ![i] = IF Awaiting(slots[i]) THEN @ + 1 ELSE 1]
    /\ failed' = [failed EXCEPT ![i] = ~taken]
    /\ quiet' = 0
    /\ UNCHANGED <<age, spent>>

HNext ==
    \/ \E req \in Requests, i \in Slots : Accepted(req, i)
    \/ Disturbed
    \/ Ticked
    \/ Answered
    \/ Scanned
    \/ \E i \in Slots, taken \in BOOLEAN : Sent(i, taken)

HSpec == HInit /\ [][HNext]_allVars

-----------------------------------------------------------------------------
\* Safety.

\* Change is measured against what the subscriber was last sent: a refused
\* send, a retry or an answer never moves the snapshot away from it.
SnapshotIsLastTold ==
    \A i \in Slots : InUse(slots[i]) => slots[i].snapshot = told[i]

\* A confirmed notification is attempted once and then at most
\* NumberOfApduRetries times, however sends, answers and backoffs interleave.
AttemptsBounded ==
    \A i \in Slots : Awaiting(slots[i]) => attempts[i] <= 1 + NumberOfApduRetries

\* A backoff in force was earned by the entry in the slot, never left behind by
\* the one that had the slot before it.
BackoffIsOwn ==
    \A i \in Slots : InUse(slots[i]) /\ slots[i].retryAt # 0 => failed[i]

LifetimeTicks(i) == slots[i].lifetime * TicksPerSecond
Removed(i) == InUse(slots[i]) /\ ~InUse(slots'[i])

\* A scan removes no entry before its lifetime is over.
NoEarlyExpiry ==
    [][\A i \in Slots :
        (Removed(i) /\ quiet' = 0 /\ UNCHANGED spent) => age[i] >= LifetimeTicks(i)]_allVars

\* No notification is attempted for an entry whose lifetime is over, unless the
\* scan has not come to the entry for half the clock's range since then: entries
\* in front of it can keep it waiting that long, and its deadline then looks as
\* if it were still to come.
NoNotificationAfterExpiry ==
    [][\A i \in Slots, taken \in BOOLEAN :
        (HasClock /\ Sent(i, taken)) =>
            \/ age[i] < LifetimeTicks(i)
            \/ age[i] >= LifetimeTicks(i) + TimeMod \div 2]_allVars

\* What makes a notification worth sending: something was never told, or
\* differs from what was told by the increment where there is one.
WorthTelling(i) ==
    \E p \in Monitored(slots[i].key) :
        LET current == values[slots[i].key.object][p]
            last    == told[i][p]
        IN  \/ last = Unset
            \/ /\ last # Unset
               /\ current # last
               /\ slots[i].increment # NoIncrement
                     => Distance(current, last) >= slots[i].increment

\* Every notification that is not a resend tells its subscriber something.
NotifiesOnlyChanges ==
    [][\A i \in Slots, taken \in BOOLEAN :
        (Sent(i, taken) /\ ~Awaiting(slots[i])) => WorthTelling(i)]_allVars

-----------------------------------------------------------------------------
\* Liveness.

\* The application calls poll() again and again and the transport does not
\* refuse for ever; peers answer confirmed notifications.
Fairness ==
    /\ WF_allVars(Scanned)
    /\ SF_allVars(\E i \in Slots : Sent(i, TRUE))
    /\ WF_allVars(Ticked)
    /\ WF_allVars(Answered)

HFairSpec == HSpec /\ Fairness

\* When the environment has settled, every subscriber of a readable object is
\* eventually sent the value the object has.
EventuallyTold ==
    <>[](\A i \in Slots :
            InUse(slots[i]) /\ slots[i].key.object \in readable => ~WorthTelling(i))

=============================================================================
