---------------------------- MODULE ClientSession ----------------------------
(***************************************************************************)
(* The subscriptions of one BacnetDeviceSession: for each handle the        *)
(* initial read, the fallback polling, the COV registration and its         *)
(* renewal, and the one request the session may have in flight.             *)
(*                                                                         *)
(* poll() runs the application's callback in the middle of its work, and    *)
(* the callback may stop handles, ask for a refresh, begin a job or poll    *)
(* again.  The calls in progress are therefore a stack of frames, the       *)
(* innermost first, and the steps of poll() between two places where the    *)
(* application or the transport acts are one action each.                   *)
(*                                                                         *)
(* What a poll of the transport yields is nondeterministic here; which      *)
(* datagram it yields is the subject of ClientReceive.  Diagnostics, error  *)
(* codes, reject reasons and the property cache are left out, and moving a  *)
(* handle keeps its identity: moveFrom() re-points the session to it.       *)
(***************************************************************************)
EXTENDS Integers, Sequences, FiniteSets

CONSTANTS
    NumHandles,     \* handles are the positions of the application's array
    Options,        \* each handle's BacnetSubscribeOptions
    Values,         \* property values
    NoValue,        \* hasValue_ is false
    TimeMod,        \* 2^32
    Second,         \* 1000
    MaxLate,        \* how late, in ticks, the application may poll
    MaxCalls,       \* bound on nested calls of poll()
    CallbacksPoll,  \* callbacks call poll()
    PollsStopped,   \* the application goes on polling handles it stopped
    Changes,        \* it stops and replaces its handles
    HasJobs,        \* it also reads properties and scans object lists
    PollsArray      \* it polls the array of its handles, not each handle

Handles == 1..NumHandles
NoHandle == 0

Option == [preferCov : BOOLEAN, immediateFirstRead : BOOLEAN,
           notifyOnStatusChange : BOOLEAN, fallbackPoll : Nat,
           timeout : Nat \ {0}, lifetime : Nat \ {0}, renewBefore : Nat]

ASSUME ClientSessionAssumption ==
    /\ NumHandles \in Nat \ {0}
    /\ Options \in [Handles -> Option]
    /\ NoValue \notin Values
    /\ TimeMod \in Nat \ {0} /\ Second \in Nat \ {0}
    /\ MaxLate \in Nat /\ MaxCalls \in Nat \ {0}
    /\ CallbacksPoll \in BOOLEAN /\ PollsStopped \in BOOLEAN
    /\ PollsArray \in BOOLEAN /\ HasJobs \in BOOLEAN
    /\ Changes \in BOOLEAN

VARIABLES
    sub,        \* the handles
    inFlight,   \* inFlightSubscription_
    job,        \* which other operation has the session: a read, a scan, none
    nextIndex,  \* roundRobinSubscriptionIndex_
    calls       \* the frames of the calls in progress, innermost first

vars == <<sub, inFlight, job, nextIndex, calls>>

-----------------------------------------------------------------------------
\* Time: every time the code keeps is compared with the wrapping clock by its
\* difference, so the model keeps the differences.  A deadline is the ticks that
\* are left until it, modulo TimeMod, and has been reached when the signed
\* difference is not positive; a start is the ticks that have passed since.

Time == 0..(TimeMod - 1)

\* Mutant: the clock's differences do not wrap.
WrapNever(t) == t

Wrap(t) == t % TimeMod
Late(deadline) == Wrap(-deadline)
Reached(deadline) == Late(deadline) < TimeMod \div 2

-----------------------------------------------------------------------------
\* One handle.  A status other than Skipped means hasTerminalStatus_.

ReadStatus == {"Skipped", "Ack", "Error", "Timeout", "SendFailed"}

Handle == [active : BOOLEAN, refresh : BOOLEAN, initial : BOOLEAN,
           pollIn : Time, value : Values \cup {NoValue}, status : ReadStatus,
           covActive : BOOLEAN, fallback : BOOLEAN, renewIn : Time,
           doing : {"None", "Poll", "SubscribeCov"}, since : Time]

Fresh(h) == [active |-> TRUE, refresh |-> FALSE,
             initial |-> Options[h].immediateFirstRead,
             pollIn |-> Wrap(Options[h].fallbackPoll), value |-> NoValue, status |-> "Skipped",
             covActive |-> FALSE, fallback |-> FALSE, renewIn |-> 0,
             doing |-> "None", since |-> 0]

\* isDue()
Due(h, s) ==
    /\ s.active /\ s.doing = "None"
    /\ IF s.covActive THEN Reached(s.renewIn)
       ELSE \/ s.refresh
            \/ s.initial
            \/ Options[h].fallbackPoll # 0 /\ Reached(s.pollIn)

\* Mutant: a refused registration is not tried again.
CovDueOnce(h, s) ==
    /\ s.active /\ s.doing = "None" /\ job = "None" /\ Options[h].preferCov
    /\ ~s.fallback
    /\ s.covActive => Reached(s.renewIn)

CovDue(h, s) ==
    /\ s.active /\ s.doing = "None" /\ job = "None" /\ Options[h].preferCov
    /\ s.covActive \/ s.fallback => Reached(s.renewIn)

TimedOut(h) == sub[h].since >= Options[h].timeout

Cleared(s) == [s EXCEPT !.doing = "None", !.since = 0]
Sent(s, operation) == [s EXCEPT !.doing = operation, !.since = 0]

\* scheduleCovRetry()
CovFailed(h, s) ==
    LET delay == IF Options[h].renewBefore # 0 THEN Options[h].renewBefore ELSE 1
    IN  [s EXCEPT !.covActive = FALSE, !.fallback = TRUE, !.initial = TRUE,
                  !.renewIn = Wrap(delay * Second)]

\* Mutant: the next renewal is due when the entry ends.
CovGrantedToTheEnd(h, s) ==
    [Cleared(s) EXCEPT !.covActive = TRUE, !.fallback = FALSE,
                       !.renewIn = Wrap(Options[h].lifetime * Second)]

CovGranted(h, s) ==
    LET o == Options[h]
        lead == IF o.lifetime > o.renewBefore THEN o.lifetime - o.renewBefore
                ELSE o.lifetime
    IN  [Cleared(s) EXCEPT !.covActive = TRUE, !.fallback = FALSE,
                           !.renewIn = Wrap(lead * Second)]

-----------------------------------------------------------------------------
\* The calls in progress.

PollFrame == [proc : {"poll", "pollArray", "pollInFlight"},
              h : Handles \cup {NoHandle}, at : {"InFlight", "Notify", "Start"}]
FinishFrame == [proc : {"finish"}, h : Handles, calling : BOOLEAN,
                notified : BOOLEAN]

Top == calls[1]
Finishing == calls # <<>> /\ Top.proc = "finish"

\* Where application code runs: between its calls, and in its callback.
ApplicationRuns == calls = <<>> \/ (Finishing /\ Top.calling)

MayPoll ==
    \/ calls = <<>>
    \/ Finishing /\ Top.calling /\ CallbacksPoll /\ Len(calls) < MaxCalls

Enter(procedure, h) ==
    /\ MayPoll
    /\ calls' = <<[proc |-> procedure, h |-> h, at |-> "InFlight"]>> \o calls
    /\ UNCHANGED <<sub, inFlight, job, nextIndex>>

At(place) == calls # <<>> /\ ~Finishing /\ Top.at = place
Moved(place) == <<[Top EXCEPT !.at = place]>> \o Tail(calls)
GoTo(place) == calls' = Moved(place)
Return == calls' = Tail(calls)

\* Mutant: a new status is not a reason to call.
ReasonsByValue(h, status, value) == status = "Ack" /\ value # sub[h].value

\* The reasons finishSubscriptionPoll() has to call the application.
Reasons(h, status, value) ==
    \/ status = "Ack" /\ value # sub[h].value
    \/ Options[h].notifyOnStatusChange /\ status # sub[h].status

\* finishSubscriptionPoll() up to the callback; s is the handle as its caller
\* leaves it and rest what the caller has still to do.
Finish(s, h, status, value, notified, rest) ==
    /\ sub' = [sub EXCEPT ![h] =
                  [s EXCEPT !.status = status,
                            !.value = IF status = "Ack" THEN value ELSE @]]
    /\ calls' = <<[proc |-> "finish", h |-> h, notified |-> notified,
                   calling |-> Reasons(h, status, value)]>> \o rest

-----------------------------------------------------------------------------
Init ==
    /\ sub = [h \in Handles |-> Fresh(h)]
    /\ inFlight = NoHandle
    /\ job = "None"
    /\ nextIndex = 1
    /\ calls = <<>>

\* The times at which poll() has something to do for a handle.
Deadlines(h) ==
    LET s == sub[h]
    IN  (IF s.covActive \/ (s.fallback /\ ~PollsArray) THEN {s.renewIn} ELSE {})
        \cup (IF ~s.covActive /\ Options[h].fallbackPoll # 0 THEN {s.pollIn} ELSE {})

\* While the session is free the application polls at most MaxLate ticks after
\* a deadline, and its jobs end in that time.
InTime(h) ==
    IF sub[h].doing = "None"
    THEN sub[h].active /\ inFlight = NoHandle =>
            \A t \in Deadlines(h) : Reached(t) => Late(t) < MaxLate
    ELSE sub[h].since < Options[h].timeout + MaxLate

\* A deadline that was never set, or a start that was cleared, stays as it is.
Aged(h, s) ==
    [s EXCEPT !.since = IF s.doing = "None" THEN 0 ELSE Wrap(@ + 1),
              !.renewIn = IF s.covActive \/ s.fallback THEN Wrap(@ - 1) ELSE @,
              !.pollIn = IF Options[h].fallbackPoll # 0 THEN Wrap(@ - 1) ELSE @]

Tick ==
    /\ calls = <<>>
    /\ \A h \in Handles : InTime(h)
    /\ sub' = [h \in Handles |-> Aged(h, sub[h])]
    /\ UNCHANGED <<inFlight, job, nextIndex, calls>>

-----------------------------------------------------------------------------
\* What the application may do.

\* The handle is replaced by a new subscription: the destination of a move
\* assignment is released first.  It is not replaced from its own callback.
Subscribe(h) ==
    /\ ApplicationRuns
    /\ \A k \in DOMAIN calls : calls[k].h # h
    /\ sub[h] # Fresh(h)
    /\ sub' = [sub EXCEPT ![h] = Fresh(h)]
    /\ inFlight' = IF inFlight = h THEN NoHandle ELSE inFlight
    /\ UNCHANGED <<job, nextIndex, calls>>

\* Mutant: the session goes on waiting for the answer.
StopKeepingRequest(h) ==
    /\ ApplicationRuns
    /\ sub[h].active
    /\ sub' = [sub EXCEPT ![h].active = FALSE, ![h].refresh = FALSE, ![h].initial = FALSE]
    /\ UNCHANGED <<inFlight, job, nextIndex, calls>>

Stop(h) ==
    /\ ApplicationRuns
    /\ sub[h].active
    /\ sub' = [sub EXCEPT ![h] = [Cleared(@) EXCEPT !.active = FALSE,
                                   !.refresh = FALSE, !.initial = FALSE]]
    /\ inFlight' = IF inFlight = h THEN NoHandle ELSE inFlight
    /\ UNCHANGED <<job, nextIndex, calls>>

RequestRefresh(h) ==
    /\ ApplicationRuns
    /\ sub[h].active /\ ~sub[h].refresh
    /\ sub' = [sub EXCEPT ![h].refresh = TRUE]
    /\ UNCHANGED <<inFlight, job, nextIndex, calls>>

\* Mutant: a scan does not look for a subscription's request.
BeginJobUnchecked(kind) ==
    /\ ApplicationRuns
    /\ job = "None"
    /\ job' = kind
    /\ UNCHANGED <<sub, inFlight, nextIndex, calls>>

\* beginPropertyRead() and beginObjectListScan(), refused while isBusy().
BeginJob(kind) ==
    /\ ApplicationRuns
    /\ job = "None" /\ inFlight = NoHandle
    /\ job' = kind
    /\ UNCHANGED <<sub, inFlight, nextIndex, calls>>

\* The job is complete, has failed or is cancelled.
EndJob ==
    /\ ApplicationRuns
    /\ job # "None"
    /\ job' = "None"
    /\ UNCHANGED <<sub, inFlight, nextIndex, calls>>

Poll(h) ==
    /\ ~PollsArray
    /\ sub[h].active \/ PollsStopped
    /\ Enter("poll", h)


PollArray == PollsArray /\ Enter("pollArray", NoHandle)

\* The public pollInFlight() turns to the job instead when there is one.
PollInFlight == job = "None" /\ Enter("pollInFlight", NoHandle)

-----------------------------------------------------------------------------
\* The first step of every poll: the request in flight.

NothingInFlight ==
    /\ At("InFlight")
    /\ inFlight = NoHandle
    /\ GoTo("Notify")
    /\ UNCHANGED <<sub, inFlight, job, nextIndex>>

\* Neither an answer nor the timeout: the call returns.
StillWaiting ==
    /\ At("InFlight")
    /\ inFlight # NoHandle
    /\ ~TimedOut(inFlight)
    /\ Return
    /\ UNCHANGED <<sub, inFlight, job, nextIndex>>

CovAccepted ==
    /\ At("InFlight")
    /\ inFlight # NoHandle /\ sub[inFlight].doing = "SubscribeCov"
    /\ sub' = [sub EXCEPT ![inFlight] = CovGranted(inFlight, @)]
    /\ inFlight' = NoHandle
    /\ GoTo("Notify")
    /\ UNCHANGED <<job, nextIndex>>

\* Error, Reject or Abort at any time, a timeout when it is time.
CovRefused ==
    /\ At("InFlight")
    /\ inFlight # NoHandle /\ sub[inFlight].doing = "SubscribeCov"
    /\ sub' = [sub EXCEPT ![inFlight] = Cleared(CovFailed(inFlight, @))]
    /\ inFlight' = NoHandle
    /\ GoTo("Notify")
    /\ UNCHANGED <<job, nextIndex>>

\* The handle in flight is active: stop() takes it out of flight.  The code checks
\* it once more (pollInFlightSubscription()), and never finds another.
ReadEnds(status, value) ==
    /\ At("InFlight")
    /\ inFlight # NoHandle /\ sub[inFlight].doing = "Poll"
    /\ status = "Timeout" => TimedOut(inFlight)
    /\ Finish(sub[inFlight], inFlight, status, value, FALSE, Moved("Notify"))
    /\ UNCHANGED <<inFlight, job, nextIndex>>

-----------------------------------------------------------------------------
\* The second step: poll() of one handle looks for a COV notification.

NoNotification ==
    /\ At("Notify")
    /\ IF \/ inFlight # NoHandle \/ Top.proc = "pollInFlight"
          \/ Top.proc = "pollArray" /\ job = "Read"
       THEN Return ELSE GoTo("Start")
    /\ UNCHANGED <<sub, inFlight, job, nextIndex>>

Notifiable(h) == Top.proc = "poll" /\ inFlight = NoHandle /\ sub[h].covActive

\* A confirmed notification that could not be acknowledged is put back.
AcknowledgementFails ==
    /\ At("Notify") /\ Notifiable(Top.h)
    /\ Return
    /\ UNCHANGED <<sub, inFlight, job, nextIndex>>

Notified(value) ==
    /\ At("Notify") /\ Notifiable(Top.h)
    /\ Finish(sub[Top.h], Top.h, "Ack", value, TRUE, Moved("Start"))
    /\ UNCHANGED <<inFlight, job, nextIndex>>

-----------------------------------------------------------------------------
\* The third step: a COV request if one is due, else a read if one is due.

\* The handle poll() was called for, or the first one due in the array.
Chosen(h) ==
    IF Top.proc = "poll" THEN h = Top.h
    ELSE LET position(k) == (k - nextIndex) % NumHandles
             due == {k \in Handles : Due(k, sub[k])}
         IN  h \in due /\ \A k \in due : position(h) <= position(k)

\* Mutant: the search starts at the same handle every time.
NextIndexFixed(h) == nextIndex

NextIndex(h) == IF Top.proc = "poll" THEN nextIndex ELSE (h % NumHandles) + 1

\* The handle after tryStartCovSubscription() returned false.
WithoutCov(h) == IF CovDue(h, sub[h]) THEN CovFailed(h, sub[h]) ELSE sub[h]

StartCov(h) ==
    /\ At("Start") /\ Chosen(h)
    /\ CovDue(h, sub[h])
    /\ sub' = [sub EXCEPT ![h] = Sent(@, "SubscribeCov")]
    /\ inFlight' = h
    /\ nextIndex' = NextIndex(h)
    /\ Return
    /\ UNCHANGED <<job>>

StartRead(h) ==
    /\ At("Start") /\ Chosen(h)
    /\ job = "None" /\ Due(h, WithoutCov(h))
    /\ sub' = [sub EXCEPT ![h] = [Sent(WithoutCov(h), "Poll") EXCEPT !.refresh = FALSE]]
    /\ inFlight' = h
    /\ nextIndex' = NextIndex(h)
    /\ Return
    /\ UNCHANGED <<job>>

ReadNotSent(h) ==
    /\ At("Start") /\ Chosen(h)
    /\ job = "None" /\ Due(h, WithoutCov(h))
    /\ Finish(WithoutCov(h), h, "SendFailed", NoValue, FALSE, Tail(calls))
    /\ nextIndex' = NextIndex(h)
    /\ UNCHANGED <<inFlight, job>>

StartsNothing ==
    /\ At("Start")
    /\ \A h \in Handles : Chosen(h) =>
           ~CovDue(h, sub[h]) /\ (job # "None" \/ ~Due(h, sub[h]))
    /\ nextIndex' = IF \E h \in Handles : Chosen(h)
                    THEN NextIndex(CHOOSE h \in Handles : Chosen(h)) ELSE nextIndex
    /\ Return
    /\ UNCHANGED <<sub, inFlight, job>>

-----------------------------------------------------------------------------
\* Mutant: the handle still believes its request to be in flight.
FinishReturnsUncleared ==
    /\ Finishing
    /\ sub' = [sub EXCEPT ![Top.h] =
                  [@ EXCEPT !.initial = FALSE, !.pollIn = Wrap(Options[Top.h].fallbackPoll)]]
    /\ inFlight' = IF inFlight = Top.h THEN NoHandle ELSE inFlight
    /\ Return
    /\ UNCHANGED <<job, nextIndex>>

\* finishSubscriptionPoll() after the callback.  The caller of a notification's
\* then marks the registration active.
FinishReturns ==
    /\ Finishing
    /\ sub' = [sub EXCEPT ![Top.h] =
                  [Cleared(@) EXCEPT !.initial = FALSE, !.pollIn = Wrap(Options[Top.h].fallbackPoll),
                                     !.covActive = sub[Top.h].covActive \/ Top.notified]]
    /\ inFlight' = IF inFlight = Top.h THEN NoHandle ELSE inFlight
    /\ Return
    /\ UNCHANGED <<job, nextIndex>>

Application ==
    \/ Changes /\ \E h \in Handles : Subscribe(h) \/ Stop(h)
    \/ \E h \in Handles : RequestRefresh(h)
    \/ HasJobs /\ \E kind \in {"Read", "Scan"} : BeginJob(kind)
    \/ EndJob

Polls == PollArray \/ PollInFlight \/ \E h \in Handles : Poll(h)

InFlightStep ==
    \/ NothingInFlight \/ StillWaiting \/ CovAccepted \/ CovRefused
    \/ \E value \in Values : ReadEnds("Ack", value)
    \/ \E status \in {"Error", "Timeout"} : ReadEnds(status, NoValue)

NotifyStep ==
    NoNotification \/ AcknowledgementFails \/ \E value \in Values : Notified(value)

StartStep ==
    StartsNothing \/ \E h \in Handles : StartCov(h) \/ StartRead(h) \/ ReadNotSent(h)

SessionStep == InFlightStep \/ NotifyStep \/ StartStep \/ FinishReturns

Next == Tick \/ Application \/ Polls \/ SessionStep

Spec == Init /\ [][Next]_vars

=============================================================================
