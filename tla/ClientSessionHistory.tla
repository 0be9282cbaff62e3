------------------------ MODULE ClientSessionHistory ------------------------
(***************************************************************************)
(* ClientSession with what its application was told and what the server     *)
(* granted, and the properties stated in those terms.                       *)
(***************************************************************************)
EXTENDS ClientSession

VARIABLES
    told,       \* the value and status the application knows of each handle
    grantAge    \* the ticks since the request that was last accepted was sent

hvars == <<sub, inFlight, job, nextIndex, calls, told, grantAge>>

Known(s) == [value |-> s.value, status |-> s.status]

HInit ==
    /\ Init
    /\ told = [h \in Handles |-> Known(sub[h])]
    /\ grantAge = [h \in Handles |-> 0]

Called(h) ==
    /\ calls' # calls /\ Len(calls') >= Len(calls) /\ Len(calls') > 0
    /\ calls'[1].proc = "finish" /\ calls'[1].h = h /\ calls'[1].calling

Smaller(a, b) == IF a < b THEN a ELSE b

\* The application learns of a handle when it creates it and when it is called.
Observe ==
    /\ told' = [h \in Handles |->
                   IF Called(h) \/ Known(sub'[h]) = Known(Fresh(h))
                   THEN Known(sub'[h]) ELSE told[h]]
    /\ grantAge' = [h \in Handles |->
                       IF ~sub'[h].covActive THEN 0
                       ELSE IF CovAccepted /\ inFlight = h THEN sub[h].since
                       ELSE IF Tick THEN Smaller(grantAge[h] + 1, Options[h].lifetime * Second)
                       ELSE grantAge[h]]

HNext == Next /\ Observe

HSpec == HInit /\ [][HNext]_hvars

\* What the application keeps calling for the sake of h.
PolledFor(h) == IF PollsArray THEN PollArray ELSE Poll(h)

\* Calls return, the clock runs on however often the application calls, and the
\* application goes on polling each of its handles, or the array of them.
FairSpec ==
    /\ HSpec
    /\ WF_hvars(SessionStep /\ Observe)
    /\ SF_hvars(Tick /\ Observe)
    /\ \A h \in Handles : SF_hvars(PolledFor(h) /\ Observe)

\* The transport does not refuse every read of a handle.
ReadsSentSpec == FairSpec /\ \A h \in Handles : SF_hvars(StartRead(h) /\ Observe)

\* The network is fair to registrations too: they are not refused or lost for ever.
AnsweredSpec ==
    /\ ReadsSentSpec
    /\ SF_hvars(CovAccepted /\ Observe)
    /\ \A h \in Handles : SF_hvars(StartCov(h) /\ Observe)

-----------------------------------------------------------------------------
\* Every variable keeps its range.
TypeOK ==
    /\ sub \in [Handles -> Handle]
    /\ inFlight \in Handles \cup {NoHandle}
    /\ job \in {"None", "Read", "Scan"}
    /\ nextIndex \in Handles
    /\ calls \in Seq(PollFrame \cup FinishFrame)

\* The session has one operation at a time, and it is the operation its handle
\* believes to have in flight (isBusy(), inFlightSubscription_): through
\* callbacks that stop handles, replace them or begin jobs in the middle of a poll.
OneOperation ==
    /\ \A h \in Handles : sub[h].doing # "None" <=> inFlight = h
    /\ job # "None" => inFlight = NoHandle

\* Whatever order answers, timeouts, notifications and failures come in, the
\* application knows the value and, when it asked to, the status that
\* lastValue() and lastStatus() return (the reasons of finishSubscriptionPoll()).
ApplicationKnows ==
    \A h \in Handles :
        /\ told[h].value = sub[h].value
        /\ Options[h].notifyOnStatusChange => told[h].status = sub[h].status

\* A handle is COV-active only while the server still has its entry: the renewal
\* was scheduled early enough for the request to be answered or to time out.
ActiveMeansGranted ==
    \A h \in Handles :
        sub[h].active /\ sub[h].covActive =>
            grantAge[h] < Options[h].lifetime * Second

\* An answer that arrives after stop() is not delivered to the application,
\* whatever call of poll() receives it.
LateAnswersAreDropped ==
    [][\A h \in Handles : Called(h) /\ ~calls'[1].notified => sub[h].active]_hvars

\* A request is answered, times out or is dropped with its handle.
RequestsEnd == \A h \in Handles : sub[h].doing # "None" ~> sub[h].doing = "None"

\* requestRefresh() leads to a read, unless the handle is stopped or gets its COV
\* registration, whichever handle the session's one request serves in between.
RefreshHappens ==
    \A h \in Handles : sub[h].refresh ~> ~sub[h].refresh \/ sub[h].covActive

\* A handle that prefers COV gets (back) to it when its server accepts it.
CovReturns ==
    \A h \in Handles :
        Options[h].preferCov => []<>(sub[h].covActive \/ ~sub[h].active)

=============================================================================
