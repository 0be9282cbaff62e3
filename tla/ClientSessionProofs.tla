------------------------- MODULE ClientSessionProofs -------------------------
(***************************************************************************)
(* TLAPS proofs about ClientSessionHistory, for every number of handles and *)
(* every choice of their options, while callbacks do not poll: the types,   *)
(* the one operation of the session, what a late answer may do, what the    *)
(* application knows, and that a COV-active handle still has its entry in   *)
(* the server: for any number of handles whose renewals do not wait too     *)
(* long for their turn, which is proved of a session of one handle.         *)
(***************************************************************************)
EXTENDS ClientSessionHistory, SequenceTheorems, TLAPS

-----------------------------------------------------------------------------
\* One handle under each operation.

\* Every wrapped difference lies inside the clock's range.
LEMMA WrapType == ASSUME NEW t \in Int PROVE Wrap(t) \in Time
BY ClientSessionAssumption DEF Wrap, Time

\* The operations keep a handle's type, and none but a result changes what
\* the application may ask for.
LEMMA ClearedType ==
    ASSUME NEW s \in Handle
    PROVE  /\ Cleared(s) \in Handle
           /\ Cleared(s).doing = "None" /\ Cleared(s).active = s.active
           /\ Known(Cleared(s)) = Known(s)
<1>1. 0 \in Time
  BY ClientSessionAssumption DEF Time
<1>. QED BY <1>1 DEF Cleared, Handle, Known

\* What a handle becomes by each thing that happens to it keeps its ranges.
LEMMA SentType ==
    ASSUME NEW s \in Handle, NEW operation \in {"Poll", "SubscribeCov"}
    PROVE  /\ Sent(s, operation) \in Handle
           /\ Sent(s, operation).doing = operation /\ Sent(s, operation).active = s.active
           /\ Known(Sent(s, operation)) = Known(s)
<1>1. 0 \in Time
  BY ClientSessionAssumption DEF Time
<1>. QED BY <1>1 DEF Sent, Handle, Known

\* After a SubscribeCOV that was not granted,
LEMMA CovFailedType ==
    ASSUME NEW h \in Handles, NEW s \in Handle
    PROVE  /\ CovFailed(h, s) \in Handle
           /\ CovFailed(h, s).doing = s.doing /\ CovFailed(h, s).active = s.active
           /\ Known(CovFailed(h, s)) = Known(s)
<1> DEFINE delay == IF Options[h].renewBefore # 0 THEN Options[h].renewBefore ELSE 1
<1>1. Options[h].renewBefore \in Nat /\ Second \in Nat
  BY ClientSessionAssumption DEF Option
<1>2. delay \in Nat
  BY <1>1
<1>3. delay * Second \in Int
  BY <1>1, <1>2
<1>4. Wrap(delay * Second) \in Time
  BY <1>3, WrapType
<1>. QED BY <1>4 DEF CovFailed, Handle, Known

\* after one that was,
LEMMA CovGrantedType ==
    ASSUME NEW h \in Handles, NEW s \in Handle
    PROVE  /\ CovGranted(h, s) \in Handle
           /\ CovGranted(h, s).doing = "None" /\ CovGranted(h, s).active = s.active
           /\ Known(CovGranted(h, s)) = Known(s)
<1> DEFINE o == Options[h]
           lead == IF o.lifetime > o.renewBefore THEN o.lifetime - o.renewBefore ELSE o.lifetime
<1>1. o.lifetime \in Nat /\ o.renewBefore \in Nat /\ Second \in Nat
  BY ClientSessionAssumption DEF Option
<1>2. lead \in Int
  BY <1>1
<1>3. lead * Second \in Int
  BY <1>1, <1>2
<1>4. Wrap(lead * Second) \in Time
  BY <1>3, WrapType
<1>5. Cleared(s) \in Handle /\ Cleared(s).doing = "None" /\ Cleared(s).active = s.active
      /\ Known(Cleared(s)) = Known(s)
  BY ClearedType
<1>. QED BY <1>4, <1>5 DEF CovGranted, Handle, Known

\* when it is subscribed anew,
LEMMA FreshType ==
    ASSUME NEW h \in Handles
    PROVE  Fresh(h) \in Handle /\ Fresh(h).doing = "None"
<1>1. Options[h].fallbackPoll \in Int /\ Options[h].immediateFirstRead \in BOOLEAN
  BY ClientSessionAssumption DEF Option
<1>2. Wrap(Options[h].fallbackPoll) \in Time /\ 0 \in Time
  BY <1>1, WrapType, ClientSessionAssumption DEF Time
<1>. QED BY <1>1, <1>2 DEF Fresh, Handle, ReadStatus

\* and when the clock moves.
LEMMA AgedType ==
    ASSUME NEW h \in Handles, NEW s \in Handle
    PROVE  /\ Aged(h, s) \in Handle
           /\ Aged(h, s).doing = s.doing /\ Aged(h, s).active = s.active
           /\ Known(Aged(h, s)) = Known(s)
<1>1. s.since \in Int /\ s.renewIn \in Int /\ s.pollIn \in Int /\ 0 \in Time
  BY ClientSessionAssumption DEF Handle, Time
<1>2. Wrap(s.since + 1) \in Time /\ Wrap(s.renewIn - 1) \in Time /\ Wrap(s.pollIn - 1) \in Time
  BY <1>1, WrapType
<1>. QED BY <1>1, <1>2 DEF Aged, Handle, Known

\* The handle that goes on without COV.
LEMMA WithoutCovType ==
    ASSUME NEW h \in Handles, sub[h] \in Handle
    PROVE  /\ WithoutCov(h) \in Handle
           /\ WithoutCov(h).doing = sub[h].doing /\ WithoutCov(h).active = sub[h].active
           /\ Known(WithoutCov(h)) = Known(sub[h])
BY CovFailedType DEF WithoutCov

-----------------------------------------------------------------------------
\* The inductive invariant.  Without polls from callbacks the calls in progress
\* are at most one poll and, on top of it, the finish it is calling.

Polling == {f \in PollFrame : f.proc = "poll" => f.h \in Handles}

Frames ==
    \/ calls = <<>>
    \/ \E f \in Polling \cup FinishFrame : calls = <<f>>
    \/ \E f \in FinishFrame, g \in Polling : calls = <<f, g>>

\* A poll that has come to its third step found nothing in flight, and nothing
\* its callback may do puts a request there.
StartsFree ==
    \A k \in DOMAIN calls :
        calls[k].proc # "finish" /\ calls[k].at = "Start" => inFlight = NoHandle

OnlyActiveAsk == \A h \in Handles : sub[h].doing # "None" => sub[h].active

SInv ==
    /\ sub \in [Handles -> Handle]
    /\ inFlight \in Handles \cup {NoHandle}
    /\ job \in {"None", "Read", "Scan"}
    /\ nextIndex \in Handles
    /\ Frames
    /\ OnlyActiveAsk
    /\ OneOperation
    /\ StartsFree

\* What a step changes for the application it tells, and it tells of an answer
\* only where the handle is active.
Agrees ==
    \A h \in Handles :
        \/ Called(h)
        \/ Known(sub'[h]) = Known(Fresh(h))
        \/ /\ sub'[h].value = sub[h].value
           /\ Options[h].notifyOnStatusChange => sub'[h].status = sub[h].status

Entitled == \A h \in Handles : Called(h) /\ ~calls'[1].notified => sub[h].active

Kept == SInv' /\ Agrees /\ Entitled

-----------------------------------------------------------------------------
\* The frames.

\* While a poll has the next step it is the only call in progress.
LEMMA PollOnTop ==
    ASSUME Frames, calls # <<>>, ~Finishing
    PROVE  /\ Top \in Polling /\ Top \in PollFrame /\ calls = <<Top>> /\ Tail(calls) = <<>>
           /\ Top.proc # "finish"
<1>1. \A f \in FinishFrame, g \in Polling : calls # <<f, g>>
  BY DEF Finishing, Top, FinishFrame
<1>2. PICK f \in Polling \cup FinishFrame : calls = <<f>>
  BY <1>1 DEF Frames
<1>3. Top = f
  BY <1>2 DEF Top
<1>4. f.proc # "finish"
  BY <1>2, <1>3 DEF Finishing
<1>5. f \in Polling
  BY <1>4 DEF FinishFrame
<1>. QED BY <1>2, <1>3, <1>4, <1>5 DEF Polling

\* A frame on top of none, and of one.
LEMMA OnTopOf ==
    ASSUME NEW f, NEW g PROVE <<f>> \o <<>> = <<f>> /\ <<f>> \o <<g>> = <<f, g>>
<1>1. <<f>> \in Seq({f, g}) /\ <<g>> \in Seq({f, g}) /\ <<f, g>> \in Seq({f, g})
  OBVIOUS
<1>2. <<f>> \o <<>> = <<f>>
  BY <1>1, ConcatEmptySeq
<1>3. <<f>> \o <<g>> \in Seq({f, g}) /\ Len(<<f>> \o <<g>>) = 2
      /\ \A i \in 1..2 : (<<f>> \o <<g>>)[i] = IF i <= 1 THEN f ELSE g
  BY <1>1, ConcatProperties
<1>4. Len(<<f, g>>) = 2 /\ <<f, g>>[1] = f /\ <<f, g>>[2] = g
  OBVIOUS
<1>5. \A i \in 1..Len(<<f>> \o <<g>>) : (<<f>> \o <<g>>)[i] = <<f, g>>[i]
  BY <1>3, <1>4
<1>6. <<f>> \o <<g>> = <<f, g>>
  BY <1>1, <1>3, <1>4, <1>5, SeqEqual
<1>. QED BY <1>2, <1>6

\* Moving a poll to its next place leaves it a poll, and alone.
LEMMA MovedPoll ==
    ASSUME Frames, calls # <<>>, ~Finishing, NEW place \in {"InFlight", "Notify", "Start"}
    PROVE  \E g \in Polling : Moved(place) = <<g>> /\ g.at = place /\ g.proc = Top.proc
                              /\ g.proc # "finish"
<1>1. Top \in PollFrame /\ Top \in Polling /\ Tail(calls) = <<>> /\ Top.proc # "finish"
  BY PollOnTop
<1>2. [Top EXCEPT !.at = place] \in Polling
  BY <1>1 DEF Polling, PollFrame
<1>3. Moved(place) = <<[Top EXCEPT !.at = place]>>
  BY <1>1, OnTopOf DEF Moved
<1>. QED BY <1>1, <1>2, <1>3 DEF PollFrame

\* A finish stands alone or on the poll that called it.
LEMMA FinishOnTop ==
    ASSUME Frames, Finishing
    PROVE  /\ Top \in FinishFrame
           /\ \/ calls = <<Top>> /\ Tail(calls) = <<>>
              \/ \E g \in Polling : calls = <<Top, g>> /\ Tail(calls) = <<g>>
<1>1. calls # <<>> /\ Top.proc = "finish"
  BY DEF Finishing
<1>2. CASE \E f \in Polling \cup FinishFrame : calls = <<f>>
  <2>1. PICK f \in Polling \cup FinishFrame : calls = <<f>>
    BY <1>2
  <2>2. Top = f /\ Tail(calls) = <<>>
    BY <2>1 DEF Top
  <2>3. f \notin Polling
    BY <1>1, <2>2 DEF Polling, PollFrame
  <2>. QED BY <2>1, <2>2, <2>3
<1>3. CASE \E f \in FinishFrame, g \in Polling : calls = <<f, g>>
  <2>1. PICK f \in FinishFrame, g \in Polling : calls = <<f, g>>
    BY <1>3
  <2>2. Top = f /\ Tail(calls) = <<g>>
    BY <2>1 DEF Top
  <2>. QED BY <2>1, <2>2
<1>. QED BY <1>1, <1>2, <1>3 DEF Frames

\* The types of the frames, and what a step without a new callback may tell.
LEMMA FramesType ==
    ASSUME Frames PROVE calls \in Seq(PollFrame \cup FinishFrame)
<1>1. Polling \subseteq PollFrame
  BY DEF Polling
<1>2. CASE calls = <<>>
  BY <1>2
<1>3. CASE \E f \in Polling \cup FinishFrame : calls = <<f>>
  BY <1>1, <1>3
<1>4. CASE \E f \in FinishFrame, g \in Polling : calls = <<f, g>>
  BY <1>1, <1>4
<1>. QED BY <1>2, <1>3, <1>4 DEF Frames

\* A step that changes handles only tells the application nothing.
LEMMA Silent ==
    ASSUME \A h \in Handles : ~Called(h),
           \A h \in Handles : Known(sub'[h]) = Known(sub[h]) \/ Known(sub'[h]) = Known(Fresh(h))
    PROVE  Agrees /\ Entitled
BY DEF Agrees, Entitled, Known

-----------------------------------------------------------------------------
\* finishSubscriptionPoll() calls when it has a reason, and else changes nothing
\* that the application is told of.
LEMMA FinishKeeps ==
    ASSUME SInv, calls # <<>>, ~Finishing, inFlight' = inFlight, job' = job,
           NEW h \in Handles, NEW s \in Handle, NEW status \in ReadStatus,
           NEW value \in Values \cup {NoValue}, NEW notified \in BOOLEAN, NEW rest,
           s.doing = sub[h].doing, s.active = sub[h].active, Known(s) = Known(sub[h]),
           notified \/ sub[h].active,
           rest = <<>> \/ \E g \in Polling : rest = <<g>>,
           \A g \in Polling : rest = <<g>> /\ g.at = "Start" => inFlight = NoHandle,
           nextIndex' \in Handles,
           Finish(s, h, status, value, notified, rest)
    PROVE  Kept
<1> DEFINE t == [s EXCEPT !.status = status,
                          !.value = IF status = "Ack" THEN value ELSE @]
           f == [proc |-> "finish", h |-> h, notified |-> notified,
                 calling |-> Reasons(h, status, value)]
<1>1. sub' = [sub EXCEPT ![h] = t] /\ calls' = <<f>> \o rest
  BY DEF Finish
<1>2. t \in Handle /\ t.doing = sub[h].doing /\ t.active = sub[h].active
  BY DEF Handle
<1>3. sub' \in [Handles -> Handle] /\ sub'[h] = t
      /\ \A k \in Handles : k # h => sub'[k] = sub[k]
  BY <1>1, <1>2 DEF SInv
<1>4. f \in FinishFrame
  <2>1. Options[h].notifyOnStatusChange \in BOOLEAN
    BY ClientSessionAssumption DEF Option
  <2>2. Reasons(h, status, value) \in BOOLEAN
    BY <2>1 DEF Reasons
  <2>. QED BY <2>2 DEF FinishFrame
<1>5. calls' = <<f>> \/ \E g \in Polling : rest = <<g>> /\ calls' = <<f, g>>
  BY <1>1, OnTopOf
<1>6. Frames'
  BY <1>4, <1>5 DEF Frames
<1>7. calls'[1] = f /\ Len(calls') \in {1, 2} /\ f.proc = "finish" /\ f.h = h
      /\ f.notified = notified /\ f.calling = Reasons(h, status, value)
  BY <1>5
<1>8. StartsFree'
  <2>1. ASSUME NEW k \in DOMAIN calls', calls'[k].proc # "finish", calls'[k].at = "Start"
        PROVE  inFlight = NoHandle
    <3>1. CASE calls' = <<f>>
      BY <3>1, <2>1, <1>7
    <3>2. CASE \E g \in Polling : rest = <<g>> /\ calls' = <<f, g>>
      <4>1. PICK g \in Polling : rest = <<g>> /\ calls' = <<f, g>>
        BY <3>2
      <4>2. k = 2 /\ calls'[k] = g
        BY <4>1, <2>1, <1>7
      <4>. QED BY <4>1, <4>2, <2>1
    <3>. QED BY <3>1, <3>2, <1>5
  <2>. QED BY <2>1 DEF StartsFree
<1>9. OnlyActiveAsk' /\ OneOperation'
  <2>1. \A k \in Handles : sub'[k].doing = sub[k].doing /\ sub'[k].active = sub[k].active
    BY <1>2, <1>3
  <2>. QED BY <2>1 DEF SInv, OnlyActiveAsk, OneOperation
<1>10. SInv'
  BY <1>3, <1>6, <1>8, <1>9 DEF SInv
<1>11. Agrees
  <2>1. ASSUME NEW k \in Handles, ~Called(k)
        PROVE  /\ sub'[k].value = sub[k].value
               /\ Options[k].notifyOnStatusChange => sub'[k].status = sub[k].status
    <3>1. CASE k # h
      BY <3>1, <1>3
    <3>2. CASE k = h
      <4>1. calls' # calls /\ Len(calls') >= Len(calls)
        <5>1. calls = <<Top>> /\ Top.proc # "finish"
          BY PollOnTop DEF SInv
        <5>2. calls[1] # calls'[1] /\ Len(calls) = 1
          BY <5>1, <1>7
        <5>. QED BY <5>2, <1>7
      <4>2. ~Reasons(h, status, value)
        BY <4>1, <1>7, <2>1, <3>2 DEF Called
      <4>3. s.value = sub[h].value /\ s.status = sub[h].status
        BY DEF Known
      <4>4. t.value = (IF status = "Ack" THEN value ELSE s.value) /\ t.status = status
        BY DEF Handle
      <4>. QED BY <4>2, <4>3, <4>4, <1>3, <3>2 DEF Reasons
    <3>. QED BY <3>1, <3>2
  <2>. QED BY <2>1 DEF Agrees
<1>12. Entitled
  BY <1>7 DEF Entitled, Called
<1>. QED BY <1>10, <1>11, <1>12 DEF Kept

-----------------------------------------------------------------------------
\* The steps that call nobody.

\* A step that returns or moves the frames of a poll calls nobody.
LEMMA NobodyIsCalled ==
    ASSUME \/ calls' = calls
           \/ calls' = <<>>
           \/ calls' # <<>> /\ calls'[1].proc # "finish"
    PROVE  \A h \in Handles : ~Called(h)
BY DEF Called

\* Each action keeps the invariant: the clock,
LEMMA TickKeeps == ASSUME SInv, Tick PROVE Kept
<1>1. \A h \in Handles :
          /\ Aged(h, sub[h]) \in Handle /\ Aged(h, sub[h]).doing = sub[h].doing
          /\ Aged(h, sub[h]).active = sub[h].active
          /\ Known(Aged(h, sub[h])) = Known(sub[h])
  BY AgedType DEF SInv
<1>2. sub' \in [Handles -> Handle]
      /\ \A h \in Handles : sub'[h].doing = sub[h].doing /\ sub'[h].active = sub[h].active
                            /\ Known(sub'[h]) = Known(sub[h])
  BY <1>1 DEF Tick
<1>3. UNCHANGED <<inFlight, job, nextIndex, calls>>
  BY DEF Tick
<1>4. SInv'
  BY <1>2, <1>3 DEF SInv, Frames, OnlyActiveAsk, OneOperation, StartsFree
<1>5. Agrees /\ Entitled
  BY <1>2, <1>3, NobodyIsCalled, Silent
<1>. QED BY <1>4, <1>5 DEF Kept

\* A handle that is given up takes the session's request with it.
LEMMA GivenUpKeeps ==
    ASSUME SInv, NEW h \in Handles, NEW s \in Handle, s.doing = "None",
           Known(s) = Known(sub[h]) \/ Known(s) = Known(Fresh(h)),
           sub' = [sub EXCEPT ![h] = s],
           inFlight' = IF inFlight = h THEN NoHandle ELSE inFlight,
           UNCHANGED <<job, nextIndex, calls>>
    PROVE  Kept
<1>1. sub' \in [Handles -> Handle] /\ sub'[h] = s
      /\ \A k \in Handles : k # h => sub'[k] = sub[k]
  BY DEF SInv
<1>2. OneOperation'
  <2>1. \A k \in Handles : sub'[k].doing # "None" <=> inFlight' = k
    BY <1>1 DEF SInv, OneOperation, Handles, NoHandle
  <2>2. job' # "None" => inFlight' = NoHandle
    BY DEF SInv, OneOperation
  <2>. QED BY <2>1, <2>2 DEF OneOperation
<1>3. SInv'
  BY <1>1, <1>2 DEF SInv, Frames, OnlyActiveAsk, StartsFree
<1>4. Agrees /\ Entitled
  BY <1>1, NobodyIsCalled, Silent
<1>. QED BY <1>3, <1>4 DEF Kept

\* subscribe(),
LEMMA SubscribeKeeps == ASSUME SInv, NEW h \in Handles, Subscribe(h) PROVE Kept
BY FreshType, GivenUpKeeps DEF Subscribe

\* stop(),
LEMMA StopKeeps == ASSUME SInv, NEW h \in Handles, Stop(h) PROVE Kept
<1> DEFINE s == [Cleared(sub[h]) EXCEPT !.active = FALSE, !.refresh = FALSE, !.initial = FALSE]
<1>1. sub[h] \in Handle
  BY DEF SInv
<1>2. Cleared(sub[h]) \in Handle /\ Cleared(sub[h]).doing = "None"
      /\ Known(Cleared(sub[h])) = Known(sub[h])
  BY <1>1, ClearedType
<1>3. s \in Handle /\ s.doing = "None" /\ Known(s) = Known(sub[h])
  BY <1>2 DEF Handle, Known
<1>4. /\ sub' = [sub EXCEPT ![h] = s]
      /\ inFlight' = IF inFlight = h THEN NoHandle ELSE inFlight
      /\ UNCHANGED <<job, nextIndex, calls>>
  BY DEF Stop, SInv
<1>. QED BY <1>3, <1>4, GivenUpKeeps

\* requestRefresh(),
LEMMA RequestRefreshKeeps ==
    ASSUME SInv, NEW h \in Handles, RequestRefresh(h) PROVE Kept
<1> DEFINE s == [sub[h] EXCEPT !.refresh = TRUE]
<1>1. s \in Handle /\ s.doing = sub[h].doing /\ s.active = sub[h].active
      /\ Known(s) = Known(sub[h])
  BY DEF SInv, Handle, Known
<1>2. sub' = [sub EXCEPT ![h] = s] /\ UNCHANGED <<inFlight, job, nextIndex, calls>>
  BY DEF RequestRefresh, SInv
<1>3. sub' \in [Handles -> Handle] /\ sub'[h] = s
      /\ \A k \in Handles : k # h => sub'[k] = sub[k]
  BY <1>1, <1>2 DEF SInv
<1>4. SInv'
  BY <1>1, <1>2, <1>3 DEF SInv, Frames, OnlyActiveAsk, OneOperation, StartsFree
<1>5. Agrees /\ Entitled
  BY <1>1, <1>2, <1>3, NobodyIsCalled, Silent
<1>. QED BY <1>4, <1>5 DEF Kept

\* a poll that begins
LEMMA BeginJobKeeps ==
    ASSUME SInv, NEW kind \in {"Read", "Scan"}, BeginJob(kind) PROVE Kept
<1>1. SInv'
  BY DEF BeginJob, SInv, Frames, OnlyActiveAsk, OneOperation, StartsFree
<1>2. Agrees /\ Entitled
  BY NobodyIsCalled, Silent DEF BeginJob
<1>. QED BY <1>1, <1>2 DEF Kept

\* and ends,
LEMMA EndJobKeeps == ASSUME SInv, EndJob PROVE Kept
<1>1. SInv'
  BY DEF EndJob, SInv, Frames, OnlyActiveAsk, OneOperation, StartsFree
<1>2. Agrees /\ Entitled
  BY NobodyIsCalled, Silent DEF EndJob
<1>. QED BY <1>1, <1>2 DEF Kept

\* Callbacks do not poll: a poll begins when no other call is in progress.
LEMMA EnterKeeps ==
    ASSUME ~CallbacksPoll, SInv,
           NEW procedure \in {"poll", "pollArray", "pollInFlight"},
           NEW h \in Handles \cup {NoHandle}, procedure = "poll" => h \in Handles,
           Enter(procedure, h)
    PROVE  Kept
<1> DEFINE f == [proc |-> procedure, h |-> h, at |-> "InFlight"]
<1>1. calls = <<>>
  BY DEF Enter, MayPoll
<1>2. calls' = <<f>>
  BY <1>1, OnTopOf DEF Enter
<1>3. f \in Polling /\ f.proc # "finish" /\ f.at # "Start"
  BY DEF Polling, PollFrame
<1>4. UNCHANGED <<sub, inFlight, job, nextIndex>>
  BY DEF Enter
<1>5. Frames' /\ StartsFree'
  BY <1>2, <1>3 DEF Frames, StartsFree
<1>6. SInv'
  BY <1>4, <1>5 DEF SInv, OnlyActiveAsk, OneOperation
<1>7. Agrees /\ Entitled
  BY <1>2, <1>3, <1>4, NobodyIsCalled, Silent
<1>. QED BY <1>6, <1>7 DEF Kept

-----------------------------------------------------------------------------
\* The steps of a poll.

\* A poll that moves on, or returns, leaves the frames in order.
LEMMA PollGoesOn ==
    ASSUME SInv, calls # <<>>, ~Finishing, NEW place \in {"InFlight", "Notify", "Start"},
           \/ calls' = Tail(calls)
           \/ calls' = Moved(place) /\ (place = "Start" => inFlight' = NoHandle)
    PROVE  Frames' /\ StartsFree' /\ \A h \in Handles : ~Called(h)
<1>1. Tail(calls) = <<>>
  BY PollOnTop DEF SInv
<1>2. PICK g \in Polling : Moved(place) = <<g>> /\ g.at = place /\ g.proc # "finish"
  BY MovedPoll DEF SInv
<1>3. CASE calls' = Tail(calls)
  <2>1. calls' = <<>>
    BY <1>1, <1>3
  <2>. QED BY <2>1, NobodyIsCalled DEF Frames, StartsFree
<1>4. CASE calls' = Moved(place) /\ (place = "Start" => inFlight' = NoHandle)
  <2>1. calls' = <<g>>
    BY <1>2, <1>4
  <2>2. Frames'
    BY <2>1 DEF Frames
  <2>3. StartsFree'
    BY <1>2, <1>4, <2>1 DEF StartsFree
  <2>4. \A h \in Handles : ~Called(h)
    BY <1>2, <2>1, NobodyIsCalled
  <2>. QED BY <2>2, <2>3, <2>4
<1>. QED BY <1>3, <1>4

\* A step that changes no handle and no operation of the session.
LEMMA IdleKeeps ==
    ASSUME SInv, calls # <<>>, ~Finishing, NEW place \in {"InFlight", "Notify", "Start"},
           \/ calls' = Tail(calls)
           \/ calls' = Moved(place) /\ (place = "Start" => inFlight' = NoHandle),
           UNCHANGED <<sub, inFlight, job>>, nextIndex' \in Handles
    PROVE  Kept
<1>1. Frames' /\ StartsFree' /\ \A h \in Handles : ~Called(h)
  BY PollGoesOn
<1>2. SInv'
  BY <1>1 DEF SInv, OnlyActiveAsk, OneOperation
<1>. QED BY <1>1, <1>2, Silent DEF Kept

\* An answer that ends the session's request without a call.
LEMMA RequestEndsKeeps ==
    ASSUME SInv, calls # <<>>, ~Finishing, inFlight # NoHandle, NEW s \in Handle,
           s.doing = "None", Known(s) = Known(sub[inFlight]),
           sub' = [sub EXCEPT ![inFlight] = s], inFlight' = NoHandle, calls' = Moved("Notify"),
           UNCHANGED <<job, nextIndex>>
    PROVE  Kept
<1>1. inFlight \in Handles
  BY DEF SInv
<1>2. sub' \in [Handles -> Handle] /\ sub'[inFlight] = s
      /\ \A k \in Handles : k # inFlight => sub'[k] = sub[k]
  BY <1>1 DEF SInv
<1>3. Frames' /\ StartsFree' /\ \A h \in Handles : ~Called(h)
  BY PollGoesOn
<1>4. OneOperation' /\ OnlyActiveAsk'
  BY <1>1, <1>2 DEF SInv, OneOperation, OnlyActiveAsk, Handles, NoHandle
<1>5. SInv'
  BY <1>2, <1>3, <1>4 DEF SInv
<1>6. Agrees /\ Entitled
  BY <1>2, <1>3, Silent
<1>. QED BY <1>5, <1>6 DEF Kept

\* a SubscribeCOV that is granted
LEMMA CovAcceptedKeeps == ASSUME SInv, CovAccepted PROVE Kept
<1>1. inFlight \in Handles /\ sub[inFlight] \in Handle
  BY DEF CovAccepted, SInv
<1>. QED BY <1>1, CovGrantedType, RequestEndsKeeps DEF CovAccepted, At, GoTo, SInv

\* and refused,
LEMMA CovRefusedKeeps == ASSUME SInv, CovRefused PROVE Kept
<1> DEFINE s == CovFailed(inFlight, sub[inFlight])
<1>1. inFlight \in Handles /\ sub[inFlight] \in Handle
  BY DEF CovRefused, SInv
<1>2. s \in Handle /\ Known(s) = Known(sub[inFlight])
  BY <1>1, CovFailedType
<1>3. Cleared(s) \in Handle /\ Cleared(s).doing = "None" /\ Known(Cleared(s)) = Known(sub[inFlight])
  BY <1>2, ClearedType
<1>. QED BY <1>1, <1>3, RequestEndsKeeps DEF CovRefused, At, GoTo, SInv

\* a read that ends,
LEMMA ReadEndsKeeps ==
    ASSUME SInv, NEW status \in ReadStatus, NEW value \in Values \cup {NoValue},
           ReadEnds(status, value)
    PROVE  Kept
<1>1. inFlight \in Handles /\ sub[inFlight] \in Handle /\ sub[inFlight].active
  BY DEF ReadEnds, SInv, OnlyActiveAsk
<1>2. calls # <<>> /\ ~Finishing
  BY DEF ReadEnds, At
<1>3. PICK g \in Polling : Moved("Notify") = <<g>> /\ g.at = "Notify"
  BY <1>2, MovedPoll DEF SInv
<1>4. \A k \in Polling : Moved("Notify") = <<k>> => k.at # "Start"
  BY <1>3
<1>5. UNCHANGED <<inFlight, job, nextIndex>> /\ nextIndex \in Handles
      /\ Finish(sub[inFlight], inFlight, status, value, FALSE, Moved("Notify"))
  BY DEF ReadEnds, SInv
<1>. QED BY <1>1, <1>2, <1>3, <1>4, <1>5, FinishKeeps

\* a notification,
LEMMA NotifiedKeeps ==
    ASSUME SInv, NEW value \in Values, Notified(value) PROVE Kept
<1>1. calls # <<>> /\ ~Finishing /\ Top.proc = "poll" /\ inFlight = NoHandle
  BY DEF Notified, At, Notifiable
<1>2. Top.h \in Handles
  BY <1>1, PollOnTop DEF SInv, Polling
<1>3. sub[Top.h] \in Handle
  BY <1>2 DEF SInv
<1>4. PICK g \in Polling : Moved("Start") = <<g>>
  BY <1>1, MovedPoll DEF SInv
<1>5. UNCHANGED <<inFlight, job, nextIndex>> /\ nextIndex \in Handles
      /\ Finish(sub[Top.h], Top.h, "Ack", value, TRUE, Moved("Start"))
  BY DEF Notified, SInv
<1>6. "Ack" \in ReadStatus
  BY DEF ReadStatus
<1>. QED BY <1>1, <1>2, <1>3, <1>4, <1>5, <1>6, FinishKeeps

\* The array poll's next index is one of its own.
LEMMA NextIndexType ==
    ASSUME nextIndex \in Handles, NEW h \in Handles PROVE NextIndex(h) \in Handles
<1>1. NumHandles \in Nat \ {0} /\ h \in Int
  BY ClientSessionAssumption DEF Handles
<1>2. h % NumHandles \in 0..(NumHandles - 1)
  BY <1>1
<1>3. (h % NumHandles) + 1 \in Handles
  BY <1>1, <1>2 DEF Handles
<1>. QED BY <1>3 DEF NextIndex

\* A request that is sent finds the session free.
LEMMA RequestStartsKeeps ==
    ASSUME SInv, At("Start"), job = "None", NEW h \in Handles, NEW s \in Handle,
           s.doing # "None", s.active, Known(s) = Known(sub[h]),
           sub' = [sub EXCEPT ![h] = s], inFlight' = h, nextIndex' = NextIndex(h),
           calls' = Tail(calls), job' = job
    PROVE  Kept
<1>1. calls # <<>> /\ ~Finishing /\ Top.at = "Start"
  BY DEF At
<1>2. inFlight = NoHandle
  <2>1. calls = <<Top>> /\ Top.proc # "finish"
    BY <1>1, PollOnTop DEF SInv
  <2>2. 1 \in DOMAIN calls /\ calls[1] = Top
    BY <2>1
  <2>. QED BY <1>1, <2>1, <2>2 DEF SInv, StartsFree
<1>3. sub' \in [Handles -> Handle] /\ sub'[h] = s
      /\ \A k \in Handles : k # h => sub'[k] = sub[k]
  BY DEF SInv
<1>4. Frames' /\ StartsFree' /\ \A k \in Handles : ~Called(k)
  BY <1>1, PollGoesOn
<1>5. OneOperation' /\ OnlyActiveAsk'
  BY <1>2, <1>3 DEF SInv, OneOperation, OnlyActiveAsk, Handles, NoHandle
<1>6. nextIndex' \in Handles
  BY NextIndexType DEF SInv
<1>7. SInv'
  BY <1>3, <1>4, <1>5, <1>6 DEF SInv
<1>8. Agrees /\ Entitled
  BY <1>3, <1>4, Silent
<1>. QED BY <1>7, <1>8 DEF Kept

\* A poll that sends a SubscribeCOV,
LEMMA StartCovKeeps == ASSUME SInv, NEW h \in Handles, StartCov(h) PROVE Kept
<1>1. sub[h] \in Handle
  BY DEF SInv
<1>2. Sent(sub[h], "SubscribeCov") \in Handle
      /\ Sent(sub[h], "SubscribeCov").doing = "SubscribeCov"
      /\ Sent(sub[h], "SubscribeCov").active = sub[h].active
      /\ Known(Sent(sub[h], "SubscribeCov")) = Known(sub[h])
  BY <1>1, SentType
<1>3. sub' = [sub EXCEPT ![h] = Sent(sub[h], "SubscribeCov")]
      /\ inFlight' = h /\ nextIndex' = NextIndex(h) /\ calls' = Tail(calls) /\ job' = job
      /\ job = "None" /\ sub[h].active /\ At("Start")
  BY DEF StartCov, CovDue, Return, SInv
<1>. QED BY <1>2, <1>3, RequestStartsKeeps

\* a read,
LEMMA StartReadKeeps == ASSUME SInv, NEW h \in Handles, StartRead(h) PROVE Kept
<1> DEFINE w == WithoutCov(h)
           s == [Sent(w, "Poll") EXCEPT !.refresh = FALSE]
<1>1. sub[h] \in Handle
  BY DEF SInv
<1>2. w \in Handle /\ w.active = sub[h].active /\ Known(w) = Known(sub[h])
  BY <1>1, WithoutCovType
<1>3. Sent(w, "Poll") \in Handle /\ Sent(w, "Poll").doing = "Poll"
      /\ Sent(w, "Poll").active = sub[h].active /\ Known(Sent(w, "Poll")) = Known(sub[h])
  BY <1>2, SentType
<1>4. s \in Handle /\ s.doing # "None" /\ s.active = sub[h].active /\ Known(s) = Known(sub[h])
  BY <1>3 DEF Handle, Known
<1>5. sub' = [sub EXCEPT ![h] = s] /\ inFlight' = h /\ nextIndex' = NextIndex(h)
      /\ calls' = Tail(calls) /\ job' = job /\ job = "None" /\ At("Start")
  BY DEF StartRead, Return
<1>6. sub[h].active
  BY <1>2 DEF StartRead, Due
<1>. QED BY <1>4, <1>5, <1>6, RequestStartsKeeps

\* a read the transport refuses,
LEMMA ReadNotSentKeeps == ASSUME SInv, NEW h \in Handles, ReadNotSent(h) PROVE Kept
<1> DEFINE w == WithoutCov(h)
<1>1. sub[h] \in Handle
  BY DEF SInv
<1>2. w \in Handle /\ w.doing = sub[h].doing /\ w.active = sub[h].active
      /\ Known(w) = Known(sub[h])
  BY <1>1, WithoutCovType
<1>3. calls # <<>> /\ ~Finishing
  BY DEF ReadNotSent, At
<1>4. Tail(calls) = <<>>
  BY <1>3, PollOnTop DEF SInv
<1>5. \A g \in Polling : Tail(calls) # <<g>>
  BY <1>4
<1>6. sub[h].active
  BY <1>2 DEF ReadNotSent, Due
<1>7. Finish(w, h, "SendFailed", NoValue, FALSE, Tail(calls))
      /\ inFlight' = inFlight /\ job' = job /\ nextIndex' = NextIndex(h)
  BY DEF ReadNotSent
<1>8. nextIndex' \in Handles
  BY <1>7, NextIndexType DEF SInv
<1>9. "SendFailed" \in ReadStatus
  BY DEF ReadStatus
<1>. QED BY <1>2, <1>3, <1>4, <1>5, <1>6, <1>7, <1>8, <1>9, FinishKeeps

\* or nothing.
LEMMA StartsNothingKeeps == ASSUME SInv, StartsNothing PROVE Kept
<1>1. nextIndex' \in Handles
  <2>1. CASE \E h \in Handles : Chosen(h)
    <3>1. (CHOOSE h \in Handles : Chosen(h)) \in Handles
      BY <2>1
    <3>2. NextIndex(CHOOSE h \in Handles : Chosen(h)) \in Handles
      BY <3>1, NextIndexType DEF SInv
    <3>. QED BY <2>1, <3>2 DEF StartsNothing
  <2>2. CASE ~\E h \in Handles : Chosen(h)
    BY <2>2 DEF StartsNothing, SInv
  <2>. QED BY <2>1, <2>2
<1>. QED BY <1>1, IdleKeeps DEF StartsNothing, At, Return

\* The other steps of a poll that starts nothing.
LEMMA QuietPollKeeps ==
    ASSUME SInv, NothingInFlight \/ StillWaiting \/ NoNotification \/ AcknowledgementFails
    PROVE  Kept
<1>1. calls # <<>> /\ ~Finishing /\ UNCHANGED <<sub, inFlight, job>> /\ nextIndex' \in Handles
  BY DEF NothingInFlight, StillWaiting, NoNotification, AcknowledgementFails, At, SInv
<1>2. CASE NothingInFlight
  BY <1>1, <1>2, IdleKeeps DEF NothingInFlight, GoTo
<1>3. CASE StillWaiting \/ AcknowledgementFails
  BY <1>1, <1>3, IdleKeeps DEF StillWaiting, AcknowledgementFails, Return
<1>4. CASE NoNotification
  <2>1. calls' = Tail(calls) \/ (calls' = Moved("Start") /\ inFlight = NoHandle)
    BY <1>4 DEF NoNotification, Return, GoTo
  <2>. QED BY <1>1, <2>1, IdleKeeps
<1>. QED BY <1>2, <1>3, <1>4

\* What is left of finishSubscriptionPoll() after the callback: the frame goes,
\* and with it the operation of its handle.
LEMMA FinishReturnsKeeps == ASSUME SInv, FinishReturns PROVE Kept
<1> DEFINE h == Top.h
           s == [Cleared(sub[h]) EXCEPT !.initial = FALSE,
                                        !.pollIn = Wrap(Options[h].fallbackPoll),
                                        !.covActive = sub[h].covActive \/ Top.notified]
<1>1. Finishing /\ Frames
  BY DEF FinishReturns, SInv
<1>2. /\ Top \in FinishFrame
      /\ \/ calls = <<Top>> /\ Tail(calls) = <<>>
         \/ \E g \in Polling : calls = <<Top, g>> /\ Tail(calls) = <<g>>
  BY <1>1, FinishOnTop
<1>3. h \in Handles /\ Top.notified \in BOOLEAN
  BY <1>2 DEF FinishFrame
<1>4. sub[h] \in Handle
  BY <1>3 DEF SInv
<1>5. Cleared(sub[h]) \in Handle /\ Cleared(sub[h]).doing = "None"
      /\ Known(Cleared(sub[h])) = Known(sub[h])
  BY <1>4, ClearedType
<1>6. Wrap(Options[h].fallbackPoll) \in Time
  <2>1. Options[h].fallbackPoll \in Int
    BY <1>3, ClientSessionAssumption DEF Option
  <2>. QED BY <2>1, WrapType
<1>7. s \in Handle /\ s.doing = "None" /\ Known(s) = Known(sub[h])
  <2>1. (sub[h].covActive \/ Top.notified) \in BOOLEAN
    BY <1>3, <1>4 DEF Handle
  <2>. QED BY <1>5, <1>6, <2>1 DEF Handle, Known
<1>8. /\ sub' = [sub EXCEPT ![h] = s]
      /\ inFlight' = IF inFlight = h THEN NoHandle ELSE inFlight
      /\ calls' = Tail(calls) /\ UNCHANGED <<job, nextIndex>>
  BY <1>3 DEF FinishReturns, Return, SInv
<1>9. sub' \in [Handles -> Handle] /\ sub'[h] = s
      /\ \A k \in Handles : k # h => sub'[k] = sub[k]
  BY <1>3, <1>7, <1>8 DEF SInv
<1>10. OneOperation' /\ OnlyActiveAsk'
  <2>1. \A k \in Handles : sub'[k].doing # "None" <=> inFlight' = k
    BY <1>3, <1>7, <1>8, <1>9 DEF SInv, OneOperation, Handles, NoHandle
  <2>2. job' # "None" => inFlight' = NoHandle
    BY <1>8 DEF SInv, OneOperation
  <2>3. OnlyActiveAsk'
    BY <1>7, <1>9 DEF SInv, OnlyActiveAsk
  <2>. QED BY <2>1, <2>2, <2>3 DEF OneOperation
<1>11. Frames' /\ StartsFree' /\ \A k \in Handles : ~Called(k)
  <2>1. CASE calls = <<Top>> /\ Tail(calls) = <<>>
    <3>1. calls' = <<>>
      BY <2>1, <1>8
    <3>. QED BY <3>1, NobodyIsCalled DEF Frames, StartsFree
  <2>2. CASE \E g \in Polling : calls = <<Top, g>> /\ Tail(calls) = <<g>>
    <3>1. PICK g \in Polling : calls = <<Top, g>> /\ calls' = <<g>>
      BY <2>2, <1>8
    <3>2. g.proc # "finish"
      BY DEF Polling, PollFrame
    <3>3. g.at = "Start" => inFlight = NoHandle
      <4>1. 2 \in DOMAIN calls /\ calls[2] = g
        BY <3>1
      <4>. QED BY <3>2, <4>1 DEF SInv, StartsFree
    <3>4. StartsFree'
      BY <3>1, <3>3, <1>8 DEF StartsFree
    <3>. QED BY <3>1, <3>2, <3>4, NobodyIsCalled DEF Frames
  <2>. QED BY <1>2, <2>1, <2>2
<1>12. inFlight' \in Handles \cup {NoHandle} /\ job' \in {"None", "Read", "Scan"}
       /\ nextIndex' \in Handles
  BY <1>8 DEF SInv
<1>13. SInv'
  BY <1>9, <1>10, <1>11, <1>12 DEF SInv
<1>14. Agrees /\ Entitled
  BY <1>7, <1>9, <1>11, Silent
<1>. QED BY <1>13, <1>14 DEF Kept

-----------------------------------------------------------------------------
\* The steps together.

\* It holds when the session comes up,
LEMMA InitSInv == ASSUME Init PROVE SInv
<1>1. sub \in [Handles -> Handle] /\ \A h \in Handles : sub[h].doing = "None"
  BY FreshType DEF Init
<1>2. 1 \in Handles
  BY ClientSessionAssumption DEF Handles
<1>. QED BY <1>1, <1>2 DEF Init, SInv, Frames, OnlyActiveAsk, OneOperation, StartsFree,
                           Handles, NoHandle

\* every step keeps it,
LEMMA NextKeeps == ASSUME ~CallbacksPoll, SInv, Next PROVE Kept
<1>1. CASE Tick
  BY <1>1, TickKeeps
<1>2. CASE Application
  BY <1>2, SubscribeKeeps, StopKeeps, RequestRefreshKeeps, BeginJobKeeps, EndJobKeeps
  DEF Application
<1>3. CASE Polls
  <2>1. \A h \in Handles : Poll(h) => Kept
    BY EnterKeeps DEF Poll
  <2>2. PollArray => Kept
    BY EnterKeeps DEF PollArray
  <2>3. PollInFlight => Kept
    BY EnterKeeps DEF PollInFlight
  <2>. QED BY <1>3, <2>1, <2>2, <2>3 DEF Polls
<1>4. CASE InFlightStep
  <2>1. \A value \in Values : ReadEnds("Ack", value) => Kept
    BY ReadEndsKeeps DEF ReadStatus
  <2>2. \A status \in {"Error", "Timeout"} : ReadEnds(status, NoValue) => Kept
    BY ReadEndsKeeps DEF ReadStatus
  <2>. QED BY <1>4, <2>1, <2>2, QuietPollKeeps, CovAcceptedKeeps, CovRefusedKeeps
       DEF InFlightStep
<1>5. CASE NotifyStep
  BY <1>5, QuietPollKeeps, NotifiedKeeps DEF NotifyStep
<1>6. CASE StartStep
  BY <1>6, StartsNothingKeeps, StartCovKeeps, StartReadKeeps, ReadNotSentKeeps DEF StartStep
<1>7. CASE FinishReturns
  BY <1>7, FinishReturnsKeeps
<1>. QED BY <1>1, <1>2, <1>3, <1>4, <1>5, <1>6, <1>7 DEF Next, SessionStep

\* so does no step,
LEMMA StutterKeeps == ASSUME SInv, UNCHANGED hvars PROVE SInv'
BY DEF SInv, hvars, Frames, OnlyActiveAsk, OneOperation, StartsFree

\* and it holds throughout.
LEMMA InvariantHolds == ASSUME ~CallbacksPoll PROVE HSpec => []SInv
<1>1. HInit => SInv
  BY InitSInv DEF HInit
<1>2. SInv /\ [HNext]_hvars => SInv'
  BY NextKeeps, StutterKeeps DEF HNext, Kept
<1>. QED BY <1>1, <1>2, PTL DEF HSpec

\* The types of the session, while callbacks do not poll.
THEOREM SessionTypeCorrect == ASSUME ~CallbacksPoll PROVE HSpec => []TypeOK
<1>1. SInv => TypeOK
  BY FramesType DEF SInv, TypeOK
<1>2. HSpec => []SInv
  BY InvariantHolds
<1>. QED BY <1>1, <1>2, PTL

\* The session never has two operations, and never believes in one that no
\* handle has (isBusy(), inFlightSubscription_).
THEOREM SessionHasOneOperation == ASSUME ~CallbacksPoll PROVE HSpec => []OneOperation
<1>1. SInv => OneOperation
  BY DEF SInv
<1>2. HSpec => []SInv
  BY InvariantHolds
<1>. QED BY <1>1, <1>2, PTL

\* No answer reaches the callback of a handle that was stopped before it came
\* (stop() clears the request finishSubscriptionPoll() would answer).
THEOREM AnswersAfterStopAreDropped ==
    ASSUME ~CallbacksPoll PROVE HSpec => LateAnswersAreDropped
<1> DEFINE Step == \A h \in Handles : Called(h) /\ ~calls'[1].notified => sub[h].active
<1>1. SInv /\ [HNext]_hvars => [Step]_hvars
  BY NextKeeps DEF HNext, Kept, Entitled
<1>2. HSpec => []SInv
  BY InvariantHolds
<1>3. HSpec => [][Step]_hvars
  <2>. HIDE DEF Step
  <2>. QED BY <1>1, <1>2, PTL DEF HSpec
<1>. QED BY <1>3 DEF LateAnswersAreDropped

\* The application always knows what lastValue() and lastStatus() return: the
\* two reasons of finishSubscriptionPoll() are enough.
THEOREM ApplicationIsTold == ASSUME ~CallbacksPoll PROVE HSpec => []ApplicationKnows
<1>1. HInit => ApplicationKnows
  BY DEF HInit, ApplicationKnows, Known
<1>2. SInv /\ ApplicationKnows /\ [HNext]_hvars => ApplicationKnows'
  <2>1. ASSUME SInv, ApplicationKnows, HNext PROVE ApplicationKnows'
    <3>1. Agrees
      BY <2>1, NextKeeps DEF HNext, Kept
    <3>2. \A h \in Handles :
              told'[h] = IF Called(h) \/ Known(sub'[h]) = Known(Fresh(h))
                         THEN Known(sub'[h]) ELSE told[h]
      BY <2>1 DEF HNext, Observe
    <3>3. ASSUME NEW h \in Handles
          PROVE  /\ told'[h].value = sub'[h].value
                 /\ Options[h].notifyOnStatusChange => told'[h].status = sub'[h].status
      <4>1. CASE told'[h] = Known(sub'[h])
        BY <4>1 DEF Known
      <4>2. CASE ~Called(h) /\ Known(sub'[h]) # Known(Fresh(h))
        <5>1. told'[h] = told[h]
          BY <4>2, <3>2
        <5>2. /\ sub'[h].value = sub[h].value
              /\ Options[h].notifyOnStatusChange => sub'[h].status = sub[h].status
          BY <4>2, <3>1 DEF Agrees
        <5>. QED BY <5>1, <5>2, <2>1 DEF ApplicationKnows
      <4>. QED BY <4>1, <4>2, <3>2
    <3>. QED BY <3>3 DEF ApplicationKnows
  <2>2. ASSUME ApplicationKnows, UNCHANGED hvars PROVE ApplicationKnows'
    BY <2>2 DEF ApplicationKnows, hvars
  <2>. QED BY <2>1, <2>2
<1>3. HSpec => []SInv
  BY InvariantHolds
<1>. QED BY <1>1, <1>2, <1>3, PTL DEF HSpec

-----------------------------------------------------------------------------
\* How long a registration lasts: the server's entry runs from the request it
\* accepted, the renewal from the answer, and between them come the delays of the
\* application.

\* How long a request may be in flight, and how long a registration stands before
\* its renewal is due.
Longest(h) == Options[h].timeout + MaxLate
Lead(h) == (Options[h].lifetime - Options[h].renewBefore) * Second

\* The options leave a renewal the time to wait for its turn, and for its answer,
\* and all of it stays within half of the clock's range.
RenewalsFit(wait) ==
    /\ wait + 1 < TimeMod \div 2
    /\ \A h \in Handles : Options[h].preferCov =>
          /\ Options[h].renewBefore < Options[h].lifetime
          /\ Lead(h) <= TimeMod \div 2 /\ Longest(h) < TimeMod
          /\ 2 * Longest(h) + wait < Options[h].renewBefore * Second

\* No renewal waits longer for its turn.
Prompt(wait) ==
    \A h \in Handles :
        (/\ sub[h].active /\ sub[h].covActive /\ sub[h].doing = "None"
         /\ Reached(sub[h].renewIn))
            => Late(sub[h].renewIn) <= wait

\* Only handles that prefer COV are registered, and a registered one reads nothing.
Registered ==
    \A h \in Handles :
        /\ sub[h].covActive \/ sub[h].doing = "SubscribeCov" => Options[h].preferCov
        /\ sub[h].covActive => sub[h].doing # "Poll"
        /\ sub[h].doing = "SubscribeCov" => sub[h].since <= Longest(h)

\* The callback of a notification leaves the registration it came by.
FinishesRead ==
    Finishing => /\ sub[Top.h].doing # "SubscribeCov"
                 /\ Top.notified => sub[Top.h].covActive

\* The age of a registration against the clock its renewal is scheduled by.
Aging(wait) ==
    \A h \in Handles : sub[h].active /\ sub[h].covActive =>
        /\ sub[h].doing = "None" /\ Reached(sub[h].renewIn) =>
              grantAge[h] <= Lead(h) + Longest(h) + Late(sub[h].renewIn)
        /\ sub[h].doing = "None" /\ ~Reached(sub[h].renewIn) =>
              grantAge[h] + sub[h].renewIn <= Lead(h) + Longest(h)
        /\ sub[h].doing = "SubscribeCov" =>
              grantAge[h] <= Lead(h) + Longest(h) + wait + sub[h].since

LInv == SInv /\ Registered /\ FinishesRead

-----------------------------------------------------------------------------
\* What a step may do to the times of a handle: nothing that matters,
Steady(h) ==
    /\ sub'[h].active = sub[h].active /\ sub'[h].covActive = sub[h].covActive
    /\ sub'[h].renewIn = sub[h].renewIn /\ sub'[h].doing = sub[h].doing
    /\ sub[h].doing # "None" => sub'[h].since = sub[h].since

\* the end of its subscription or of its registration,
Dropped(h) ==
    /\ ~sub'[h].active \/ ~sub'[h].covActive
    /\ sub'[h].doing # "SubscribeCov"
    /\ sub'[h].covActive => sub[h].covActive /\ sub'[h].doing # "Poll"

\* or a request for one.
Renewing(h) == CovDue(h, sub[h]) /\ sub'[h] = Sent(sub[h], "SubscribeCov")

Granted(h) == CovAccepted /\ inFlight = h

\* The steps that change one handle leave the times of the others alone.
LEMMA OthersAreSteady ==
    ASSUME sub \in [Handles -> Handle], NEW k \in Handles, NEW s,
           sub' = [sub EXCEPT ![k] = s]
    PROVE  sub'[k] = s /\ \A h \in Handles : h # k => Steady(h)
  BY DEF Steady

\* What the callers of finishSubscriptionPoll() leave to be answered.
LEMMA FinishIsSteady ==
    ASSUME sub \in [Handles -> Handle], NEW k \in Handles, NEW s \in Handle, NEW status, NEW value,
           NEW notified, NEW rest, Finish(s, k, status, value, notified, rest)
    PROVE  /\ \A h \in Handles : h # k => Steady(h)
           /\ sub'[k].active = s.active /\ sub'[k].covActive = s.covActive
           /\ sub'[k].renewIn = s.renewIn /\ sub'[k].doing = s.doing
           /\ sub'[k].since = s.since
  <1> DEFINE t == [s EXCEPT !.status = status, !.value = IF status = "Ack" THEN value ELSE @]
  <1>1. sub' = [sub EXCEPT ![k] = t]
    BY DEF Finish
  <1>2. /\ t.active = s.active /\ t.covActive = s.covActive /\ t.renewIn = s.renewIn
        /\ t.doing = s.doing /\ t.since = s.since
    BY DEF Handle
  <1> HIDE DEF t
  <1> QED BY <1>1, <1>2, OthersAreSteady

\* Every step but a tick of the clock is one of those for every handle.
LEMMA Turns ==
    ASSUME LInv, Next, ~Tick, NEW h \in Handles
    PROVE  Steady(h) \/ Dropped(h) \/ Renewing(h) \/ Granted(h)
  <1>1. sub \in [Handles -> Handle] /\ sub[h] \in Handle /\ (inFlight # NoHandle => inFlight \in Handles)
    BY DEF LInv, SInv
  <1>2. ASSUME sub' = sub PROVE Steady(h)
    BY <1>2 DEF Steady
  <1>3. CASE Application
    <2>1. ASSUME NEW k \in Handles, Subscribe(k) PROVE Steady(h) \/ Dropped(h)
      <3>1. sub' = [sub EXCEPT ![k] = Fresh(k)]
        BY <2>1 DEF Subscribe
      <3>2. ~Fresh(k).covActive /\ Fresh(k).doing = "None"
        BY DEF Fresh
      <3> QED BY <1>1, <3>1, <3>2, OthersAreSteady DEF Dropped
    <2>2. ASSUME NEW k \in Handles, Stop(k) PROVE Steady(h) \/ Dropped(h)
      <3> DEFINE s == [Cleared(sub[k]) EXCEPT !.active = FALSE, !.refresh = FALSE, !.initial = FALSE]
      <3>1. sub' = [sub EXCEPT ![k] = s]
        BY <1>1, <2>2 DEF Stop
      <3>2. ~s.active /\ s.doing = "None" /\ s.covActive = sub[k].covActive
        BY <1>1 DEF Cleared, Handle
      <3> HIDE DEF s
      <3> QED BY <1>1, <3>1, <3>2, OthersAreSteady DEF Dropped
    <2>3. ASSUME NEW k \in Handles, RequestRefresh(k) PROVE Steady(h)
      <3>1. sub' = [sub EXCEPT ![k] = [sub[k] EXCEPT !.refresh = TRUE]]
        BY <1>1, <2>3 DEF RequestRefresh
      <3> QED BY <1>1, <3>1 DEF Steady, Handle
    <2>4. ASSUME EndJob \/ \E kind \in {"Read", "Scan"} : BeginJob(kind) PROVE Steady(h)
      BY <1>2, <2>4 DEF EndJob, BeginJob
    <2> QED BY <1>3, <2>1, <2>2, <2>3, <2>4 DEF Application
  <1>4. CASE Polls
    BY <1>2, <1>4 DEF Polls, PollArray, PollInFlight, Poll, Enter
  <1>5. CASE InFlightStep
    <2>1. CASE NothingInFlight \/ StillWaiting
      BY <1>2, <2>1 DEF NothingInFlight, StillWaiting
    <2>2. CASE CovAccepted
      BY <1>1, <2>2, OthersAreSteady DEF CovAccepted, Granted
    <2>3. CASE CovRefused
      <3> DEFINE s == Cleared(CovFailed(inFlight, sub[inFlight]))
      <3>1. sub' = [sub EXCEPT ![inFlight] = s] /\ inFlight \in Handles
        BY <1>1, <2>3 DEF CovRefused
      <3>2. ~s.covActive /\ s.doing = "None"
        BY <1>1, <3>1 DEF Cleared, CovFailed, Handle
      <3> HIDE DEF s
      <3> QED BY <1>1, <3>1, <3>2, OthersAreSteady DEF Dropped
    <2>4. ASSUME NEW status, NEW value, ReadEnds(status, value) PROVE Steady(h)
      BY <1>1, <2>4, FinishIsSteady DEF ReadEnds, Steady
    <2> QED BY <1>5, <2>1, <2>2, <2>3, <2>4 DEF InFlightStep
  <1>6. CASE NotifyStep
    <2>1. CASE NoNotification \/ AcknowledgementFails
      BY <1>2, <2>1 DEF NoNotification, AcknowledgementFails
    <2>2. ASSUME NEW value, Notified(value) PROVE Steady(h)
      <3>1. Top.h \in Handles
        BY <2>2, PollOnTop DEF Notified, At, Notifiable, LInv, SInv, Polling
      <3>2. Finish(sub[Top.h], Top.h, "Ack", value, TRUE, Moved("Start"))
        BY <2>2 DEF Notified
      <3>3. sub[Top.h] \in Handle
        BY <1>1, <3>1
      <3> DEFINE k == Top.h
      <3>4. (\A j \in Handles : j # k => Steady(j)) /\ Steady(k)
        <4> HIDE DEF k
        <4> QED BY <1>1, <3>1, <3>2, <3>3, FinishIsSteady DEF Steady, k
      <3> QED BY <3>4
    <2> QED BY <1>6, <2>1, <2>2 DEF NotifyStep
  <1>7. CASE StartStep
    <2>1. CASE StartsNothing
      BY <1>2, <2>1 DEF StartsNothing
    <2>2. ASSUME NEW k \in Handles, StartCov(k) PROVE Steady(h) \/ Renewing(h)
      BY <1>1, <2>2, OthersAreSteady DEF StartCov, Renewing
    <2>3. ASSUME NEW k \in Handles, job = "None", Due(k, WithoutCov(k))
          PROVE  /\ WithoutCov(k) \in Handle /\ ~WithoutCov(k).covActive
                 /\ WithoutCov(k).doing = "None"
      <3>1. sub[k] \in Handle
        BY <1>1
      <3>2. WithoutCov(k) \in Handle /\ WithoutCov(k).doing = "None"
        BY <2>3, <3>1, WithoutCovType DEF Due
      <3>3. CASE CovDue(k, sub[k])
        BY <3>1, <3>2, <3>3 DEF WithoutCov, CovFailed, Handle
      <3>4. CASE ~CovDue(k, sub[k])
        <4>1. WithoutCov(k) = sub[k]
          BY <3>4 DEF WithoutCov
        <4>2. ~sub[k].covActive
          BY <2>3, <3>4, <4>1 DEF Due, CovDue, LInv, Registered
        <4> QED BY <3>2, <4>1, <4>2
      <3> QED BY <3>3, <3>4
    <2>4. ASSUME NEW k \in Handles, StartRead(k) PROVE Steady(h) \/ Dropped(h)
      <3> DEFINE s == [Sent(WithoutCov(k), "Poll") EXCEPT !.refresh = FALSE]
      <3>1. sub' = [sub EXCEPT ![k] = s]
        BY <1>1, <2>4 DEF StartRead
      <3>2. WithoutCov(k) \in Handle /\ ~WithoutCov(k).covActive
        BY <2>3, <2>4 DEF StartRead
      <3>3. ~s.covActive /\ s.doing = "Poll"
        BY <3>2 DEF Sent, Handle
      <3> HIDE DEF s
      <3> QED BY <1>1, <3>1, <3>3, OthersAreSteady DEF Dropped
    <2>5. ASSUME NEW k \in Handles, ReadNotSent(k) PROVE Steady(h) \/ Dropped(h)
      <3>1. WithoutCov(k) \in Handle /\ ~WithoutCov(k).covActive /\ WithoutCov(k).doing = "None"
        BY <2>3, <2>5 DEF ReadNotSent
      <3>2. Finish(WithoutCov(k), k, "SendFailed", NoValue, FALSE, Tail(calls))
        BY <2>5 DEF ReadNotSent
      <3> QED BY <1>1, <3>1, <3>2, FinishIsSteady DEF Dropped
    <2> QED BY <1>7, <2>1, <2>2, <2>4, <2>5 DEF StartStep
  <1>8. CASE FinishReturns
    <2> DEFINE k == Top.h
               s == [Cleared(sub[k]) EXCEPT !.initial = FALSE,
                                            !.pollIn = Wrap(Options[k].fallbackPoll),
                                            !.covActive = sub[k].covActive \/ Top.notified]
    <2>1. Finishing /\ k \in Handles /\ Top.notified \in BOOLEAN
      BY <1>8, FinishOnTop DEF FinishReturns, LInv, SInv, FinishFrame
    <2>2. sub' = [sub EXCEPT ![k] = s] /\ sub[k] \in Handle
      BY <1>1, <1>8, <2>1 DEF FinishReturns
    <2>3. /\ sub[k].doing # "SubscribeCov" /\ (sub[k].covActive \/ Top.notified) = sub[k].covActive
          /\ sub[k].covActive => sub[k].doing = "None"
      BY <2>1, <2>2 DEF LInv, Registered, FinishesRead, Handle
    <2>4. /\ s.active = sub[k].active /\ s.covActive = (sub[k].covActive \/ Top.notified)
          /\ s.renewIn = sub[k].renewIn /\ s.doing = "None"
      BY <2>2 DEF Cleared, Handle
    <2> HIDE DEF s, k
    <2>5. sub'[k] = s
      BY <1>1, <2>1, <2>2
    <2>6. Steady(k) \/ Dropped(k)
      BY <2>3, <2>4, <2>5 DEF Steady, Dropped
    <2> QED BY <1>1, <2>1, <2>2, <2>6, OthersAreSteady
  <1> QED BY <1>3, <1>4, <1>5, <1>6, <1>7, <1>8 DEF Next, SessionStep

\* After a tick the clock of each handle is one further.
LEMMA TickTimes ==
    ASSUME SInv, Tick, NEW h \in Handles
    PROVE  /\ sub'[h].active = sub[h].active /\ sub'[h].covActive = sub[h].covActive
           /\ sub'[h].doing = sub[h].doing
           /\ sub[h].covActive => sub'[h].renewIn = Wrap(sub[h].renewIn - 1)
           /\ sub[h].doing # "None" =>
                 sub'[h].since = Wrap(sub[h].since + 1) /\ sub[h].since < Longest(h)
  <1>1. sub[h] \in Handle /\ sub' = [k \in Handles |-> Aged(k, sub[k])]
    BY DEF Tick, SInv
  <1>2. sub'[h] = Aged(h, sub[h])
    BY <1>1
  <1>3. sub[h].doing # "None" => sub[h].since < Longest(h)
    BY DEF Tick, InTime, Longest
  <1> QED BY <1>1, <1>2, <1>3 DEF Aged, Handle

\* The wrapping clock, on numbers: what is left of a deadline
LEMMA WrapSmall == ASSUME NEW t \in 0..(TimeMod - 1) PROVE Wrap(t) = t
  BY ClientSessionAssumption DEF Wrap

\* and how late it is.
LEMMA LateOf ==
    ASSUME NEW t \in Time
    PROVE  Late(t) = IF t = 0 THEN 0 ELSE TimeMod - t
  <1>1. CASE t = 0
    BY <1>1, ClientSessionAssumption DEF Late, Wrap
  <1>2. CASE t # 0
    <2>1. TimeMod \in Nat \ {0} /\ -t \in Int /\ t \in 1..(TimeMod - 1)
      BY <1>2, ClientSessionAssumption DEF Time
    <2>2. (-t) % TimeMod \in 0..(TimeMod - 1) /\ (-t) \div TimeMod \in Int
      BY <2>1
    <2>3. -t = TimeMod * ((-t) \div TimeMod) + ((-t) % TimeMod)
      BY <2>1
    <2> DEFINE q == (-t) \div TimeMod
               r == (-t) % TimeMod
    <2>4. q = -1
      <3> HIDE DEF q, r
      <3>1. q \in Int /\ r \in 0..(TimeMod - 1) /\ -t = TimeMod * q + r
        BY <2>2, <2>3 DEF q, r
      <3>2. ~(q >= 0)
        <4>1. q >= 0 => TimeMod * q >= 0
          BY <2>1, <3>1
        <4> QED BY <2>1, <3>1, <4>1
      <3>3. ~(q <= -2)
        <4>1. q <= -2 => TimeMod * q <= -2 * TimeMod
          BY <2>1, <3>1
        <4> QED BY <2>1, <3>1, <4>1
      <3> QED BY <3>1, <3>2, <3>3
    <2> QED BY <1>2, <2>1, <2>2, <2>3, <2>4 DEF Late, Wrap
  <1> QED BY <1>1, <1>2

\* A deadline that is not reached comes one tick nearer,
LEMMA Approaches ==
    ASSUME NEW t \in Time, ~Reached(t), 1 < TimeMod \div 2
    PROVE  /\ t >= 1 /\ Wrap(t - 1) = t - 1 /\ t - 1 \in Time
           /\ Reached(t - 1) => t = 1 /\ Late(t - 1) = 0
  <1>1. TimeMod \in Nat /\ t \in 0..(TimeMod - 1)
    BY ClientSessionAssumption DEF Time
  <1>2. t # 0
    BY LateOf, <1>1 DEF Reached
  <1>3. t - 1 \in Time /\ Wrap(t - 1) = t - 1
    BY <1>1, <1>2, WrapSmall DEF Time
  <1>4. ASSUME t # 1 PROVE ~Reached(t - 1)
    <2>1. Late(t) = TimeMod - t /\ Late(t - 1) = TimeMod - (t - 1)
      BY <1>1, <1>2, <1>3, <1>4, LateOf
    <2> QED BY <1>1, <2>1 DEF Reached
  <1>5. Late(0) = 0
    BY <1>1, LateOf DEF Time
  <1> QED BY <1>1, <1>2, <1>3, <1>4, <1>5

\* and one that is reached one tick later.
LEMMA Lags ==
    ASSUME NEW t \in Time, Reached(t), Late(t) + 1 < TimeMod \div 2
    PROVE  Wrap(t - 1) \in Time /\ Reached(Wrap(t - 1)) /\ Late(Wrap(t - 1)) = Late(t) + 1
  <1>1. TimeMod \in Nat \ {0} /\ t \in 0..(TimeMod - 1) /\ TimeMod \div 2 <= TimeMod
    BY ClientSessionAssumption DEF Time
  <1>2. CASE t = 0
    <2>1. Late(0) = 0
      BY <1>2, LateOf
    <2>2. TimeMod - 1 \in 1..(TimeMod - 1)
      BY <1>1, <1>2, <2>1
    <2>3. Wrap(-1) = TimeMod - 1
      <3>1. 1 \in Time
        BY <1>1, <2>2 DEF Time
      <3>2. Late(1) = TimeMod - 1
        BY <3>1, LateOf
      <3> QED BY <3>2 DEF Late
    <2>4. Late(TimeMod - 1) = 1
      <3>1. TimeMod - 1 \in Time
        BY <1>1, <2>2 DEF Time
      <3> QED BY <1>1, <2>2, <3>1, LateOf
    <2>5. TimeMod - 1 \in Time /\ Wrap(t - 1) = TimeMod - 1
      BY <1>1, <1>2, <2>2, <2>3 DEF Time
    <2> QED BY <1>2, <2>1, <2>4, <2>5 DEF Reached
  <1>3. CASE t # 0
    <2>1. Wrap(t - 1) = t - 1 /\ t - 1 \in Time
      BY <1>1, <1>3, WrapSmall DEF Time
    <2>2. Late(t) = TimeMod - t
      BY <1>3, LateOf
    <2>3. t - 1 # 0
      BY <1>1, <2>2
    <2>4. Late(t - 1) = TimeMod - (t - 1)
      BY <2>1, <2>3, LateOf
    <2> QED BY <1>1, <2>1, <2>2, <2>4 DEF Reached
  <1> QED BY <1>2, <1>3

\* The bounds are numbers.
LEMMA LeaseNumbers ==
    ASSUME NEW h \in Handles
    PROVE  /\ Longest(h) \in Nat /\ Longest(h) > 0 /\ Second \in Nat \ {0} /\ TimeMod \in Nat \ {0}
           /\ Options[h].lifetime \in Nat \ {0} /\ Options[h].renewBefore \in Nat
           /\ Options[h].renewBefore < Options[h].lifetime =>
                 /\ Lead(h) \in Nat \ {0}
                 /\ Lead(h) + Options[h].renewBefore * Second = Options[h].lifetime * Second
                 /\ Options[h].renewBefore * Second \in Nat /\ Options[h].lifetime * Second \in Nat
  <1> DEFINE a == Options[h].lifetime
             b == Options[h].renewBefore
  <1>1. /\ a \in Nat \ {0} /\ b \in Nat /\ Options[h].timeout \in Nat \ {0}
        /\ Second \in Nat \ {0} /\ TimeMod \in Nat \ {0} /\ MaxLate \in Nat
    BY ClientSessionAssumption DEF Option
  <1>2. Longest(h) \in Nat /\ Longest(h) > 0
    BY <1>1 DEF Longest
  <1>3. ASSUME b < a
        PROVE  /\ (a - b) * Second \in Nat \ {0} /\ (a - b) * Second + b * Second = a * Second
               /\ b * Second \in Nat /\ a * Second \in Nat
    <2> HIDE DEF a, b
    <2>1. (a - b) \in Nat \ {0}
      BY <1>1, <1>3
    <2>2. \A m \in Nat \ {0}, n \in Nat \ {0} : m * n \in Nat \ {0}
      OBVIOUS
    <2>3. (a - b) * Second + b * Second = a * Second
      BY <1>1
    <2>4. b * Second \in Nat /\ a * Second \in Nat
      BY <1>1
    <2> QED BY <1>1, <2>1, <2>2, <2>3, <2>4
  <1> QED BY <1>1, <1>2, <1>3 DEF Lead

\* A registration that is granted.
LEMMA GrantTimes ==
    ASSUME SInv, NEW h \in Handles, Granted(h)
    PROVE  /\ sub'[h].covActive /\ sub'[h].doing = "None" /\ sub'[h].active = sub[h].active
           /\ sub[h].doing = "SubscribeCov"
           /\ Options[h].renewBefore < Options[h].lifetime => sub'[h].renewIn = Wrap(Lead(h))
  <1>1. sub[h] \in Handle /\ sub' = [sub EXCEPT ![h] = CovGranted(h, sub[h])]
        /\ sub[h].doing = "SubscribeCov"
    BY DEF Granted, CovAccepted, SInv
  <1>2. sub'[h] = CovGranted(h, sub[h])
    BY <1>1 DEF SInv
  <1>3. Options[h].lifetime > Options[h].renewBefore <=> Options[h].renewBefore < Options[h].lifetime
    BY LeaseNumbers
  <1> DEFINE o    == Options[h]
             lead == IF o.lifetime > o.renewBefore THEN o.lifetime - o.renewBefore ELSE o.lifetime
             c    == Cleared(sub[h])
  <1>4. c \in Handle /\ c.doing = "None" /\ c.active = sub[h].active
    BY <1>1, ClearedType
  <1>5. sub'[h] = [c EXCEPT !.covActive = TRUE, !.fallback = FALSE, !.renewIn = Wrap(lead * Second)]
    BY <1>2 DEF CovGranted
  <1>6. Options[h].renewBefore < Options[h].lifetime => Wrap(lead * Second) = Wrap(Lead(h))
    BY <1>3 DEF Lead
  <1> HIDE DEF c, lead
  <1>7. /\ sub'[h].covActive = TRUE /\ sub'[h].doing = "None" /\ sub'[h].active = sub[h].active
        /\ sub'[h].renewIn = Wrap(lead * Second)
    BY <1>4, <1>5 DEF Handle
  <1> QED BY <1>1, <1>6, <1>7

\* Only a request that preferred COV is accepted, and only within its timeout.
LEMMA RegisteredKept ==
    ASSUME LInv, NEW wait, RenewalsFit(wait), Next
    PROVE  Registered'
  <1> SUFFICES ASSUME NEW h \in Handles
               PROVE  /\ sub'[h].covActive \/ sub'[h].doing = "SubscribeCov" => Options[h].preferCov
                      /\ sub'[h].covActive => sub'[h].doing # "Poll"
                      /\ sub'[h].doing = "SubscribeCov" => sub'[h].since <= Longest(h)
    BY DEF Registered
  <1>1. /\ sub[h].covActive \/ sub[h].doing = "SubscribeCov" => Options[h].preferCov
        /\ sub[h].covActive => sub[h].doing # "Poll"
        /\ sub[h].doing = "SubscribeCov" => sub[h].since <= Longest(h)
        /\ sub[h] \in Handle
    BY DEF LInv, Registered, SInv
  <1>2. CASE Tick
    <2>1. /\ sub'[h].covActive = sub[h].covActive /\ sub'[h].doing = sub[h].doing
          /\ sub[h].doing # "None" =>
                sub'[h].since = Wrap(sub[h].since + 1) /\ sub[h].since < Longest(h)
      BY <1>2, TickTimes DEF LInv
    <2>2. ASSUME sub[h].doing = "SubscribeCov" PROVE sub'[h].since <= Longest(h)
      <3>1. Longest(h) < TimeMod /\ sub[h].since \in Nat /\ Longest(h) \in Nat /\ TimeMod \in Nat
        BY <1>1, <2>2, LeaseNumbers DEF RenewalsFit, Handle, Time
      <3>2. sub[h].since + 1 \in 0..(TimeMod - 1)
        BY <2>1, <2>2, <3>1
      <3> QED BY <2>1, <2>2, <3>1, <3>2, WrapSmall
    <2> QED BY <1>1, <2>1, <2>2
  <1>3. CASE Granted(h)
    <2>1. sub'[h].doing = "None" /\ sub[h].doing = "SubscribeCov"
      BY <1>3, GrantTimes DEF LInv
    <2> QED BY <1>1, <2>1
  <1>4. CASE Renewing(h)
    <2>1. sub'[h].doing = "SubscribeCov" /\ sub'[h].since = 0 /\ sub'[h].covActive = sub[h].covActive
      BY <1>1, <1>4 DEF Renewing, Sent, Handle
    <2> QED BY <1>4, <2>1, LeaseNumbers DEF Renewing, CovDue
  <1>5. CASE Dropped(h)
    BY <1>1, <1>5 DEF Dropped
  <1>6. CASE Steady(h)
    BY <1>1, <1>6 DEF Steady
  <1> QED BY <1>2, <1>3, <1>4, <1>5, <1>6, Turns

\* A finish that begins is of a read, or of a notification of a registered handle.
LEMMA FinishBegins ==
    ASSUME LInv, NEW k \in Handles, NEW s \in Handle, NEW status, NEW value, NEW notified,
           NEW rest, rest = <<>> \/ \E g : rest = <<g>>,
           Finish(s, k, status, value, notified, rest),
           s.doing # "SubscribeCov", notified => s.covActive
    PROVE  FinishesRead'
  <1> DEFINE f == [proc |-> "finish", h |-> k, notified |-> notified,
                   calling |-> Reasons(k, status, value)]
  <1>1. calls' = <<f>> \/ \E g : calls' = <<f, g>>
    BY OnTopOf DEF Finish
  <1>2. calls'[1] = f
    BY <1>1
  <1>3. Top' = f
    BY <1>2 DEF Top
  <1>4. sub'[k].doing = s.doing /\ sub'[k].covActive = s.covActive
    BY FinishIsSteady DEF LInv, SInv
  <1>5. f.h = k /\ f.notified = notified
    OBVIOUS
  <1> HIDE DEF f
  <1> QED BY <1>3, <1>4, <1>5 DEF FinishesRead

\* While its frame is there, nothing takes it away.
LEMMA FinishesReadKept ==
    ASSUME ~CallbacksPoll, LInv, Next
    PROVE  FinishesRead'
  <1>1. SInv /\ Frames
    BY DEF LInv, SInv
  <1>2. ASSUME calls' = <<>> \/ \E g \in Polling : calls' = <<g>> PROVE FinishesRead'
    <2>1. \A g \in Polling : g.proc # "finish"
      BY DEF Polling, PollFrame
    <2> QED BY <1>2, <2>1 DEF FinishesRead, Finishing, Top
  <1>3. ASSUME calls' = calls,
               Finishing => /\ sub'[Top.h].doing \in {sub[Top.h].doing, "None"}
                            /\ sub'[Top.h].covActive = sub[Top.h].covActive
        PROVE  FinishesRead'
    BY <1>3 DEF LInv, FinishesRead, Finishing, Top
  <1>4. CASE Tick
    BY <1>2, <1>4 DEF Tick
  <1>5. Finishing => Top.h \in Handles /\ calls[1] = Top /\ 1 \in DOMAIN calls
    <2> SUFFICES ASSUME Finishing PROVE Top.h \in Handles /\ calls[1] = Top /\ 1 \in DOMAIN calls
      OBVIOUS
    <2>1. Top \in FinishFrame /\ (calls = <<Top>> \/ \E g : calls = <<Top, g>>)
      BY <1>1, FinishOnTop
    <2> QED BY <2>1 DEF FinishFrame
  <1>6. CASE Application
    <2>1. ASSUME NEW k \in Handles, Subscribe(k) PROVE FinishesRead'
      <3>1. calls' = calls /\ sub' = [sub EXCEPT ![k] = Fresh(k)]
            /\ \A i \in DOMAIN calls : calls[i].h # k
        BY <2>1 DEF Subscribe
      <3>2. Finishing => Top.h # k
        BY <1>5, <3>1
      <3> QED BY <1>1, <1>3, <1>5, <3>1, <3>2 DEF SInv
    <2>2. ASSUME NEW k \in Handles, Stop(k) PROVE FinishesRead'
      <3> DEFINE s == [Cleared(sub[k]) EXCEPT !.active = FALSE, !.refresh = FALSE, !.initial = FALSE]
      <3>1. sub' = [sub EXCEPT ![k] = s] /\ calls' = calls
        BY <1>1, <2>2 DEF Stop, SInv
      <3>2. s.doing = "None" /\ s.covActive = sub[k].covActive
        BY <1>1 DEF Cleared, Handle, SInv
      <3> HIDE DEF s
      <3> QED BY <1>1, <1>3, <1>5, <3>1, <3>2 DEF SInv
    <2>3. ASSUME NEW k \in Handles, RequestRefresh(k) PROVE FinishesRead'
      <3> DEFINE s == [sub[k] EXCEPT !.refresh = TRUE]
      <3>1. sub' = [sub EXCEPT ![k] = s] /\ calls' = calls
        BY <1>1, <2>3 DEF RequestRefresh, SInv
      <3>2. s.doing = sub[k].doing /\ s.covActive = sub[k].covActive
        BY <1>1 DEF Handle, SInv
      <3> HIDE DEF s
      <3> QED BY <1>1, <1>3, <1>5, <3>1, <3>2 DEF SInv
    <2>4. ASSUME EndJob \/ \E kind \in {"Read", "Scan"} : BeginJob(kind) PROVE FinishesRead'
      BY <1>3, <2>4 DEF EndJob, BeginJob
    <2> QED BY <1>6, <2>1, <2>2, <2>3, <2>4 DEF Application
  <1>7. CASE Polls
    <2>1. PICK procedure \in {"poll", "pollArray", "pollInFlight"}, h \in Handles \cup {NoHandle} :
              Enter(procedure, h)
      BY <1>7 DEF Polls, PollArray, PollInFlight, Poll
    <2> DEFINE f == [proc |-> procedure, h |-> h, at |-> "InFlight"]
    <2>2. calls' = <<f>>
      BY <2>1, OnTopOf DEF Enter, MayPoll
    <2>3. calls'[1] = f /\ f.proc # "finish"
      BY <2>2
    <2> QED BY <2>3 DEF FinishesRead, Finishing, Top
  <1>8. ASSUME calls # <<>>, ~Finishing, NEW place \in {"InFlight", "Notify", "Start"},
               calls' = Tail(calls) \/ calls' = Moved(place)
        PROVE  FinishesRead'
    <2>1. Tail(calls) = <<>> /\ \E g \in Polling : Moved(place) = <<g>>
      BY <1>1, <1>8, PollOnTop, MovedPoll
    <2> QED BY <1>2, <1>8, <2>1
  <1>9. CASE InFlightStep
    <2>1. CASE NothingInFlight \/ StillWaiting \/ CovAccepted \/ CovRefused
      BY <1>8, <2>1 DEF NothingInFlight, StillWaiting, CovAccepted, CovRefused, At, GoTo, Return
    <2>2. ASSUME NEW status, NEW value, ReadEnds(status, value) PROVE FinishesRead'
      <3>1. /\ inFlight \in Handles /\ sub[inFlight] \in Handle /\ sub[inFlight].doing = "Poll"
            /\ calls # <<>> /\ ~Finishing
            /\ Finish(sub[inFlight], inFlight, status, value, FALSE, Moved("Notify"))
        BY <1>1, <2>2 DEF ReadEnds, SInv, At
      <3>2. \E g : Moved("Notify") = <<g>>
        BY <1>1, <3>1, MovedPoll
      <3> QED BY <3>1, <3>2, FinishBegins
    <2> QED BY <1>9, <2>1, <2>2 DEF InFlightStep
  <1>10. CASE NotifyStep
    <2>1. CASE NoNotification \/ AcknowledgementFails
      BY <1>8, <2>1 DEF NoNotification, AcknowledgementFails, At, GoTo, Return
    <2>2. ASSUME NEW value, Notified(value) PROVE FinishesRead'
      <3>1. /\ calls # <<>> /\ ~Finishing /\ Top.proc = "poll" /\ inFlight = NoHandle
            /\ sub[Top.h].covActive
            /\ Finish(sub[Top.h], Top.h, "Ack", value, TRUE, Moved("Start"))
        BY <2>2 DEF Notified, At, Notifiable
      <3>2. Top.h \in Handles
        BY <1>1, <3>1, PollOnTop DEF Polling
      <3>3. sub[Top.h] \in Handle /\ sub[Top.h].doing = "None"
        BY <1>1, <3>1, <3>2 DEF SInv, OneOperation, Handles, NoHandle
      <3>4. \E g : Moved("Start") = <<g>>
        BY <1>1, <3>1, MovedPoll
      <3> QED BY <3>1, <3>2, <3>3, <3>4, FinishBegins
    <2> QED BY <1>10, <2>1, <2>2 DEF NotifyStep
  <1>11. CASE StartStep
    <2>1. CASE StartsNothing \/ \E h \in Handles : StartCov(h) \/ StartRead(h)
      BY <1>8, <2>1 DEF StartsNothing, StartCov, StartRead, At, Return
    <2>2. ASSUME NEW k \in Handles, ReadNotSent(k) PROVE FinishesRead'
      <3>1. /\ calls # <<>> /\ ~Finishing
            /\ Finish(WithoutCov(k), k, "SendFailed", NoValue, FALSE, Tail(calls))
            /\ Due(k, WithoutCov(k))
        BY <2>2 DEF ReadNotSent, At
      <3>2. WithoutCov(k) \in Handle /\ WithoutCov(k).doing = "None"
        BY <1>1, <3>1, WithoutCovType DEF SInv, Due
      <3>3. Tail(calls) = <<>>
        BY <1>1, <3>1, PollOnTop
      <3> QED BY <3>1, <3>2, <3>3, FinishBegins
    <2> QED BY <1>11, <2>1, <2>2 DEF StartStep
  <1>12. CASE FinishReturns
    <2>1. Finishing /\ calls' = Tail(calls)
      BY <1>12 DEF FinishReturns, Return
    <2>2. Tail(calls) = <<>> \/ \E g \in Polling : Tail(calls) = <<g>>
      BY <1>1, <2>1, FinishOnTop
    <2> QED BY <1>2, <2>1, <2>2
  <1> QED BY <1>4, <1>6, <1>7, <1>9, <1>10, <1>11, <1>12 DEF Next, SessionStep

\* What the history counts.
LEMMA AgeSteps ==
    ASSUME SInv, NEW h \in Handles, grantAge[h] \in Nat, Observe
    PROVE  /\ grantAge'[h] \in Nat
           /\ sub'[h].covActive /\ Granted(h) => grantAge'[h] = sub[h].since
           /\ ~Granted(h) => grantAge'[h] <= grantAge[h] + 1
           /\ ~Granted(h) /\ ~Tick => grantAge'[h] <= grantAge[h]
  <1>1. grantAge'[h] = IF ~sub'[h].covActive THEN 0
                       ELSE IF CovAccepted /\ inFlight = h THEN sub[h].since
                       ELSE IF Tick THEN Smaller(grantAge[h] + 1, Options[h].lifetime * Second)
                       ELSE grantAge[h]
    BY DEF Observe
  <1>2. sub[h].since \in Nat
    BY ClientSessionAssumption DEF SInv, Handle, Time
  <1>3. /\ Smaller(grantAge[h] + 1, Options[h].lifetime * Second) \in Nat
        /\ Smaller(grantAge[h] + 1, Options[h].lifetime * Second) <= grantAge[h] + 1
    <2>1. Options[h].lifetime \in Nat /\ Second \in Nat
      BY LeaseNumbers
    <2>2. Options[h].lifetime * Second \in Nat
      BY <2>1
    <2> QED BY <2>2 DEF Smaller
  <1> QED BY <1>1, <1>2, <1>3 DEF Granted

\* A tick brings a registration one further and its renewal one nearer.
LEMMA TickAges ==
    ASSUME LInv, NEW wait \in Nat, RenewalsFit(wait), Prompt(wait), Prompt(wait)', Aging(wait),
           Tick, Observe, NEW h \in Handles, grantAge[h] \in Nat,
           sub'[h].active, sub'[h].covActive
    PROVE  /\ sub'[h].doing = "None" /\ Reached(sub'[h].renewIn) =>
                 grantAge'[h] <= Lead(h) + Longest(h) + Late(sub'[h].renewIn)
           /\ sub'[h].doing = "None" /\ ~Reached(sub'[h].renewIn) =>
                 grantAge'[h] + sub'[h].renewIn <= Lead(h) + Longest(h)
           /\ sub'[h].doing = "SubscribeCov" =>
                 grantAge'[h] <= Lead(h) + Longest(h) + wait + sub'[h].since
  <1> DEFINE t == sub[h].renewIn
             bound == Lead(h) + Longest(h)
  <1>1. /\ sub[h].active /\ sub[h].covActive /\ sub'[h].doing = sub[h].doing
        /\ sub'[h].renewIn = Wrap(t - 1)
        /\ sub[h].doing # "None" =>
              sub'[h].since = Wrap(sub[h].since + 1) /\ sub[h].since < Longest(h)
    BY TickTimes DEF LInv
  <1>2. t \in Time /\ sub[h].since \in Time /\ Options[h].preferCov
    BY <1>1 DEF LInv, SInv, Registered, Handle
  <1>3. /\ Options[h].renewBefore < Options[h].lifetime /\ Longest(h) < TimeMod
        /\ wait + 1 < TimeMod \div 2 /\ 1 < TimeMod \div 2
    BY <1>2, ClientSessionAssumption DEF RenewalsFit
  <1>4. bound \in Nat /\ Longest(h) \in Nat /\ TimeMod \in Nat \ {0}
    BY <1>3, LeaseNumbers
  <1>5. grantAge'[h] <= grantAge[h] + 1 /\ grantAge'[h] \in Nat
    <2>1. ~Granted(h)
      BY DEF Granted, CovAccepted, At, Tick
    <2> QED BY <2>1, AgeSteps DEF LInv
  <1>6. CASE sub[h].doing = "None" /\ Reached(t)
    <2>1. Late(t) <= wait /\ grantAge[h] <= bound + Late(t)
      BY <1>1, <1>6 DEF Prompt, Aging
    <2>2. Late(t) \in Nat
      BY <1>2, <1>4, LateOf DEF Time
    <2>3. Late(t) + 1 < TimeMod \div 2
      BY <1>3, <1>4, <2>1, <2>2
    <2>4. Reached(Wrap(t - 1)) /\ Late(Wrap(t - 1)) = Late(t) + 1
      BY <1>2, <1>6, <2>3, Lags
    <2> HIDE DEF t, bound
    <2>5. grantAge'[h] <= bound + Late(Wrap(t - 1))
      BY <1>4, <1>5, <2>1, <2>2, <2>4
    <2> QED BY <1>1, <1>6, <2>4, <2>5 DEF bound
  <1>7. CASE sub[h].doing = "None" /\ ~Reached(t)
    <2>1. grantAge[h] + t <= bound
      BY <1>1, <1>7 DEF Aging
    <2>2. t >= 1 /\ Wrap(t - 1) = t - 1 /\ (Reached(t - 1) => t = 1 /\ Late(t - 1) = 0)
      BY <1>2, <1>3, <1>7, Approaches
    <2>3. t \in Nat
      BY <1>2, <1>4 DEF Time
    <2> HIDE DEF t, bound
    <2>4. grantAge'[h] + (t - 1) <= bound /\ (t = 1 => grantAge'[h] <= bound + 0)
      BY <1>4, <1>5, <2>1, <2>2, <2>3
    <2> QED BY <1>1, <1>7, <2>2, <2>4 DEF bound
  <1>8. CASE sub[h].doing = "SubscribeCov"
    <2>1. grantAge[h] <= bound + wait + sub[h].since
      BY <1>1, <1>8 DEF Aging
    <2>2. sub'[h].since = sub[h].since + 1 /\ sub[h].since \in Nat
      <3>1. sub[h].since \in Nat /\ sub[h].since < Longest(h)
        BY <1>1, <1>2, <1>4, <1>8 DEF Time
      <3>2. sub[h].since + 1 \in 0..(TimeMod - 1)
        BY <1>3, <1>4, <3>1
      <3> QED BY <1>1, <1>8, <3>1, <3>2, WrapSmall
    <2> HIDE DEF bound
    <2>3. grantAge'[h] <= bound + wait + sub'[h].since
      BY <1>4, <1>5, <2>1, <2>2
    <2> QED BY <1>1, <1>8, <2>3 DEF bound
  <1>9. sub[h].doing \in {"None", "SubscribeCov"}
    BY <1>1 DEF LInv, SInv, Registered, Handle
  <1> QED BY <1>6, <1>7, <1>8, <1>9

\* Every step keeps the age of a registration in line with its renewal's clock.
LEMMA AgingKept ==
    ASSUME LInv, NEW wait \in Nat, RenewalsFit(wait), Prompt(wait), Prompt(wait)', Aging(wait),
           HNext, grantAge \in [Handles -> Nat]
    PROVE  Aging(wait)' /\ grantAge' \in [Handles -> Nat]
  <1>1. Next /\ Observe
    BY DEF HNext
  <1>2. grantAge' \in [Handles -> Nat]
    <2>1. \A h \in Handles : grantAge'[h] \in Nat
      BY <1>1, AgeSteps DEF LInv
    <2>2. DOMAIN grantAge' = Handles /\ grantAge' = [h \in Handles |-> grantAge'[h]]
      BY <1>1 DEF Observe
    <2> QED BY <2>1, <2>2
  <1>3. SUFFICES ASSUME NEW h \in Handles, sub'[h].active, sub'[h].covActive
                 PROVE  /\ sub'[h].doing = "None" /\ Reached(sub'[h].renewIn) =>
                              grantAge'[h] <= Lead(h) + Longest(h) + Late(sub'[h].renewIn)
                        /\ sub'[h].doing = "None" /\ ~Reached(sub'[h].renewIn) =>
                              grantAge'[h] + sub'[h].renewIn <= Lead(h) + Longest(h)
                        /\ sub'[h].doing = "SubscribeCov" =>
                              grantAge'[h] <= Lead(h) + Longest(h) + wait + sub'[h].since
    BY <1>2 DEF Aging, Reached, Late
  <1>4. CASE Tick
    BY <1>1, <1>3, <1>4, TickAges
  <1> DEFINE bound == Lead(h) + Longest(h)
  <1>5. CASE Granted(h)
    <2>1. /\ sub'[h].doing = "None" /\ sub[h].doing = "SubscribeCov"
          /\ Options[h].renewBefore < Options[h].lifetime => sub'[h].renewIn = Wrap(Lead(h))
      BY <1>5, GrantTimes DEF LInv
    <2>2. Options[h].preferCov /\ sub[h].since <= Longest(h) /\ sub[h] \in Handle
      BY <2>1 DEF LInv, SInv, Registered
    <2>3. /\ Options[h].renewBefore < Options[h].lifetime /\ Lead(h) <= TimeMod \div 2
          /\ 1 < TimeMod \div 2
      BY <2>2, ClientSessionAssumption DEF RenewalsFit
    <2>4. /\ Lead(h) \in Nat \ {0} /\ Longest(h) \in Nat /\ TimeMod \in Nat \ {0}
          /\ sub[h].since \in Nat
      BY <2>2, <2>3, LeaseNumbers DEF Handle, Time
    <2>5. Lead(h) \in 0..(TimeMod - 1) /\ Lead(h) \in Time
      BY <2>3, <2>4 DEF Time
    <2>6. sub'[h].renewIn = Lead(h)
      BY <2>1, <2>3, <2>5, WrapSmall
    <2>7. ~Reached(Lead(h))
      <3>1. Late(Lead(h)) = TimeMod - Lead(h)
        BY <2>4, <2>5, LateOf
      <3> QED BY <2>3, <2>4, <3>1 DEF Reached
    <2>8. grantAge'[h] = sub[h].since
      BY <1>1, <1>3, <1>5, AgeSteps DEF LInv
    <2>9. grantAge'[h] + sub'[h].renewIn <= Lead(h) + Longest(h)
      BY <2>2, <2>4, <2>6, <2>8
    <2> QED BY <2>1, <2>6, <2>7, <2>9
  <1>6. CASE ~Tick /\ ~Granted(h) /\ Renewing(h)
    <2>1. /\ sub[h].covActive /\ sub[h].active /\ sub[h].doing = "None" /\ Reached(sub[h].renewIn)
          /\ sub'[h].doing = "SubscribeCov" /\ sub'[h].since = 0
      <3>1. sub'[h] = Sent(sub[h], "SubscribeCov") /\ sub[h] \in Handle /\ CovDue(h, sub[h])
        BY <1>6 DEF Renewing, LInv, SInv
      <3>2. sub'[h].covActive = sub[h].covActive /\ sub'[h].doing = "SubscribeCov"
            /\ sub'[h].since = 0
        BY <3>1 DEF Sent, Handle
      <3> QED BY <1>3, <3>1, <3>2 DEF CovDue
    <2>2. grantAge[h] <= bound + Late(sub[h].renewIn) /\ Late(sub[h].renewIn) <= wait
      BY <2>1 DEF Aging, Prompt
    <2>3. grantAge'[h] <= grantAge[h] /\ grantAge'[h] \in Nat /\ grantAge[h] \in Nat
      BY <1>1, <1>6, AgeSteps DEF LInv
    <2>4. bound \in Nat /\ Late(sub[h].renewIn) \in Nat
      <3>1. sub[h].renewIn \in Time /\ Options[h].preferCov
        BY <2>1 DEF LInv, SInv, Registered, Handle
      <3>2. Late(sub[h].renewIn) \in Nat
        BY <3>1, LateOf, ClientSessionAssumption DEF Time
      <3> QED BY <3>1, <3>2, LeaseNumbers DEF RenewalsFit
    <2> HIDE DEF bound
    <2>5. grantAge'[h] <= bound + wait + sub'[h].since
      BY <2>1, <2>2, <2>3, <2>4
    <2> QED BY <2>1, <2>5 DEF bound
  <1>7. CASE ~Tick /\ ~Granted(h) /\ Dropped(h)
    BY <1>3, <1>7 DEF Dropped
  <1>8. CASE ~Tick /\ ~Granted(h) /\ Steady(h)
    <2>1. /\ sub[h].active /\ sub[h].covActive /\ sub'[h].renewIn = sub[h].renewIn
          /\ sub'[h].doing = sub[h].doing
          /\ sub[h].doing # "None" => sub'[h].since = sub[h].since
      BY <1>3, <1>8 DEF Steady
    <2>2. grantAge'[h] <= grantAge[h] /\ grantAge'[h] \in Nat /\ grantAge[h] \in Nat
      BY <1>1, <1>8, AgeSteps DEF LInv
    <2>3. /\ sub[h].doing = "None" /\ Reached(sub[h].renewIn) =>
                grantAge[h] <= bound + Late(sub[h].renewIn)
          /\ sub[h].doing = "None" /\ ~Reached(sub[h].renewIn) =>
                grantAge[h] + sub[h].renewIn <= bound
          /\ sub[h].doing = "SubscribeCov" => grantAge[h] <= bound + wait + sub[h].since
      BY <2>1 DEF Aging
    <2>4. /\ bound \in Nat /\ Late(sub[h].renewIn) \in Nat /\ sub[h].since \in Nat
          /\ sub[h].renewIn \in Nat
      <3>1. sub[h].renewIn \in Time /\ sub[h].since \in Time /\ Options[h].preferCov
        BY <2>1 DEF LInv, SInv, Registered, Handle
      <3>2. Late(sub[h].renewIn) \in Nat
        BY <3>1, LateOf, ClientSessionAssumption DEF Time
      <3> QED BY <3>1, <3>2, LeaseNumbers, ClientSessionAssumption DEF RenewalsFit, Time
    <2> HIDE DEF bound
    <2>5. /\ sub[h].doing = "None" /\ Reached(sub[h].renewIn) =>
                grantAge'[h] <= bound + Late(sub[h].renewIn)
          /\ sub[h].doing = "None" /\ ~Reached(sub[h].renewIn) =>
                grantAge'[h] + sub[h].renewIn <= bound
          /\ sub[h].doing = "SubscribeCov" => grantAge'[h] <= bound + wait + sub[h].since
      BY <2>2, <2>3, <2>4
    <2> QED BY <2>1, <2>5 DEF bound
  <1> QED BY <1>1, <1>4, <1>5, <1>6, <1>7, <1>8, Turns

\* What holds of registrations together holds when the session comes up,
LEMMA LeaseBegins ==
    ASSUME HInit, NEW wait \in Nat
    PROVE  LInv /\ Aging(wait) /\ Prompt(wait) /\ grantAge \in [Handles -> Nat]
  <1>1. Init /\ grantAge = [h \in Handles |-> 0]
    BY DEF HInit
  <1>2. \A h \in Handles : ~sub[h].covActive /\ sub[h].doing = "None"
    BY <1>1 DEF Init, Fresh
  <1>3. ~Finishing
    BY <1>1 DEF Init, Finishing
  <1>4. LInv
    BY <1>1, <1>2, <1>3, InitSInv DEF LInv, Registered, FinishesRead
  <1>5. Prompt(wait)
    BY <1>2 DEF Prompt
  <1>6. Aging(wait)
    BY <1>2 DEF Aging
  <1> QED BY <1>1, <1>4, <1>5, <1>6

\* and is as it was where nothing happens.
LEMMA LeaseStutters ==
    ASSUME LInv, UNCHANGED hvars, NEW wait \in Nat
    PROVE  /\ LInv' /\ (Aging(wait) => Aging(wait)') /\ (Prompt(wait) => Prompt(wait)')
           /\ grantAge' = grantAge
  <1>1. SInv'
    BY StutterKeeps DEF LInv
  <1>2. sub' = sub /\ calls' = calls /\ grantAge' = grantAge
    BY DEF hvars
  <1>3. Registered' /\ FinishesRead'
    BY <1>2 DEF LInv, Registered, FinishesRead, Finishing, Top
  <1>4. Aging(wait) => Aging(wait)'
    BY <1>2 DEF Aging, Reached, Late
  <1>5. Prompt(wait) => Prompt(wait)'
    BY <1>2 DEF Prompt, Reached, Late
  <1> QED BY <1>1, <1>2, <1>3, <1>4, <1>5 DEF LInv

\* The registrations and the finish in progress throughout.
LEMMA LeaseInvariantHolds ==
    ASSUME ~CallbacksPoll, NEW CONSTANT wait \in Nat, RenewalsFit(wait)
    PROVE  HSpec => []LInv
  <1>1. HInit => LInv
    BY LeaseBegins
  <1>2. LInv /\ [HNext]_hvars => LInv'
    <2>1. ASSUME LInv, HNext PROVE LInv'
      <3>1. SInv'
        BY <2>1, NextKeeps DEF LInv, HNext, Kept
      <3>2. Registered' /\ FinishesRead'
        BY <2>1, RegisteredKept, FinishesReadKept DEF HNext
      <3> QED BY <3>1, <3>2 DEF LInv
    <2> QED BY <2>1, LeaseStutters
  <1> QED BY <1>1, <1>2, PTL DEF HSpec

\* A registration whose age is in line with the clock of its renewal has not ended.
LEMMA AgedIsGranted ==
    ASSUME LInv, NEW wait \in Nat, RenewalsFit(wait), Prompt(wait), Aging(wait),
           grantAge \in [Handles -> Nat]
    PROVE  ActiveMeansGranted
  <1> SUFFICES ASSUME NEW h \in Handles, sub[h].active, sub[h].covActive
               PROVE  grantAge[h] < Options[h].lifetime * Second
    BY DEF ActiveMeansGranted
  <1>1. /\ Options[h].preferCov /\ sub[h] \in Handle /\ sub[h].doing \in {"None", "SubscribeCov"}
        /\ sub[h].doing = "SubscribeCov" => sub[h].since <= Longest(h)
    BY DEF LInv, SInv, Registered, Handle
  <1> DEFINE lead    == Lead(h)
             longest == Longest(h)
             before  == Options[h].renewBefore * Second
             all     == Options[h].lifetime * Second
             since   == sub[h].since
             left    == sub[h].renewIn
             late    == Late(left)
             age     == grantAge[h]
  <1>2. Options[h].renewBefore < Options[h].lifetime /\ 2 * longest + wait < before
    BY <1>1 DEF RenewalsFit
  <1>3. lead \in Nat /\ longest \in Nat /\ before \in Nat /\ all \in Nat /\ lead + before = all
    BY <1>2, LeaseNumbers
  <1>4. since \in Nat /\ left \in Nat /\ late \in Nat /\ age \in Nat
    <2>1. left \in Time /\ since \in Time /\ TimeMod \in Nat \ {0}
      BY <1>1, ClientSessionAssumption DEF Handle
    <2> QED BY <2>1, LateOf DEF Time
  <1>5. CASE sub[h].doing = "None" /\ Reached(left)
    <2>1. age <= lead + longest + late /\ late <= wait
      BY <1>5 DEF Aging, Prompt
    <2> HIDE DEF lead, longest, before, all, late, age
    <2>2. age < all
      BY <1>2, <1>3, <1>4, <2>1
    <2> QED BY <2>2 DEF age, all
  <1>6. CASE sub[h].doing = "None" /\ ~Reached(left)
    <2>1. age + left <= lead + longest
      BY <1>6 DEF Aging
    <2> HIDE DEF lead, longest, before, all, left, age
    <2>2. age < all
      BY <1>2, <1>3, <1>4, <2>1
    <2> QED BY <2>2 DEF age, all
  <1>7. CASE sub[h].doing = "SubscribeCov"
    <2>1. age <= lead + longest + wait + since /\ since <= longest
      BY <1>1, <1>7 DEF Aging
    <2> HIDE DEF lead, longest, before, all, since, age
    <2>2. age < all
      BY <1>2, <1>3, <1>4, <2>1
    <2> QED BY <2>2 DEF age, all
  <1> QED BY <1>1, <1>5, <1>6, <1>7

\* Where every renewal that is due is sent within the wait that the options leave
\* it, no handle is COV-active after the server's entry has ended
\* (scheduleCovRenewal(), tryStartCovSubscription()), for any number of handles.
THEOREM PromptRenewalsKeepTheLease ==
    ASSUME ~CallbacksPoll, NEW CONSTANT wait \in Nat, RenewalsFit(wait)
    PROVE  HSpec /\ []Prompt(wait) => []ActiveMeansGranted
  <1> DEFINE InTurn == Prompt(wait)
             InLine == Aging(wait) /\ grantAge \in [Handles -> Nat]
  <1>1. HInit => InLine
    BY LeaseBegins
  <1>2. LInv /\ InTurn /\ InTurn' /\ InLine /\ [HNext]_hvars => InLine'
    <2>1. ASSUME LInv, InTurn, InTurn', InLine, HNext PROVE InLine'
      BY <2>1, AgingKept
    <2>2. ASSUME LInv, InLine, UNCHANGED hvars PROVE InLine'
      BY <2>2, LeaseStutters
    <2> QED BY <2>1, <2>2
  <1>3. LInv /\ InTurn /\ InLine => ActiveMeansGranted
    BY AgedIsGranted
  <1>4. HSpec => []LInv
    BY LeaseInvariantHolds
  <1>5. HSpec /\ []InTurn => []ActiveMeansGranted
    <2> HIDE DEF InTurn, InLine
    <2> QED BY <1>1, <1>2, <1>3, <1>4, PTL DEF HSpec
  <1> QED BY <1>5

\* A session of one handle has no other request its renewal could wait for.
LEMMA OneHandleIsPrompt ==
    ASSUME ~CallbacksPoll, NumHandles = 1, RenewalsFit(MaxLate)
    PROVE  HSpec => []Prompt(MaxLate)
  <1>1. ASSUME LInv, Prompt(MaxLate), HNext PROVE Prompt(MaxLate)'
    <2> SUFFICES ASSUME NEW h \in Handles, sub'[h].active, sub'[h].covActive,
                        sub'[h].doing = "None", Reached(sub'[h].renewIn)
                 PROVE  Late(sub'[h].renewIn) <= MaxLate
      BY DEF Prompt, Reached, Late
    <2>1. Next
      BY <1>1 DEF HNext
    <2>2. /\ TimeMod \in Nat \ {0} /\ MaxLate \in Nat /\ MaxLate + 1 < TimeMod \div 2
          /\ 1 < TimeMod \div 2
      BY ClientSessionAssumption DEF RenewalsFit
    <2>3. CASE Tick
      <3> DEFINE t == sub[h].renewIn
      <3>1. /\ sub[h].active /\ sub[h].covActive /\ sub[h].doing = "None"
            /\ sub'[h].renewIn = Wrap(t - 1) /\ sub[h] \in Handle
        BY <1>1, <2>3, TickTimes DEF LInv, SInv
      <3>2. inFlight = NoHandle
        <4>1. Handles = {1} /\ inFlight \in {0, 1} /\ h = 1
          BY <1>1 DEF LInv, SInv, Handles, NoHandle
        <4>2. inFlight # h
          BY <1>1, <3>1 DEF LInv, SInv, OneOperation
        <4> QED BY <4>1, <4>2 DEF NoHandle
      <3>3. Reached(t) => Late(t) < MaxLate
        BY <2>3, <3>1, <3>2 DEF Tick, InTime, Deadlines
      <3>4. t \in Time /\ Late(t) \in Nat
        <4>1. t \in Time
          BY <3>1 DEF Handle
        <4> QED BY <2>2, <4>1, LateOf DEF Time
      <3>5. CASE Reached(t)
        <4>1. Late(t) + 1 < TimeMod \div 2
          BY <2>2, <3>3, <3>4, <3>5
        <4>2. Late(Wrap(t - 1)) = Late(t) + 1
          BY <3>4, <3>5, <4>1, Lags
        <4> QED BY <2>2, <3>1, <3>3, <3>4, <3>5, <4>2
      <3>6. CASE ~Reached(t)
        <4>1. Wrap(t - 1) = t - 1 /\ (Reached(t - 1) => Late(t - 1) = 0)
          BY <2>2, <3>4, <3>6, Approaches
        <4> QED BY <2>2, <3>1, <4>1
      <3> QED BY <3>5, <3>6
    <2>4. CASE Granted(h)
      <3>1. /\ Options[h].preferCov
            /\ Options[h].renewBefore < Options[h].lifetime => sub'[h].renewIn = Wrap(Lead(h))
        BY <1>1, <2>4, GrantTimes DEF LInv, Registered
      <3>2. Options[h].renewBefore < Options[h].lifetime /\ Lead(h) <= TimeMod \div 2
        BY <3>1 DEF RenewalsFit
      <3>3. Lead(h) \in Nat \ {0}
        BY <3>2, LeaseNumbers
      <3>4. Lead(h) \in Time /\ Wrap(Lead(h)) = Lead(h) /\ Lead(h) # 0
        <4>1. Lead(h) \in 0..(TimeMod - 1)
          BY <2>2, <3>2, <3>3
        <4> QED BY <3>3, <4>1, WrapSmall DEF Time
      <3>5. Late(Lead(h)) = TimeMod - Lead(h)
        BY <3>4, LateOf
      <3>6. ~Reached(Lead(h))
        BY <2>2, <3>2, <3>3, <3>5 DEF Reached
      <3> QED BY <3>1, <3>2, <3>4, <3>6
    <2>5. CASE Steady(h)
      BY <1>1, <2>5 DEF Steady, Prompt
    <2>6. CASE Dropped(h)
      BY <2>6 DEF Dropped
    <2>7. CASE Renewing(h)
      <3>1. sub'[h].doing = "SubscribeCov"
        BY <1>1, <2>7 DEF Renewing, Sent, LInv, SInv, Handle
      <3> QED BY <3>1
    <2> QED BY <1>1, <2>1, <2>3, <2>4, <2>5, <2>6, <2>7, Turns
  <1> DEFINE InTurn == Prompt(MaxLate)
  <1>2. HInit => InTurn
    BY LeaseBegins, ClientSessionAssumption
  <1>3. LInv /\ InTurn /\ [HNext]_hvars => InTurn'
    BY <1>1, LeaseStutters, ClientSessionAssumption
  <1>4. HSpec => []LInv
    BY LeaseInvariantHolds, ClientSessionAssumption
  <1>5. HSpec => []InTurn
    <2> HIDE DEF InTurn
    <2> QED BY <1>2, <1>3, <1>4, PTL DEF HSpec
  <1> QED BY <1>5

\* A session of one handle is COV-active only while the server still has its
\* entry, through lost answers, stops, replacements and jobs, while its renewal
\* comes early enough for two requests and the application's own delay.
THEOREM OneHandleKeepsItsLease ==
    ASSUME ~CallbacksPoll, NumHandles = 1, RenewalsFit(MaxLate)
    PROVE  HSpec => []ActiveMeansGranted
  <1> DEFINE InTurn == Prompt(MaxLate)
             InLine == Aging(MaxLate) /\ grantAge \in [Handles -> Nat]
  <1>1. MaxLate \in Nat
    BY ClientSessionAssumption
  <1>2. HInit => InLine
    BY <1>1, LeaseBegins
  <1>3. LInv /\ InTurn /\ InTurn' /\ InLine /\ [HNext]_hvars => InLine'
    <2>1. ASSUME LInv, InTurn, InTurn', InLine, HNext PROVE InLine'
      BY <1>1, <2>1, AgingKept
    <2>2. ASSUME LInv, InLine, UNCHANGED hvars PROVE InLine'
      BY <1>1, <2>2, LeaseStutters
    <2> QED BY <2>1, <2>2
  <1>4. LInv /\ InTurn /\ InLine => ActiveMeansGranted
    BY <1>1, AgedIsGranted
  <1>5. HSpec => []LInv
    BY <1>1, LeaseInvariantHolds
  <1>6. HSpec => []InTurn
    BY OneHandleIsPrompt
  <1> HIDE DEF InTurn, InLine
  <1> QED BY <1>2, <1>3, <1>4, <1>5, <1>6, PTL DEF HSpec

=============================================================================
