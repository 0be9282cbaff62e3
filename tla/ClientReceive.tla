---------------------------- MODULE ClientReceive ----------------------------
(***************************************************************************)
(* Who gets the datagrams of one BacnetClient: the requests and the COV     *)
(* subscriptions of the sessions that share it, and the queues between.     *)
(*                                                                         *)
(* Every poll takes one datagram from the transport, and what becomes of it *)
(* depends on the poll: a SubscribeCOV poll queues a notification, a read   *)
(* drops it, the poll of a subscription drops an answer.                    *)
(*                                                                         *)
(* The network loses, duplicates and reorders: of what was ever sent, any   *)
(* datagram may arrive at any time, or never.  A session is named by its    *)
(* peer.  The time of requests is the subject of ClientSession.             *)
(***************************************************************************)
EXTENDS Integers, Sequences, SequencesExt, FiniteSets

CONSTANTS
    Sessions,       \* the peers this client has a session for
    Subscriptions,  \* the sessions' COV subscriptions: peer, Process Identifier,
                    \* point (the object, the property and the array index)
    Sources,        \* the tuples that peers send notifications for
    Confirmed,      \* the ones of them that are confirmed
    Services,       \* the requests that the sessions make
    QueueSize,      \* kMaxQueuedCovNotifications, kMaxPendingCovNotifications
    InvokeIds,      \* 255
    MaxValue,       \* bound on the changes of each source
    MaxRequests,    \* bound on the requests of each session
    MaxInbox,       \* what the transport's receive queue holds
    Ordered,        \* the network keeps the order of a source's notifications
    AcksSent,       \* the transport takes every acknowledgement
    Discovers       \* the application also polls for I-Am

ASSUME ClientReceiveAssumption ==
    /\ \A s \in Sources \cup Subscriptions : DOMAIN s = {"peer", "process", "point"}
    /\ \A s \in Subscriptions : s.peer \in Sessions
    /\ Confirmed \subseteq Sources
    /\ Services \subseteq {"ReadProperty", "WriteProperty", "SubscribeCov"}
    /\ QueueSize \in Nat \ {0} /\ InvokeIds \in Nat \ {0}
    /\ MaxValue \in Nat /\ MaxRequests \in Nat /\ MaxInbox \in Nat
    /\ Ordered \in BOOLEAN /\ AcksSent \in BOOLEAN /\ Discovers \in BOOLEAN

VARIABLES
    value,          \* the peers: how often the value of a source has changed
    told,           \* the change that a source last sent a notification of
    sent,           \* every notification the peers have sent
    acknowledged,   \* the notifications a SimpleACK was sent for
    requests,       \* the services each session has requested, in order
    waiting,        \* whether a session awaits the answer to its last request
    inbox,          \* the transport's receive queue
    queued,         \* queuedCovNotifications_
    pending,        \* pendingCovNotifications_ of each session
    known,          \* lastValue_ of each subscription
    delivered       \* pairs of a subscription and a notification it was given

vars == <<value, told, sent, acknowledged, requests, waiting, inbox, queued,
          pending, known, delivered>>

-----------------------------------------------------------------------------
\* Datagrams.

Notifications == [kind : {"Notification"}, sub : Sources, value : 1..MaxValue,
                  confirmed : BOOLEAN]

Notification(source) ==
    [kind |-> "Notification", sub |-> source, value |-> value[source],
     confirmed |-> source \in Confirmed]

\* allocateInvokeId() for the n-th request of a session: 1 to 255, never 0.
InvokeId(n) == ((n - 1) % InvokeIds) + 1

Request == [peer : Sessions, number : 1..MaxRequests]

Answers == [kind : {"Answer"}, to : Request, service : Services]

Answer(session, number) ==
    [kind |-> "Answer", to |-> [peer |-> session, number |-> number],
     service |-> requests[session][number]]

Made(session) == Len(requests[session])

\* Mutant: any answer to this service is taken.
AcceptsAnyId(d, session) ==
    /\ d.kind = "Answer"
    /\ d.service = requests[session][Made(session)]

\* What a poll for the session's request accepts (classifyReadPropertyResponse
\* and the like): the source is compared for SubscribeCOV only.
Accepts(d, session) ==
    /\ d.kind = "Answer"
    /\ d.service = requests[session][Made(session)]
    /\ InvokeId(d.to.number) = InvokeId(Made(session))
    /\ d.service = "SubscribeCov" => d.to.peer = session

\* Mutant: the queue has no end.
EnqueueUnbounded(queue, n) == Append(queue, n)

\* queueCovNotification() of the client and of the session: the oldest goes.
Enqueue(queue, n) ==
    Append(IF Len(queue) = QueueSize THEN Tail(queue) ELSE queue, n)

\* The peer, the Process Identifier and the point are compared.
Matches(n, sub) == n.sub = sub

-----------------------------------------------------------------------------
Init ==
    /\ value = [s \in Sources |-> 0]
    /\ told = [s \in Sources |-> 0]
    /\ sent = {}
    /\ acknowledged = {}
    /\ requests = [s \in Sessions |-> <<>>]
    /\ waiting = [s \in Sessions |-> FALSE]
    /\ inbox = <<>>
    /\ queued = <<>>
    /\ pending = [s \in Sessions |-> <<>>]
    /\ delivered = {}
    /\ known = [s \in Subscriptions |-> 0]

-----------------------------------------------------------------------------
\* The peers and the network.

Change(source) ==
    /\ value[source] < MaxValue
    /\ value' = [value EXCEPT ![source] = @ + 1]
    /\ UNCHANGED <<told, sent, acknowledged, requests, waiting, inbox, queued,
                   pending, known, delivered>>

\* The server sends the next notification once the last one is acknowledged.
SendNotification(source) ==
    /\ told[source] < value[source]
    /\ source \in Confirmed /\ told[source] > 0 =>
          \E n \in acknowledged : n.sub = source /\ n.value = told[source]
    /\ told' = [told EXCEPT ![source] = value[source]]
    /\ sent' = sent \cup {Notification(source)}
    /\ UNCHANGED <<value, acknowledged, requests, waiting, inbox, queued,
                   pending, known, delivered>>

NotificationArrives(n) ==
    /\ n \in sent
    /\ Len(inbox) < MaxInbox
    /\ Ordered => n.value = told[n.sub]
    /\ inbox' = Append(inbox, n)
    /\ UNCHANGED <<value, told, sent, acknowledged, requests, waiting, queued,
                   pending, known, delivered>>

\* An answer that is a whole round of invoke ids late is lost.
AnswerArrives(session, number) ==
    /\ number \in 1..Made(session)
    /\ number > Made(session) - InvokeIds
    /\ Len(inbox) < MaxInbox
    /\ inbox' = Append(inbox, Answer(session, number))
    /\ UNCHANGED <<value, told, sent, acknowledged, requests, waiting, queued,
                   pending, known, delivered>>

-----------------------------------------------------------------------------
\* The requests of a session.

\* The session comes round to an invoke id only after the answers to its last
\* request with that id have left the transport's queue.
NoneComesRound(session) ==
    \A k \in DOMAIN inbox :
        inbox[k].kind = "Answer" /\ inbox[k].to.peer = session =>
            inbox[k].to.number > Made(session) + 1 - InvokeIds

StartRequest(session, service) ==
    /\ ~waiting[session]
    /\ NoneComesRound(session)
    /\ Made(session) < MaxRequests
    /\ requests' = [requests EXCEPT ![session] = Append(@, service)]
    /\ waiting' = [waiting EXCEPT ![session] = TRUE]
    /\ UNCHANGED <<value, told, sent, acknowledged, inbox, queued, pending,
                   known, delivered>>

TimeOut(session) ==
    /\ waiting[session]
    /\ waiting' = [waiting EXCEPT ![session] = FALSE]
    /\ UNCHANGED <<value, told, sent, acknowledged, requests, inbox, queued,
                   pending, known, delivered>>

\* pollReadPropertyStatus(), pollWriteProperty(), pollSubscribeCov().
PollRequest(session) ==
    /\ waiting[session]
    /\ inbox # <<>>
    /\ inbox' = Tail(inbox)
    /\ LET d == Head(inbox)
       IN  /\ queued' = IF /\ requests[session][Made(session)] = "SubscribeCov"
                           /\ d.kind = "Notification"
                        THEN Enqueue(queued, d) ELSE queued
           /\ waiting' = [waiting EXCEPT ![session] = ~Accepts(d, session)]
    /\ UNCHANGED <<value, told, sent, acknowledged, requests, pending, known, delivered>>

\* pollIAm(): whatever else has arrived is lost.
Discover ==
    /\ Discovers
    /\ inbox # <<>>
    /\ inbox' = Tail(inbox)
    /\ UNCHANGED <<value, told, sent, acknowledged, requests, waiting, queued,
                   pending, known, delivered>>

-----------------------------------------------------------------------------
\* poll() of a subscription: takeCovNotification(), then the acknowledgement and
\* the callback, or the way back into the queue.

HandOver(sub, n) ==
    /\ known' = [known EXCEPT ![sub] = n.value]
    /\ delivered' = delivered \cup {<<sub, n>>}
    /\ acknowledged' = IF n.confirmed THEN acknowledged \cup {n} ELSE acknowledged

\* Mutant: every notification is acknowledged as it is taken.
ForwardAcknowledging(sub, n, rest) ==
    /\ acknowledged' = IF n.confirmed THEN acknowledged \cup {n} ELSE acknowledged
    /\ IF Matches(n, sub)
       THEN /\ delivered' = delivered \cup {<<sub, n>>}
            /\ known' = [known EXCEPT ![sub] = n.value]
            /\ pending' = [pending EXCEPT ![sub.peer] = rest]
       ELSE /\ pending' = [pending EXCEPT ![sub.peer] = Enqueue(rest, n)]
            /\ UNCHANGED <<known, delivered>>

\* What becomes of n, which was taken for sub and leaves the session's queue rest.
Forward(sub, n, rest) ==
    \/ /\ Matches(n, sub)
       /\ HandOver(sub, n)
       /\ pending' = [pending EXCEPT ![sub.peer] = rest]
    \/ /\ ~Matches(n, sub) \/ (n.confirmed /\ ~AcksSent)
       /\ pending' = [pending EXCEPT ![sub.peer] = Enqueue(rest, n)]
       /\ UNCHANGED <<known, delivered, acknowledged>>

IsWaitingFor(sub) == \E k \in DOMAIN pending[sub.peer] : Matches(pending[sub.peer][k], sub)

\* The first notification in the session's own queue that is for this handle.
TakePending(sub) ==
    /\ ~waiting[sub.peer]
    /\ \E k \in DOMAIN pending[sub.peer] :
          /\ Matches(pending[sub.peer][k], sub)
          /\ \A j \in 1..(k - 1) : ~Matches(pending[sub.peer][j], sub)
          /\ Forward(sub, pending[sub.peer][k], RemoveAt(pending[sub.peer], k))
    /\ UNCHANGED <<value, told, sent, requests, waiting, inbox, queued>>

\* Else the client's oldest.
TakeQueued(sub) ==
    /\ ~waiting[sub.peer]
    /\ ~IsWaitingFor(sub)
    /\ queued # <<>>
    /\ queued' = Tail(queued)
    /\ Forward(sub, Head(queued), pending[sub.peer])
    /\ UNCHANGED <<value, told, sent, requests, waiting, inbox>>

\* Mutant: what has just arrived comes before what was queued.
TakeArrivedFirst(sub) ==
    /\ ~waiting[sub.peer]
    /\ inbox # <<>>
    /\ inbox' = Tail(inbox)
    /\ IF Head(inbox).kind = "Notification"
       THEN Forward(sub, Head(inbox), pending[sub.peer])
       ELSE UNCHANGED <<pending, known, delivered, acknowledged>>
    /\ UNCHANGED <<value, told, sent, requests, waiting, queued>>

\* Else what has arrived; an answer is dropped.
TakeArrived(sub) ==
    /\ ~waiting[sub.peer]
    /\ ~IsWaitingFor(sub)
    /\ queued = <<>>
    /\ inbox # <<>>
    /\ inbox' = Tail(inbox)
    /\ IF Head(inbox).kind = "Notification"
       THEN Forward(sub, Head(inbox), pending[sub.peer])
       ELSE UNCHANGED <<pending, known, delivered, acknowledged>>
    /\ UNCHANGED <<value, told, sent, requests, waiting, queued>>

PollSubscription(sub) == TakePending(sub) \/ TakeQueued(sub) \/ TakeArrived(sub)

Peers == \E source \in Sources : Change(source) \/ SendNotification(source)

Network ==
    \/ \E n \in sent : NotificationArrives(n)
    \/ \E session \in Sessions : \E number \in 1..MaxRequests : AnswerArrives(session, number)

Client ==
    \/ \E session \in Sessions :
          \/ \E service \in Services : StartRequest(session, service)
          \/ TimeOut(session) \/ PollRequest(session)
    \/ \E sub \in Subscriptions : PollSubscription(sub)
    \/ Discover

Next == Peers \/ Network \/ Client

Spec == Init /\ [][Next]_vars

\* Peers notify, and repeat what is not acknowledged until it gets through; the
\* requests end.  The application polls its subscriptions in no special step with
\* the network: one whose poll would bring a new value again and again is at some
\* time polled just then.
FairSpec ==
    /\ Spec
    /\ \A s \in Sources : WF_vars(SendNotification(s))
    /\ \A s \in Sources, v \in 1..MaxValue :
          LET n == [kind |-> "Notification", sub |-> s, value |-> v, confirmed |-> s \in Confirmed]
          IN  SF_vars(n \in sent \ acknowledged /\ NotificationArrives(n))
    /\ \A s \in Sessions : WF_vars(TimeOut(s))
    /\ \A s \in Subscriptions :
          WF_vars(PollSubscription(s)) /\ SF_vars(PollSubscription(s) /\ known' # known)

-----------------------------------------------------------------------------
\* Every variable keeps its range; the queues stay within their arrays.
TypeOK ==
    /\ value \in [Sources -> 0..MaxValue] /\ told \in [Sources -> 0..MaxValue]
    /\ sent \subseteq Notifications /\ acknowledged \subseteq sent
    /\ waiting \in [Sessions -> BOOLEAN]
    /\ \A s \in Sessions : requests[s] \in Seq(Services) /\ pending[s] \in Seq(sent)
    /\ inbox \in Seq(sent \cup Answers) /\ queued \in Seq(sent)
    /\ \A s \in Sessions : Len(pending[s]) <= QueueSize
    /\ Len(queued) <= QueueSize
    /\ known \in [Subscriptions -> 0..MaxValue]

\* A request is only ever ended by the answer to that request: not by the answer
\* to an earlier one, to another service or to another session's request.
AnswersAreOwn ==
    [][\A s \in Sessions :
          waiting[s] /\ ~waiting'[s] /\ inbox' # inbox =>
              Head(inbox).to = [peer |-> s, number |-> Made(s)]]_vars

\* Whatever polls the datagrams pass through, only the subscription a
\* notification names is given it, and a confirmed one is acknowledged by being
\* given (docs/cov.md: the session sends SimpleACK only after the tuple matches).
Promise == INSTANCE CovDelivery WITH sent <- sent, delivered <- delivered,
                                     acknowledged <- acknowledged
Delivers == Promise!Spec

\* On a network that keeps order, no queue turns a subscription's value back.
NeverBackwards == [][\A s \in Subscriptions : known'[s] >= known[s]]_vars

\* A confirmed source's last value reaches its subscription, although queues and
\* other polls drop notifications.
LastValueArrives ==
    \A s \in Subscriptions \cap Confirmed : <>[](known[s] = value[s])

=============================================================================
