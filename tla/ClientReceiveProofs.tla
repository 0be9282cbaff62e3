------------------------ MODULE ClientReceiveProofs ------------------------
(***************************************************************************)
(* The client keeps the promise of CovDelivery, its queues stay within      *)
(* their bounds, requests get their own answers, and values are told in     *)
(* the order the server sent them.                                          *)
(*                                                                         *)
(* Whether a step hands a notification over as promised depends on where    *)
(* the notification comes from, so the first inductive invariant says that  *)
(* everything in the transport's queue, the client's and the sessions' was  *)
(* sent by a peer.  The order needs more: that each queue a source's        *)
(* notifications pass through is in the order they were sent.               *)
(***************************************************************************)
EXTENDS ClientReceive, TLAPS

Carried ==
    /\ value \in [Sources -> 0..MaxValue]
    /\ told \in [Sources -> 0..MaxValue]
    /\ sent \subseteq Notifications
    /\ requests \in [Sessions -> Seq(Services)]
    /\ waiting \in [Sessions -> BOOLEAN]
    /\ inbox \in Seq(sent \cup Answers)
    /\ queued \in Seq(sent)
    /\ pending \in [Sessions -> Seq(sent)]

\* A queue that grows stays a queue of the same things.
LEMMA SeqGrows ==
    ASSUME NEW S, NEW T, S \subseteq T
    PROVE  Seq(S) \subseteq Seq(T)
  <1> SUFFICES ASSUME NEW s \in Seq(S) PROVE s \in Seq(T)
    OBVIOUS
  <1>1. s \in [1..Len(s) -> S] /\ Len(s) \in Nat
    OBVIOUS
  <1>2. s \in [1..Len(s) -> T]
    BY <1>1
  <1> QED BY <1>1, <1>2

\* The queues hold only what they held and what was put into them.
LEMMA EnqueueKeeps ==
    ASSUME NEW S, NEW queue \in Seq(S), NEW n \in S
    PROVE  Enqueue(queue, n) \in Seq(S)
  <1>1. CASE Len(queue) = QueueSize
    <2>1. queue # <<>>
      BY <1>1, ClientReceiveAssumption
    <2>2. Tail(queue) \in Seq(S)
      BY <2>1
    <2> QED BY <2>2, <1>1 DEF Enqueue
  <1>2. CASE Len(queue) # QueueSize
    BY <1>2 DEF Enqueue
  <1> QED BY <1>1, <1>2

\* So does one that loses an element.
LEMMA RemoveKeeps ==
    ASSUME NEW S, NEW queue \in Seq(S), NEW k \in DOMAIN queue
    PROVE  RemoveAt(queue, k) \in Seq(S)
  <1>1. k \in 1..Len(queue) /\ Len(queue) \in Nat
    OBVIOUS
  <1>2. SubSeq(queue, 1, k - 1) \in Seq(S)
    BY <1>1
  <1>3. SubSeq(queue, k + 1, Len(queue)) \in Seq(S)
    BY <1>1
  <1> QED BY <1>2, <1>3 DEF RemoveAt

\* So does a session's queue when a notification is forwarded to it.
LEMMA ForwardKeeps ==
    ASSUME Carried, NEW sub \in Subscriptions, NEW n \in sent, NEW rest \in Seq(sent),
           Forward(sub, n, rest)
    PROVE  pending' \in [Sessions -> Seq(sent)]
  <1>1. Enqueue(rest, n) \in Seq(sent)
    BY EnqueueKeeps
  <1> QED BY <1>1 DEF Forward, Carried

\* It holds at first,
LEMMA CarriedInit == Init => Carried
  BY ClientReceiveAssumption DEF Init, Carried

\* and every step keeps it.
LEMMA CarriedNext == Carried /\ [Next]_vars => Carried'
  <1> SUFFICES ASSUME Carried, [Next]_vars PROVE Carried'
    OBVIOUS
  <1> USE DEF Carried
  <1>1. ASSUME NEW s \in Sources, Change(s) PROVE Carried'
    BY <1>1, ClientReceiveAssumption DEF Change
  <1>2. ASSUME NEW s \in Sources, SendNotification(s) PROVE Carried'
    <2>1. value[s] \in 1..MaxValue
      BY <1>2, ClientReceiveAssumption DEF SendNotification
    <2>2. Notification(s) \in Notifications
      BY <2>1 DEF Notification, Notifications
    <2>3. sent' \subseteq Notifications /\ sent \subseteq sent'
      BY <1>2, <2>2 DEF SendNotification
    <2>4. Seq(sent) \subseteq Seq(sent')
      BY <2>3, SeqGrows
    <2>5. Seq(sent \cup Answers) \subseteq Seq(sent' \cup Answers)
      BY <2>3, SeqGrows
    <2> QED BY <1>2, <2>1, <2>3, <2>4, <2>5 DEF SendNotification
  <1>3. ASSUME NEW n \in sent, NotificationArrives(n) PROVE Carried'
    BY <1>3 DEF NotificationArrives
  <1>4. ASSUME NEW s \in Sessions, NEW k \in 1..MaxRequests, AnswerArrives(s, k) PROVE Carried'
    <2>1. requests[s][k] \in Services
      BY <1>4 DEF AnswerArrives, Made
    <2>2. Answer(s, k) \in Answers
      BY <2>1 DEF Answer, Answers, Request
    <2> QED BY <1>4, <2>2 DEF AnswerArrives
  <1>5. ASSUME NEW s \in Sessions, NEW service \in Services, StartRequest(s, service) PROVE Carried'
    BY <1>5 DEF StartRequest
  <1>6. ASSUME NEW s \in Sessions, TimeOut(s) PROVE Carried'
    BY <1>6 DEF TimeOut
  <1>7. ASSUME NEW s \in Sessions, PollRequest(s) PROVE Carried'
    <2>1. Head(inbox) \in sent \cup Answers /\ Tail(inbox) \in Seq(sent \cup Answers)
      BY <1>7 DEF PollRequest
    <2>2. Head(inbox).kind = "Notification" => Head(inbox) \in sent
      BY <2>1 DEF Answers
    <2>3. Head(inbox).kind = "Notification" => Enqueue(queued, Head(inbox)) \in Seq(sent)
      BY <2>2, EnqueueKeeps
    <2>4. queued' \in Seq(sent)
      BY <1>7, <2>3 DEF PollRequest
    <2>5. waiting' \in [Sessions -> BOOLEAN]
      BY <1>7 DEF PollRequest, Accepts
    <2> QED BY <1>7, <2>1, <2>4, <2>5 DEF PollRequest
  <1>8. ASSUME Discover PROVE Carried'
    BY <1>8 DEF Discover
  <1>9. ASSUME NEW sub \in Subscriptions, TakePending(sub) PROVE Carried'
    <2>1. PICK k \in DOMAIN pending[sub.peer] :
             Forward(sub, pending[sub.peer][k], RemoveAt(pending[sub.peer], k))
      BY <1>9 DEF TakePending
    <2>2. sub.peer \in Sessions /\ pending[sub.peer] \in Seq(sent)
      BY ClientReceiveAssumption
    <2>3. pending[sub.peer][k] \in sent /\ RemoveAt(pending[sub.peer], k) \in Seq(sent)
      BY <2>2, RemoveKeeps
    <2>4. pending' \in [Sessions -> Seq(sent)]
      BY <2>1, <2>3, ForwardKeeps
    <2> QED BY <1>9, <2>4 DEF TakePending
  <1>10. ASSUME NEW sub \in Subscriptions, TakeQueued(sub) PROVE Carried'
    <2>1. Head(queued) \in sent /\ Tail(queued) \in Seq(sent)
      BY <1>10 DEF TakeQueued
    <2>2. pending[sub.peer] \in Seq(sent)
      BY ClientReceiveAssumption
    <2>3. pending' \in [Sessions -> Seq(sent)]
      BY <1>10, <2>1, <2>2, ForwardKeeps DEF TakeQueued
    <2> QED BY <1>10, <2>1, <2>3 DEF TakeQueued
  <1>11. ASSUME NEW sub \in Subscriptions, TakeArrived(sub) PROVE Carried'
    <2>1. Head(inbox) \in sent \cup Answers /\ Tail(inbox) \in Seq(sent \cup Answers)
      BY <1>11 DEF TakeArrived
    <2>2. pending[sub.peer] \in Seq(sent)
      BY ClientReceiveAssumption
    <2>3. pending' \in [Sessions -> Seq(sent)]
      <3>1. CASE Head(inbox).kind = "Notification"
        <4>1. Head(inbox) \in sent
          BY <2>1, <3>1 DEF Answers
        <4>2. Forward(sub, Head(inbox), pending[sub.peer])
          BY <1>11, <3>1 DEF TakeArrived
        <4> QED BY <4>1, <4>2, <2>2, ForwardKeeps
      <3>2. CASE Head(inbox).kind # "Notification"
        BY <1>11, <3>2 DEF TakeArrived
      <3> QED BY <3>1, <3>2
    <2> QED BY <1>11, <2>1, <2>3 DEF TakeArrived
  <1>12. CASE UNCHANGED vars
    BY <1>12 DEF vars
  <1> QED BY <1>1, <1>2, <1>3, <1>4, <1>5, <1>6, <1>7, <1>8, <1>9, <1>10, <1>11, <1>12
          DEF Next, Peers, Network, Client, PollSubscription

\* Nothing in a queue, at a session or handed over was made up by the client: a
\* peer has sent it, and the network may have repeated it.
THEOREM EverythingCameFromAPeer == Spec => []Carried
  BY CarriedInit, CarriedNext, PTL DEF Spec

-----------------------------------------------------------------------------
\* Handing a notification over is a delivery of CovDelivery.
LEMMA HandOverDelivers ==
    ASSUME Carried, NEW sub \in Subscriptions, NEW n \in sent, NEW rest,
           Forward(sub, n, rest), UNCHANGED sent
    PROVE  [Promise!Next]_(Promise!vars)
  <1>1. CASE Matches(n, sub) /\ HandOver(sub, n)
    <2>1. n \in Notifications /\ n.sub = sub
      BY <1>1 DEF Carried, Matches
    <2>2. Promise!Deliver(n)
      BY <1>1, <2>1 DEF HandOver, Promise!Deliver
    <2> QED BY <2>1, <2>2 DEF Promise!Next
  <1>2. CASE UNCHANGED <<known, delivered, acknowledged>>
    BY <1>2 DEF Promise!vars
  <1> QED BY <1>1, <1>2 DEF Forward

\* Each step of the client is a step of CovDelivery or leaves it alone.
LEMMA StepDelivers == Carried /\ [Next]_vars => [Promise!Next]_(Promise!vars)
  <1> SUFFICES ASSUME Carried, [Next]_vars PROVE [Promise!Next]_(Promise!vars)
    OBVIOUS
  <1>1. ASSUME NEW s \in Sources, SendNotification(s) PROVE [Promise!Next]_(Promise!vars)
    <2>1. value[s] \in 1..MaxValue
      BY <1>1, ClientReceiveAssumption DEF SendNotification, Carried
    <2>2. Notification(s) \in Notifications
      BY <2>1 DEF Notification, Notifications
    <2>3. Promise!Send(Notification(s))
      BY <1>1 DEF SendNotification, Promise!Send
    <2> QED BY <2>2, <2>3 DEF Promise!Next
  <1>2. ASSUME NEW sub \in Subscriptions, TakePending(sub) PROVE [Promise!Next]_(Promise!vars)
    <2>1. PICK k \in DOMAIN pending[sub.peer] :
             Forward(sub, pending[sub.peer][k], RemoveAt(pending[sub.peer], k))
      BY <1>2 DEF TakePending
    <2>2. pending[sub.peer][k] \in sent
      BY ClientReceiveAssumption DEF Carried
    <2> QED BY <1>2, <2>1, <2>2, HandOverDelivers DEF TakePending
  <1>3. ASSUME NEW sub \in Subscriptions, TakeQueued(sub) PROVE [Promise!Next]_(Promise!vars)
    <2>1. Head(queued) \in sent
      BY <1>3 DEF TakeQueued, Carried
    <2> QED BY <1>3, <2>1, HandOverDelivers DEF TakeQueued
  <1>4. ASSUME NEW sub \in Subscriptions, TakeArrived(sub) PROVE [Promise!Next]_(Promise!vars)
    <2>1. CASE Head(inbox).kind = "Notification"
      <3>1. Head(inbox) \in sent
        BY <1>4, <2>1 DEF TakeArrived, Carried, Answers
      <3>2. Forward(sub, Head(inbox), pending[sub.peer])
        BY <1>4, <2>1 DEF TakeArrived
      <3> QED BY <1>4, <3>1, <3>2, HandOverDelivers DEF TakeArrived
    <2>2. CASE Head(inbox).kind # "Notification"
      BY <1>4, <2>2 DEF TakeArrived, Promise!vars
    <2> QED BY <2>1, <2>2
  <1>5. CASE UNCHANGED <<sent, delivered, acknowledged>>
    BY <1>5 DEF Promise!vars
  <1> QED BY <1>1, <1>2, <1>3, <1>4, <1>5
          DEF Next, Peers, Network, Client, PollSubscription, Change, NotificationArrives,
              AnswerArrives, StartRequest, TimeOut, PollRequest, Discover, vars

\* Whatever the network does and whichever poll a datagram meets, a notification
\* is given only to the subscription it names, and acknowledged only when it is
\* given (takeCovNotification(), poll()).
THEOREM ReceiveDelivers == Spec => Delivers
  <1>1. Init => Promise!Init
    BY DEF Init, Promise!Init
  <1> QED BY <1>1, StepDelivers, EverythingCameFromAPeer, PTL DEF Spec, Delivers, Promise!Spec

-----------------------------------------------------------------------------
\* The queues are arrays: none grows beyond its size, and what is given to a
\* subscription is a value that its source had.

Bounded ==
    /\ acknowledged \subseteq sent
    /\ \A s \in Sessions : Len(pending[s]) <= QueueSize
    /\ Len(queued) <= QueueSize
    /\ known \in [Subscriptions -> 0..MaxValue]

\* A full queue loses its oldest element before it takes another.
LEMMA EnqueueBounded ==
    ASSUME NEW S, NEW queue \in Seq(S), NEW n \in S, Len(queue) <= QueueSize
    PROVE  Len(Enqueue(queue, n)) <= QueueSize
  <1>1. Len(queue) \in Nat /\ QueueSize \in Nat \ {0}
    BY ClientReceiveAssumption
  <1>2. CASE Len(queue) = QueueSize
    <2>1. queue # <<>>
      BY <1>1, <1>2
    <2>2. Tail(queue) \in Seq(S) /\ Len(Tail(queue)) = Len(queue) - 1
      BY <2>1
    <2>3. Len(Append(Tail(queue), n)) = Len(queue)
      BY <1>1, <2>2
    <2> QED BY <1>2, <2>3 DEF Enqueue
  <1>3. CASE Len(queue) # QueueSize
    <2>1. Len(Append(queue, n)) = Len(queue) + 1
      OBVIOUS
    <2> QED BY <1>1, <1>3, <2>1 DEF Enqueue
  <1> QED BY <1>2, <1>3

\* One that an element is removed from is shorter.
LEMMA RemoveShortens ==
    ASSUME NEW S, NEW queue \in Seq(S), NEW k \in DOMAIN queue
    PROVE  Len(RemoveAt(queue, k)) = Len(queue) - 1
  <1>1. k \in 1..Len(queue) /\ Len(queue) \in Nat
    OBVIOUS
  <1>2. SubSeq(queue, 1, k - 1) \in Seq(S) /\ Len(SubSeq(queue, 1, k - 1)) = k - 1
    BY <1>1
  <1>3. /\ SubSeq(queue, k + 1, Len(queue)) \in Seq(S)
        /\ Len(SubSeq(queue, k + 1, Len(queue))) = Len(queue) - k
    BY <1>1
  <1> QED BY <1>1, <1>2, <1>3 DEF RemoveAt

\* Forwarding keeps to the bounds,
LEMMA ForwardBounded ==
    ASSUME Carried, Bounded, NEW sub \in Subscriptions, NEW n \in sent,
           NEW rest \in Seq(sent), Len(rest) <= QueueSize,
           Forward(sub, n, rest), UNCHANGED <<sent, queued>> \/ (queued' = Tail(queued) /\ queued # <<>> /\ sent' = sent)
    PROVE  Bounded'
  <1>1. n.value \in 0..MaxValue /\ Len(Enqueue(rest, n)) <= QueueSize
    BY EnqueueBounded, ClientReceiveAssumption DEF Carried, Notifications
  <1>2. known' \in [Subscriptions -> 0..MaxValue] /\ acknowledged' \subseteq sent
    BY <1>1 DEF Forward, HandOver, Bounded
  <1>3. \A s \in Sessions : Len(pending'[s]) <= QueueSize
    BY <1>1 DEF Forward, Bounded, Carried
  <1>4. Len(queued') <= QueueSize
    <2>1. queued # <<>> => Len(Tail(queued)) = Len(queued) - 1 /\ Len(queued) \in Nat
      BY DEF Carried
    <2> QED BY <2>1, ClientReceiveAssumption DEF Bounded
  <1> QED BY <1>2, <1>3, <1>4 DEF Bounded

\* and so does every step.
LEMMA BoundedNext == Carried /\ Bounded /\ [Next]_vars => Bounded'
  <1> SUFFICES ASSUME Carried, Bounded, [Next]_vars PROVE Bounded'
    OBVIOUS
  <1>1. ASSUME UNCHANGED <<acknowledged, queued, pending, known>>, sent \subseteq sent'
        PROVE  Bounded'
    BY <1>1 DEF Bounded
  <1>2. ASSUME NEW s \in Sources, Change(s) \/ SendNotification(s) PROVE Bounded'
    BY <1>1, <1>2 DEF Change, SendNotification
  <1>3. ASSUME NEW n \in sent, NotificationArrives(n) PROVE Bounded'
    BY <1>1, <1>3 DEF NotificationArrives
  <1>4. ASSUME NEW s \in Sessions, NEW k, AnswerArrives(s, k) PROVE Bounded'
    BY <1>1, <1>4 DEF AnswerArrives
  <1>5. ASSUME NEW s \in Sessions, NEW service, StartRequest(s, service) PROVE Bounded'
    BY <1>1, <1>5 DEF StartRequest
  <1>6. ASSUME NEW s \in Sessions, TimeOut(s) PROVE Bounded'
    BY <1>1, <1>6 DEF TimeOut
  <1>7. ASSUME NEW s \in Sessions, PollRequest(s) PROVE Bounded'
    <2>1. Head(inbox) \in sent \cup Answers
      BY <1>7 DEF PollRequest, Carried
    <2>2. Head(inbox).kind = "Notification" => Head(inbox) \in sent
      BY <2>1 DEF Answers
    <2>3. Len(queued') <= QueueSize
      BY <1>7, <2>2, EnqueueBounded DEF PollRequest, Carried, Bounded
    <2> QED BY <1>7, <2>3 DEF PollRequest, Bounded
  <1>8. ASSUME Discover PROVE Bounded'
    BY <1>1, <1>8 DEF Discover
  <1>9. ASSUME NEW sub \in Subscriptions, TakePending(sub) PROVE Bounded'
    <2>1. PICK k \in DOMAIN pending[sub.peer] :
             Forward(sub, pending[sub.peer][k], RemoveAt(pending[sub.peer], k))
      BY <1>9 DEF TakePending
    <2>2. sub.peer \in Sessions /\ pending[sub.peer] \in Seq(sent)
      BY ClientReceiveAssumption DEF Carried
    <2>3. pending[sub.peer][k] \in sent
      BY <2>2
    <2>4. RemoveAt(pending[sub.peer], k) \in Seq(sent)
      BY <2>2, RemoveKeeps
    <2>5. Len(RemoveAt(pending[sub.peer], k)) = Len(pending[sub.peer]) - 1
      BY <2>2, RemoveShortens
    <2>6. Len(RemoveAt(pending[sub.peer], k)) <= QueueSize
      BY <2>2, <2>5, ClientReceiveAssumption DEF Bounded
    <2> QED BY <1>9, <2>1, <2>3, <2>4, <2>6, ForwardBounded DEF TakePending
  <1>10. ASSUME NEW sub \in Subscriptions, TakeQueued(sub) PROVE Bounded'
    <2>1. Head(queued) \in sent /\ sub.peer \in Sessions /\ pending[sub.peer] \in Seq(sent)
      BY <1>10, ClientReceiveAssumption DEF TakeQueued, Carried
    <2>2. Len(pending[sub.peer]) <= QueueSize
      BY <2>1 DEF Bounded
    <2> QED BY <1>10, <2>1, <2>2, ForwardBounded DEF TakeQueued
  <1>11. ASSUME NEW sub \in Subscriptions, TakeArrived(sub) PROVE Bounded'
    <2>1. Head(inbox) \in sent \cup Answers /\ sub.peer \in Sessions
          /\ pending[sub.peer] \in Seq(sent)
      BY <1>11, ClientReceiveAssumption DEF TakeArrived, Carried
    <2>2. Len(pending[sub.peer]) <= QueueSize
      BY <2>1 DEF Bounded
    <2>3. CASE Head(inbox).kind = "Notification"
      <3>1. Head(inbox) \in sent
        BY <2>1, <2>3 DEF Answers
      <3> QED BY <1>11, <2>1, <2>2, <2>3, <3>1, ForwardBounded DEF TakeArrived
    <2>4. CASE Head(inbox).kind # "Notification"
      BY <1>1, <1>11, <2>4 DEF TakeArrived
    <2> QED BY <2>3, <2>4
  <1>12. CASE UNCHANGED vars
    BY <1>1, <1>12 DEF vars
  <1> QED BY <1>2, <1>3, <1>4, <1>5, <1>6, <1>7, <1>8, <1>9, <1>10, <1>11, <1>12
          DEF Next, Peers, Network, Client, PollSubscription

\* The bounds hold from the start.
LEMMA BoundedInvariance == Spec => []Bounded
  <1>1. Init => Bounded
    BY ClientReceiveAssumption DEF Init, Bounded
  <1> QED BY <1>1, BoundedNext, EverythingCameFromAPeer, PTL DEF Spec

\* The fixed arrays of the client and of its sessions never overflow, whichever
\* polls they are filled and emptied by (queueCovNotification()).
THEOREM ReceiveTypeCorrect == Spec => []TypeOK
  <1>1. Carried /\ Bounded => TypeOK
    BY DEF Carried, Bounded, TypeOK
  <1> QED BY <1>1, BoundedInvariance, EverythingCameFromAPeer, PTL

-----------------------------------------------------------------------------
\* Answers and requests.

\* What arrives as an answer is one: to a request that was made, of its service,
\* and not a whole round of invoke ids old.
Current(s, d) ==
    /\ d.to.number \in 1..Made(s)
    /\ d.to.number > Made(s) - InvokeIds
    /\ d.service = requests[s][d.to.number]

AnswersAreCurrent ==
    \A k \in DOMAIN inbox : inbox[k].kind = "Answer" =>
        inbox[k].to.peer \in Sessions /\ Current(inbox[k].to.peer, inbox[k])

\* Within a round of invoke ids the id tells which request is meant.
LEMMA InvokeIdTells ==
    ASSUME NEW a \in Nat \ {0}, NEW b \in Nat \ {0}, a <= b, a > b - InvokeIds,
           InvokeId(a) = InvokeId(b)
    PROVE  a = b
  <1>1. InvokeIds \in Nat /\ InvokeIds > 0
    BY ClientReceiveAssumption
  <1> DEFINE p == (a - 1) \div InvokeIds
             q == (b - 1) \div InvokeIds
  <1>2. p \in Int /\ q \in Int
    BY <1>1
  <1>3. /\ a - 1 = InvokeIds * p + ((a - 1) % InvokeIds)
        /\ b - 1 = InvokeIds * q + ((b - 1) % InvokeIds)
    BY <1>1
  <1>4. (a - 1) % InvokeIds \in Int /\ (a - 1) % InvokeIds = (b - 1) % InvokeIds
    BY <1>1 DEF InvokeId
  <1> HIDE DEF p, q
  <1>5. b - a = InvokeIds * (q - p) /\ q - p \in Int
    BY <1>1, <1>2, <1>3, <1>4
  <1>6. q - p >= 1 => InvokeIds * (q - p) >= InvokeIds
    BY <1>1, <1>5
  <1>7. q - p <= 0 => InvokeIds * (q - p) <= 0
    BY <1>1, <1>5
  <1> QED BY <1>1, <1>5, <1>6, <1>7

\* Answers stay current,
LEMMA AnswersStayCurrent == Carried /\ AnswersAreCurrent /\ [Next]_vars => AnswersAreCurrent'
  <1> SUFFICES ASSUME Carried, AnswersAreCurrent, [Next]_vars PROVE AnswersAreCurrent'
    OBVIOUS
  <1>1. inbox \in Seq(sent \cup Answers) /\ \A s \in Sessions : requests[s] \in Seq(Services)
    BY DEF Carried
  <1>2. ASSUME UNCHANGED <<requests, inbox>> PROVE AnswersAreCurrent'
    BY <1>2 DEF AnswersAreCurrent, Current, Made
  <1>3. ASSUME inbox # <<>>, inbox' = Tail(inbox), UNCHANGED requests PROVE AnswersAreCurrent'
    <2>1. \A k \in DOMAIN inbox' : k + 1 \in DOMAIN inbox /\ inbox'[k] = inbox[k + 1]
      BY <1>1, <1>3
    <2> QED BY <1>3, <2>1 DEF AnswersAreCurrent, Current, Made
  <1>4. ASSUME NEW d, inbox' = Append(inbox, d), UNCHANGED requests,
               d.kind = "Answer" => d.to.peer \in Sessions /\ Current(d.to.peer, d)
        PROVE  AnswersAreCurrent'
    <2>1. \A k \in DOMAIN inbox' : (k \in DOMAIN inbox /\ inbox'[k] = inbox[k]) \/ inbox'[k] = d
      BY <1>1, <1>4
    <2> QED BY <1>4, <2>1 DEF AnswersAreCurrent, Current, Made
  <1>5. ASSUME NEW n \in sent, NotificationArrives(n) PROVE AnswersAreCurrent'
    <2>1. n.kind # "Answer"
      BY DEF Carried, Notifications
    <2> QED BY <1>4, <1>5, <2>1 DEF NotificationArrives
  <1>6. ASSUME NEW s \in Sessions, NEW k \in 1..MaxRequests, AnswerArrives(s, k)
        PROVE  AnswersAreCurrent'
    <2>1. Answer(s, k).to.peer = s /\ Current(s, Answer(s, k))
      BY <1>6 DEF AnswerArrives, Answer, Current
    <2> QED BY <1>4, <1>6, <2>1 DEF AnswerArrives
  <1>7. ASSUME NEW s \in Sessions, NEW service \in Services, StartRequest(s, service)
        PROVE  AnswersAreCurrent'
    <2>1. inbox' = inbox /\ requests' = [requests EXCEPT ![s] = Append(@, service)]
      BY <1>7 DEF StartRequest
    <2>2. ASSUME NEW k \in DOMAIN inbox, inbox[k].kind = "Answer"
          PROVE  LET d == inbox[k]
                 IN  /\ d.to.number \in 1..Len(requests'[d.to.peer])
                     /\ d.to.number > Len(requests'[d.to.peer]) - InvokeIds
                     /\ d.service = requests'[d.to.peer][d.to.number]
      <3> DEFINE d == inbox[k]
      <3>1. d.to.peer \in Sessions /\ Current(d.to.peer, d)
        BY <2>2 DEF AnswersAreCurrent
      <3>2. CASE d.to.peer = s
        <4>1. Made(s)' = Made(s) + 1 /\ Made(s) \in Nat /\ d.to.number \in 1..Made(s)
          BY <1>1, <2>1, <3>1, <3>2 DEF Made, Carried, Current
        <4>2. d.to.number > Made(s) + 1 - InvokeIds
          BY <1>7, <2>2, <3>2 DEF StartRequest, NoneComesRound
        <4>3. requests'[s][d.to.number] = requests[s][d.to.number]
          BY <1>1, <2>1, <4>1 DEF Made, Carried
        <4>4. d.to.number \in 1..Len(requests'[s]) /\ d.to.number > Len(requests'[s]) - InvokeIds
          BY <4>1, <4>2, ClientReceiveAssumption DEF Made
        <4>5. d.service = requests'[s][d.to.number]
          BY <3>1, <3>2, <4>3 DEF Current
        <4> QED BY <3>2, <4>4, <4>5
      <3>3. CASE d.to.peer # s
        <4>1. requests'[d.to.peer] = requests[d.to.peer]
          BY <2>1, <3>1, <3>3 DEF Carried
        <4> QED BY <2>1, <3>1, <4>1 DEF Current, Made
      <3> QED BY <3>2, <3>3
    <2> QED BY <2>1, <2>2 DEF AnswersAreCurrent, Current, Made
  <1>8. ASSUME NEW s \in Sources, Change(s) \/ SendNotification(s) PROVE AnswersAreCurrent'
    BY <1>2, <1>8 DEF Change, SendNotification
  <1>9. ASSUME NEW s \in Sessions, TimeOut(s) \/ PollRequest(s) PROVE AnswersAreCurrent'
    BY <1>2, <1>3, <1>9 DEF TimeOut, PollRequest
  <1>10. ASSUME NEW sub \in Subscriptions, PollSubscription(sub) PROVE AnswersAreCurrent'
    BY <1>2, <1>3, <1>10 DEF PollSubscription, TakePending, TakeQueued, TakeArrived
  <1>11. CASE Discover \/ UNCHANGED vars
    BY <1>2, <1>3, <1>11 DEF Discover, vars
  <1> QED BY <1>5, <1>6, <1>7, <1>8, <1>9, <1>10, <1>11 DEF Next, Peers, Network, Client

\* and a session has made a request while it waits for one.
Asking == \A s \in Sessions : waiting[s] => Made(s) # 0

\* A request is begun before it is waited for.
LEMMA AskingNext == Carried /\ Asking /\ [Next]_vars => Asking'
  <1> SUFFICES ASSUME Carried, Asking, [Next]_vars PROVE Asking'
    OBVIOUS
  <1>1. ASSUME UNCHANGED <<requests, waiting>> PROVE Asking'
    BY <1>1 DEF Asking, Made
  <1>2. ASSUME NEW s \in Sessions, NEW service \in Services, StartRequest(s, service) PROVE Asking'
    <2>1. Len(Append(requests[s], service)) = Made(s) + 1 /\ Made(s) \in Nat
      BY DEF Carried, Made
    <2> QED BY <1>2, <2>1 DEF StartRequest, Asking, Made, Carried
  <1>3. ASSUME NEW s \in Sessions, TimeOut(s) \/ PollRequest(s) PROVE Asking'
    BY <1>3 DEF TimeOut, PollRequest, Asking, Made, Carried
  <1>4. ASSUME NEW s \in Sources, Change(s) \/ SendNotification(s) PROVE Asking'
    BY <1>1, <1>4 DEF Change, SendNotification
  <1>5. ASSUME Network PROVE Asking'
    BY <1>1, <1>5 DEF Network, NotificationArrives, AnswerArrives
  <1>6. ASSUME NEW sub \in Subscriptions, PollSubscription(sub) PROVE Asking'
    BY <1>1, <1>6 DEF PollSubscription, TakePending, TakeQueued, TakeArrived
  <1>7. CASE Discover \/ UNCHANGED vars
    BY <1>1, <1>7 DEF Discover, vars
  <1> QED BY <1>2, <1>3, <1>4, <1>5, <1>6, <1>7 DEF Next, Peers, Client

\* What ends the wait of a session by a datagram is an answer its poll accepts.
LEMMA EndedByAnswer ==
    ASSUME Carried, AnswersAreCurrent, Asking, [Next]_vars,
           NEW s \in Sessions, waiting[s], ~waiting'[s], inbox' # inbox
    PROVE  /\ inbox # <<>> /\ Accepts(Head(inbox), s)
           /\ Head(inbox).to.peer = s => Head(inbox).to.number = Made(s)
           /\ Head(inbox) \in Answers
  <1>1. PollRequest(s)
    <2>1. ASSUME NEW p \in Sessions, PollRequest(p) PROVE p = s
      BY <2>1 DEF PollRequest, Carried
    <2>2. waiting' # waiting
      OBVIOUS
    <2>3. ASSUME NEW p \in Sessions, TimeOut(p) PROVE FALSE
      BY <2>3 DEF TimeOut
    <2>4. ASSUME NEW p \in Sessions, NEW service, StartRequest(p, service) PROVE FALSE
      BY <2>4 DEF StartRequest
    <2>5. ASSUME NEW sub, PollSubscription(sub) PROVE FALSE
      BY <2>2, <2>5 DEF PollSubscription, TakePending, TakeQueued, TakeArrived
    <2>6. ~Network /\ ~Discover /\ ~UNCHANGED vars
      BY <2>2 DEF Network, NotificationArrives, AnswerArrives, Discover, vars
    <2>7. ~Peers
      BY <2>2 DEF Peers, Change, SendNotification
    <2> QED BY <2>1, <2>3, <2>4, <2>5, <2>6, <2>7 DEF Next, Client
  <1> DEFINE d == Head(inbox)
  <1>2. inbox # <<>> /\ Accepts(d, s)
    BY <1>1 DEF PollRequest, Carried
  <1>3. d = inbox[1] /\ 1 \in DOMAIN inbox /\ d \in sent \cup Answers
    BY <1>2 DEF Carried
  <1>4. d \in Answers
    BY <1>2, <1>3 DEF Accepts, Carried, Notifications
  <1>5. d.to.peer = s => d.to.number = Made(s)
    <2> SUFFICES ASSUME d.to.peer = s PROVE d.to.number = Made(s)
      OBVIOUS
    <2>1. Current(s, d)
      BY <1>2, <1>3 DEF Accepts, AnswersAreCurrent
    <2>2. Made(s) \in Nat \ {0} /\ d.to.number \in Nat \ {0} /\ d.to.number <= Made(s)
      BY <2>1 DEF Asking, Current, Made, Carried
    <2> QED BY <1>2, <2>1, <2>2, InvokeIdTells DEF Accepts, Current
  <1> QED BY <1>2, <1>4, <1>5

\* Answers and requests hold together from the start.
LEMMA RequestsInvariance == Spec => [](AnswersAreCurrent /\ Asking)
  <1>1. Init => AnswersAreCurrent /\ Asking
    BY DEF Init, AnswersAreCurrent, Asking
  <1> QED BY <1>1, AnswersStayCurrent, AskingNext, EverythingCameFromAPeer, PTL DEF Spec

\* A client with one session, or whose sessions only register, takes no answer
\* for that to another request: the one-octet invoke id, and for SubscribeCOV the
\* source, are enough as long as no answer is a whole round of ids late.
THEOREM RequestsGetTheirOwnAnswer ==
    ASSUME (\A s, t \in Sessions : s = t) \/ Services \subseteq {"SubscribeCov"}
    PROVE  Spec => AnswersAreOwn
  <1> DEFINE Step == \A s \in Sessions :
                        waiting[s] /\ ~waiting'[s] /\ inbox' # inbox =>
                            Head(inbox).to = [peer |-> s, number |-> Made(s)]
  <1>1. Carried /\ AnswersAreCurrent /\ Asking /\ [Next]_vars => [Step]_vars
    <2> SUFFICES ASSUME Carried, AnswersAreCurrent, Asking, [Next]_vars, NEW s \in Sessions,
                        waiting[s], ~waiting'[s], inbox' # inbox
                 PROVE  Head(inbox).to = [peer |-> s, number |-> Made(s)]
      OBVIOUS
    <2>1. /\ Accepts(Head(inbox), s) /\ Head(inbox) \in Answers
          /\ Head(inbox).to.peer = s => Head(inbox).to.number = Made(s)
      BY EndedByAnswer
    <2>2. Head(inbox).to \in Request /\ Head(inbox).service \in Services
      BY <2>1 DEF Answers
    <2>3. Head(inbox).to.peer = s
      BY <2>1, <2>2 DEF Accepts, Request
    <2> QED BY <2>1, <2>2, <2>3 DEF Request
  <1>2. Spec => [][Step]_vars
    <2> HIDE DEF Step
    <2> QED BY <1>1, RequestsInvariance, EverythingCameFromAPeer, PTL DEF Spec
  <1> QED BY <1>2 DEF AnswersAreOwn

-----------------------------------------------------------------------------
\* The order of the notifications for one handle u.

IsFor(x, u) == x.kind = "Notification" /\ x.sub = u

Elements(queue) == {queue[k] : k \in DOMAIN queue}

InOrder(queue, u) ==
    \A j, k \in DOMAIN queue :
        j < k /\ IsFor(queue[j], u) /\ IsFor(queue[k], u) => queue[j].value <= queue[k].value

Before(A, B, u) ==
    \A x \in A, y \in B : IsFor(x, u) /\ IsFor(y, u) => x.value <= y.value

\* Queue thin holds nothing that queue does not, in the same order.
Thinner(thin, queue, u) ==
    /\ Elements(thin) \subseteq Elements(queue)
    /\ InOrder(queue, u) => InOrder(thin, u)

\* What a queue loses from its head, or anywhere, leaves the order of the rest.
LEMMA TailIsThinner ==
    ASSUME NEW S, NEW queue \in Seq(S), queue # <<>>, NEW u
    PROVE  /\ Thinner(Tail(queue), queue, u)
           /\ Head(queue) \in Elements(queue)
           /\ InOrder(queue, u) => Before({Head(queue)}, Elements(Tail(queue)), u)
  <1>1. /\ Tail(queue) \in Seq(S) /\ Head(queue) = queue[1] /\ 1 \in DOMAIN queue
        /\ \A k \in DOMAIN Tail(queue) :
              k \in Nat /\ k + 1 \in DOMAIN queue /\ 1 < k + 1 /\ Tail(queue)[k] = queue[k + 1]
    OBVIOUS
  <1>2. Elements(Tail(queue)) \subseteq Elements(queue) /\ Head(queue) \in Elements(queue)
    BY <1>1 DEF Elements
  <1>3. ASSUME InOrder(queue, u) PROVE InOrder(Tail(queue), u)
    <2> SUFFICES ASSUME NEW j \in DOMAIN Tail(queue), NEW k \in DOMAIN Tail(queue), j < k,
                        IsFor(Tail(queue)[j], u), IsFor(Tail(queue)[k], u)
                 PROVE  Tail(queue)[j].value <= Tail(queue)[k].value
      BY DEF InOrder
    <2>1. j + 1 < k + 1
      BY <1>1
    <2> QED BY <1>1, <1>3, <2>1 DEF InOrder
  <1>4. ASSUME InOrder(queue, u) PROVE Before({Head(queue)}, Elements(Tail(queue)), u)
    BY <1>1, <1>4 DEF InOrder, Before, Elements
  <1> QED BY <1>2, <1>3, <1>4 DEF Thinner

LEMMA RemoveIsThinner ==
    ASSUME NEW S, NEW queue \in Seq(S), NEW k \in DOMAIN queue, NEW u
    PROVE  Thinner(RemoveAt(queue, k), queue, u)
  <1> DEFINE rest == RemoveAt(queue, k)
             left == SubSeq(queue, 1, k - 1)
             right == SubSeq(queue, k + 1, Len(queue))
             from(i) == IF i < k THEN i ELSE i + 1
  <1>1. k \in 1..Len(queue) /\ Len(queue) \in Nat /\ DOMAIN queue = 1..Len(queue)
    OBVIOUS
  <1>2. left \in Seq(S) /\ Len(left) = k - 1 /\ \A i \in 1..(k - 1) : left[i] = queue[i]
    BY <1>1
  <1>3. /\ right \in Seq(S) /\ Len(right) = Len(queue) - k
        /\ \A i \in 1..(Len(queue) - k) : right[i] = queue[k + i]
    BY <1>1
  <1>4. rest = left \o right
    BY DEF RemoveAt
  <1> HIDE DEF rest, left, right
  <1>5. ASSUME NEW i \in DOMAIN rest
        PROVE  i \in Int /\ from(i) \in DOMAIN queue /\ rest[i] = queue[from(i)]
    <2>1. i \in 1..(Len(queue) - 1) /\ rest[i] = IF i <= k - 1 THEN left[i] ELSE right[i - (k - 1)]
      BY <1>1, <1>2, <1>3, <1>4
    <2>2. CASE i < k
      <3>1. i \in 1..(k - 1) /\ i <= k - 1 /\ from(i) = i
        BY <1>1, <2>1, <2>2
      <3> QED BY <1>1, <1>2, <2>1, <3>1
    <2>3. CASE ~(i < k)
      <3>1. /\ i - (k - 1) \in 1..(Len(queue) - k) /\ k + (i - (k - 1)) = i + 1
            /\ ~(i <= k - 1) /\ from(i) = i + 1 /\ i + 1 \in 1..Len(queue) /\ i \in Int
        BY <1>1, <2>1, <2>3
      <3> HIDE DEF from
      <3> QED BY <1>1, <1>3, <2>1, <3>1
    <2> QED BY <2>2, <2>3
  <1>6. ASSUME NEW i \in Int, NEW j \in Int, i < j PROVE from(i) < from(j)
    BY <1>1, <1>6
  <1> HIDE DEF rest, from
  <1>7. Elements(rest) \subseteq Elements(queue)
    BY <1>5 DEF Elements
  <1>8. InOrder(queue, u) => InOrder(rest, u)
    BY <1>5, <1>6 DEF InOrder
  <1> QED BY <1>7, <1>8 DEF Thinner, rest

\* What a queue takes at its end keeps the order when it is not older than the rest.
LEMMA AppendInOrder ==
    ASSUME NEW S, NEW queue \in Seq(S), NEW n \in S, NEW u,
           InOrder(queue, u), Before(Elements(queue), {n}, u)
    PROVE  /\ InOrder(Append(queue, n), u)
           /\ Elements(Append(queue, n)) \subseteq Elements(queue) \cup {n}
  <1>1. \A k \in DOMAIN Append(queue, n) :
           \/ k \in DOMAIN queue /\ Append(queue, n)[k] = queue[k]
           \/ k = Len(queue) + 1 /\ Append(queue, n)[k] = n
    OBVIOUS
  <1>2. \A k \in DOMAIN queue : k \in Int /\ k < Len(queue) + 1
    OBVIOUS
  <1>3. Elements(Append(queue, n)) \subseteq Elements(queue) \cup {n}
    BY <1>1 DEF Elements
  <1>4. ASSUME NEW j \in DOMAIN Append(queue, n), NEW k \in DOMAIN Append(queue, n), j < k,
               IsFor(Append(queue, n)[j], u), IsFor(Append(queue, n)[k], u)
        PROVE  Append(queue, n)[j].value <= Append(queue, n)[k].value
    <2>1. j \in DOMAIN queue /\ Append(queue, n)[j] = queue[j]
      BY <1>1, <1>2, <1>4
    <2>2. CASE k \in DOMAIN queue /\ Append(queue, n)[k] = queue[k]
      BY <1>4, <2>1, <2>2 DEF InOrder
    <2>3. CASE Append(queue, n)[k] = n
      BY <1>4, <2>1, <2>3 DEF Before, Elements
    <2> QED BY <1>1, <2>2, <2>3
  <1> QED BY <1>3, <1>4 DEF InOrder

\* So it does when the oldest has to go.
LEMMA EnqueueInOrder ==
    ASSUME NEW S, NEW queue \in Seq(S), NEW n \in S, NEW u,
           InOrder(queue, u), Before(Elements(queue), {n}, u)
    PROVE  /\ InOrder(Enqueue(queue, n), u)
           /\ Elements(Enqueue(queue, n)) \subseteq Elements(queue) \cup {n}
  <1>1. CASE Len(queue) = QueueSize
    <2>1. queue # <<>>
      BY <1>1, ClientReceiveAssumption
    <2>2. Tail(queue) \in Seq(S)
      BY <2>1
    <2>3. Thinner(Tail(queue), queue, u)
      BY <2>1, TailIsThinner
    <2>4. InOrder(Tail(queue), u) /\ Before(Elements(Tail(queue)), {n}, u)
      BY <2>3 DEF Thinner, Before
    <2> QED BY <1>1, <2>2, <2>3, <2>4, AppendInOrder DEF Enqueue, Thinner
  <1>2. CASE Len(queue) # QueueSize
    BY <1>2, AppendInOrder DEF Enqueue
  <1> QED BY <1>1, <1>2

-----------------------------------------------------------------------------
\* The three queues that a notification for u passes through stand in line: the
\* session's, the client's and the transport's, none older than low, none newer
\* than high.
Lined(own, shared, arriving, u, low, high) ==
    /\ InOrder(own, u) /\ InOrder(shared, u) /\ InOrder(arriving, u)
    /\ Before(Elements(own), Elements(shared), u)
    /\ Before(Elements(own), Elements(arriving), u)
    /\ Before(Elements(shared), Elements(arriving), u)
    /\ \A x \in Elements(own) \cup Elements(shared) \cup Elements(arriving) :
          IsFor(x, u) => low <= x.value /\ x.value <= high

Line(u, low, high) == Lined(pending[u.peer], queued, inbox, u, low, high)

InLine ==
    \A u \in Subscriptions \cap Sources : Line(u, known[u], told[u]) /\ known[u] <= told[u]

\* Queues that lose something stay in line.
LEMMA ThinnerStaysLined ==
    ASSUME NEW own, NEW shared, NEW arriving, NEW u, NEW low, NEW high, NEW newLow, NEW newHigh,
           Lined(own, shared, arriving, u, low, high),
           NEW own2, NEW shared2, NEW arriving2,
           Thinner(own2, own, u), Thinner(shared2, shared, u), Thinner(arriving2, arriving, u),
           \A x \in Elements(own2) \cup Elements(shared2) \cup Elements(arriving2) :
               IsFor(x, u) => newLow <= x.value /\ x.value <= newHigh
    PROVE  Lined(own2, shared2, arriving2, u, newLow, newHigh)
  BY DEF Lined, Thinner, Before

LEMMA ThinnerKeepsBounds ==
    ASSUME NEW own, NEW shared, NEW arriving, NEW u, NEW low, NEW high,
           Lined(own, shared, arriving, u, low, high),
           NEW own2, NEW shared2, NEW arriving2,
           Thinner(own2, own, u), Thinner(shared2, shared, u), Thinner(arriving2, arriving, u)
    PROVE  Lined(own2, shared2, arriving2, u, low, high)
  BY DEF Lined, Thinner, Before

\* The oldest that is taken from the transport's queue stands at the end of the
\* client's, and of the session's when the client's is empty.
LEMMA TakenFromArriving ==
    ASSUME NEW S, NEW own, NEW shared \in Seq(S), NEW arriving \in Seq(S), arriving # <<>>,
           NEW u, NEW low, NEW high, Lined(own, shared, arriving, u, low, high)
    PROVE  Lined(own, Enqueue(shared, Head(arriving)), Tail(arriving), u, low, high)
  <1> DEFINE n == Head(arriving)
  <1>1. n \in S
    OBVIOUS
  <1>2. /\ Thinner(Tail(arriving), arriving, u) /\ n \in Elements(arriving)
        /\ Before({n}, Elements(Tail(arriving)), u)
    BY TailIsThinner DEF Lined
  <1>3. Before(Elements(shared), {n}, u) /\ Before(Elements(own), {n}, u)
    BY <1>2 DEF Lined, Before
  <1>4. /\ InOrder(Enqueue(shared, n), u)
        /\ Elements(Enqueue(shared, n)) \subseteq Elements(shared) \cup {n}
    BY <1>1, <1>3, EnqueueInOrder DEF Lined
  <1> HIDE DEF n
  <1>5. Lined(own, Enqueue(shared, n), Tail(arriving), u, low, high)
    BY <1>2, <1>3, <1>4 DEF Lined, Before, Thinner
  <1> QED BY <1>5 DEF n

LEMMA TakenFromShared ==
    ASSUME NEW S, NEW own \in Seq(S), NEW shared \in Seq(S), NEW arriving, shared # <<>>,
           NEW u, NEW low, NEW high, Lined(own, shared, arriving, u, low, high)
    PROVE  Lined(Enqueue(own, Head(shared)), Tail(shared), arriving, u, low, high)
  <1> DEFINE n == Head(shared)
  <1>1. n \in S
    OBVIOUS
  <1>2. /\ Thinner(Tail(shared), shared, u) /\ n \in Elements(shared)
        /\ Before({n}, Elements(Tail(shared)), u)
    BY TailIsThinner DEF Lined
  <1>3. Before(Elements(own), {n}, u) /\ Before({n}, Elements(arriving), u)
    BY <1>2 DEF Lined, Before
  <1>4. /\ InOrder(Enqueue(own, n), u)
        /\ Elements(Enqueue(own, n)) \subseteq Elements(own) \cup {n}
    BY <1>1, <1>3, EnqueueInOrder DEF Lined
  <1> HIDE DEF n
  <1>5. Lined(Enqueue(own, n), Tail(shared), arriving, u, low, high)
    BY <1>2, <1>3, <1>4 DEF Lined, Before, Thinner
  <1> QED BY <1>5 DEF n

LEMMA TakenPastShared ==
    ASSUME NEW S, NEW own \in Seq(S), NEW shared, NEW arriving \in Seq(S), arriving # <<>>,
           shared = <<>>,
           NEW u, NEW low, NEW high, Lined(own, shared, arriving, u, low, high)
    PROVE  Lined(Enqueue(own, Head(arriving)), shared, Tail(arriving), u, low, high)
  <1> DEFINE n == Head(arriving)
  <1>1. n \in S /\ Elements(shared) = {}
    BY DEF Elements
  <1>2. /\ Thinner(Tail(arriving), arriving, u) /\ n \in Elements(arriving)
        /\ Before({n}, Elements(Tail(arriving)), u)
    BY TailIsThinner DEF Lined
  <1>3. Before(Elements(own), {n}, u)
    BY <1>2 DEF Lined, Before
  <1>4. /\ InOrder(Enqueue(own, n), u)
        /\ Elements(Enqueue(own, n)) \subseteq Elements(own) \cup {n}
    BY <1>1, <1>3, EnqueueInOrder DEF Lined
  <1> HIDE DEF n
  <1>5. Lined(Enqueue(own, n), shared, Tail(arriving), u, low, high)
    BY <1>1, <1>2, <1>3, <1>4 DEF Lined, Before, Thinner
  <1> QED BY <1>5 DEF n

\* What a step has to show of a handle: its queues stay in line and its value has
\* not gone back.
Forwards(u) ==
    /\ Lined(pending'[u.peer], queued', inbox', u, known'[u], told'[u])
    /\ known[u] <= known'[u] /\ known'[u] <= told'[u]

\* The ranges that a handle's step needs.
LEMMA HandleRanges ==
    ASSUME Carried, Bounded, InLine, NEW u \in Subscriptions \cap Sources
    PROVE  /\ u.peer \in Sessions /\ pending[u.peer] \in Seq(sent \cup Answers)
           /\ inbox \in Seq(sent \cup Answers) /\ queued \in Seq(sent \cup Answers)
           /\ known[u] \in Int /\ told[u] \in Int
           /\ Line(u, known[u], told[u]) /\ known[u] <= told[u]
           /\ \A x \in sent : x.kind = "Notification" /\ x.value \in Int
           /\ \A x \in sent \cup Answers : IsFor(x, u) => x.value \in Int
  <1>1. u.peer \in Sessions
    BY ClientReceiveAssumption
  <1>2. queued \in Seq(sent \cup Answers) /\ pending[u.peer] \in Seq(sent \cup Answers)
    BY <1>1, SeqGrows DEF Carried
  <1>3. known[u] \in Int /\ told[u] \in Int
    BY ClientReceiveAssumption DEF Carried, Bounded
  <1>4. \A x \in sent : x.kind = "Notification" /\ x.value \in Int
    BY ClientReceiveAssumption DEF Carried, Notifications
  <1>5. \A x \in sent \cup Answers : IsFor(x, u) => x.value \in Int
    BY <1>4 DEF IsFor, Answers
  <1> QED BY <1>1, <1>2, <1>3, <1>4, <1>5 DEF Carried, InLine

\* A queue is no thicker than itself.
LEMMA ThinnerItself == \A queue, u : Thinner(queue, queue, u)
  BY DEF Thinner

\* While the network keeps the order, what a peer sends is the newest of its line.
LEMMA PeersKeepLine ==
    ASSUME Carried, Bounded, InLine, Ordered, NEW u \in Subscriptions \cap Sources,
           \/ Peers
           \/ \E n \in sent : NotificationArrives(n)
           \/ \E s \in Sessions : \E k \in 1..MaxRequests : AnswerArrives(s, k)
    PROVE  Forwards(u)
  <1> USE HandleRanges
  <1>1. ASSUME NEW s \in Sources, Change(s) PROVE Forwards(u)
    BY <1>1 DEF Change, Forwards, Line
  <1>2. ASSUME NEW s \in Sources, SendNotification(s) PROVE Forwards(u)
    <2>1. told'[u] \in Int /\ told[u] <= told'[u]
      BY <1>2, ClientReceiveAssumption DEF SendNotification, Carried
    <2>2. \A x \in Elements(pending[u.peer]) \cup Elements(queued) \cup Elements(inbox) :
             x \in sent \cup Answers
      BY DEF Elements
    <2>3. Line(u, known[u], told'[u])
      BY <2>1, <2>2 DEF Line, Lined
    <2> QED BY <1>2, <2>1, <2>3 DEF SendNotification, Forwards, Line
  <1>3. ASSUME NEW d \in sent \cup Answers, inbox' = Append(inbox, d),
               UNCHANGED <<pending, queued, known, told>>, IsFor(d, u) => d.value = told[u]
        PROVE  Forwards(u)
    <2>1. inbox \in Seq(sent \cup Answers \cup {d})
      BY SeqGrows DEF Carried
    <2>2. /\ Before(Elements(inbox), {d}, u) /\ Before(Elements(queued), {d}, u)
          /\ Before(Elements(pending[u.peer]), {d}, u)
      BY <1>3 DEF Before, Line, Lined
    <2>3. InOrder(inbox', u) /\ Elements(inbox') \subseteq Elements(inbox) \cup {d}
      BY <1>3, <2>1, <2>2, AppendInOrder DEF Line, Lined
    <2> QED BY <1>3, <2>2, <2>3 DEF Forwards, Line, Lined, Before
  <1>4. ASSUME NEW n \in sent, NotificationArrives(n) PROVE Forwards(u)
    BY <1>3, <1>4 DEF NotificationArrives, IsFor
  <1>5. ASSUME NEW s \in Sessions, NEW k \in 1..MaxRequests, AnswerArrives(s, k) PROVE Forwards(u)
    <2>1. Answer(s, k) \in Answers /\ ~IsFor(Answer(s, k), u)
      BY <1>5 DEF AnswerArrives, Answer, Answers, Request, IsFor, Made, Carried
    <2> QED BY <1>3, <1>5, <2>1 DEF AnswerArrives
  <1> QED BY <1>1, <1>2, <1>4, <1>5 DEF Peers

\* The session's own queue: what is handed over is the oldest for the handle.
LEMMA PendingKeepsLine ==
    ASSUME Carried, Bounded, InLine, AcksSent, NEW u \in Subscriptions \cap Sources,
           NEW sub \in Subscriptions, TakePending(sub)
    PROVE  Forwards(u)
  <1> USE HandleRanges
  <1> DEFINE own == pending[sub.peer]
  <1>1. PICK k \in DOMAIN own :
           /\ Matches(own[k], sub)
           /\ \A j \in 1..(k - 1) : ~Matches(own[j], sub)
           /\ Forward(sub, own[k], RemoveAt(own, k))
    BY DEF TakePending
  <1>2. HandOver(sub, own[k]) /\ pending' = [pending EXCEPT ![sub.peer] = RemoveAt(own, k)]
    BY <1>1 DEF Forward
  <1>3. own \in Seq(sent) /\ own[k] \in sent /\ k \in Nat /\ DOMAIN own \subseteq Nat \ {0}
    BY ClientReceiveAssumption DEF Carried
  <1>4. Thinner(RemoveAt(own, k), own, u)
    BY <1>3, RemoveIsThinner
  <1>5. /\ pending'[u.peer] = IF u.peer = sub.peer THEN RemoveAt(own, k) ELSE pending[u.peer]
        /\ UNCHANGED <<queued, inbox, told>>
    BY <1>2 DEF TakePending, Carried
  <1>6. Thinner(pending'[u.peer], pending[u.peer], u)
    BY <1>4, <1>5, ThinnerItself
  <1>7. CASE u = sub
    <2>1. known'[u] = own[k].value /\ IsFor(own[k], u) /\ own[k] \in Elements(own)
      BY <1>1, <1>2, <1>3, <1>7 DEF HandOver, Bounded, Matches, IsFor, Elements
    <2>2. known[u] <= own[k].value /\ own[k].value <= told[u] /\ own[k].value \in Int
      BY <1>3, <1>7, <2>1 DEF Line, Lined
    <2>3. ASSUME NEW j \in DOMAIN own, IsFor(own[j], u) PROVE own[k].value <= own[j].value
      <3>1. j \in Nat \ {0} /\ ~(j \in 1..(k - 1))
        BY <1>1, <1>3, <1>7, <2>3 DEF Matches, IsFor
      <3>2. j = k \/ k < j
        BY <1>3, <3>1
      <3>3. InOrder(own, u)
        BY <1>7 DEF Line, Lined
      <3>4. CASE k < j
        BY <2>1, <2>3, <3>3, <3>4 DEF InOrder
      <3>5. CASE j = k
        BY <2>2, <3>5
      <3> QED BY <3>2, <3>4, <3>5
    <2>4. \A x \in Elements(own) \cup Elements(queued) \cup Elements(inbox) :
             IsFor(x, u) => own[k].value <= x.value /\ x.value <= told[u]
      BY <1>7, <2>1, <2>3 DEF Line, Lined, Before, Elements
    <2>5. Lined(pending'[u.peer], queued, inbox, u, own[k].value, told[u])
      <3> HIDE DEF own
      <3> QED BY <1>4, <1>5, <1>7, <2>4, ThinnerItself, ThinnerStaysLined DEF Line, Thinner, own
    <2> QED BY <1>5, <2>1, <2>2, <2>5 DEF Forwards
  <1>8. CASE u # sub
    <2>1. known'[u] = known[u]
      BY <1>2, <1>8 DEF HandOver, Bounded
    <2>2. Lined(pending'[u.peer], queued, inbox, u, known[u], told[u])
      BY <1>6, ThinnerItself, ThinnerKeepsBounds DEF Line
    <2> QED BY <1>5, <2>1, <2>2 DEF Forwards
  <1> QED BY <1>7, <1>8

\* The client's queue: the oldest is handed over when the session holds none for
\* the handle, or stands behind what the session holds.
LEMMA QueuedKeepsLine ==
    ASSUME Carried, Bounded, InLine, AcksSent, NEW u \in Subscriptions \cap Sources,
           NEW sub \in Subscriptions, TakeQueued(sub)
    PROVE  Forwards(u)
  <1> USE HandleRanges
  <1> DEFINE n == Head(queued)
  <1>1. /\ queued # <<>> /\ queued' = Tail(queued) /\ ~IsWaitingFor(sub)
        /\ Forward(sub, n, pending[sub.peer]) /\ UNCHANGED <<inbox, told>>
    BY DEF TakeQueued
  <1>2. n \in sent
    BY <1>1 DEF Carried
  <1>3. /\ Thinner(Tail(queued), queued, u) /\ n \in Elements(queued)
        /\ Before({n}, Elements(Tail(queued)), u)
    BY <1>1, TailIsThinner DEF Line, Lined
  <1> HIDE DEF n
  <1>4. CASE Matches(n, sub)
    <2>1. HandOver(sub, n) /\ pending' = pending
      BY <1>1, <1>4 DEF Forward, Carried
    <2>2. CASE u = sub
      <3>1. known'[u] = n.value /\ IsFor(n, u)
        BY <1>2, <1>4, <2>1, <2>2 DEF HandOver, Bounded, Matches, IsFor
      <3>2. known[u] <= n.value /\ n.value <= told[u]
        BY <1>3, <3>1 DEF Line, Lined
      <3>3. \A x \in Elements(pending[u.peer]) : ~IsFor(x, u)
        BY <1>1, <2>2 DEF IsWaitingFor, Matches, IsFor, Elements
      <3>4. \A x \in Elements(pending[u.peer]) \cup Elements(Tail(queued)) \cup Elements(inbox) :
               IsFor(x, u) => n.value <= x.value /\ x.value <= told[u]
        BY <1>3, <3>1, <3>3 DEF Line, Lined, Before, Thinner
      <3>5. Lined(pending[u.peer], Tail(queued), inbox, u, n.value, told[u])
        BY <1>3, <3>4, ThinnerItself, ThinnerStaysLined DEF Line
      <3> QED BY <1>1, <2>1, <3>1, <3>2, <3>5 DEF Forwards
    <2>3. CASE u # sub
      <3>1. known'[u] = known[u]
        BY <2>1, <2>3 DEF HandOver, Bounded
      <3>2. Lined(pending[u.peer], Tail(queued), inbox, u, known[u], told[u])
        BY <1>3, ThinnerItself, ThinnerKeepsBounds DEF Line
      <3> QED BY <1>1, <2>1, <3>1, <3>2 DEF Forwards
    <2> QED BY <2>2, <2>3
  <1>5. CASE ~Matches(n, sub)
    <2>1. /\ pending' = [pending EXCEPT ![sub.peer] = Enqueue(pending[sub.peer], n)]
          /\ known' = known
      BY <1>1, <1>5 DEF Forward
    <2>2. CASE u.peer = sub.peer
      <3>1. Lined(Enqueue(pending[u.peer], n), Tail(queued), inbox, u, known[u], told[u])
        BY <1>1, TakenFromShared DEF Line, n
      <3> QED BY <1>1, <2>1, <2>2, <3>1 DEF Forwards, Carried
    <2>3. CASE u.peer # sub.peer
      <3>1. Lined(pending[u.peer], Tail(queued), inbox, u, known[u], told[u])
        BY <1>3, ThinnerItself, ThinnerKeepsBounds DEF Line
      <3> QED BY <1>1, <2>1, <2>3, <3>1 DEF Forwards, Carried
    <2> QED BY <2>2, <2>3
  <1> QED BY <1>4, <1>5

\* The transport's queue, of which a subscription's poll takes only when the
\* client's is empty.
LEMMA ArrivedKeepsLine ==
    ASSUME Carried, Bounded, InLine, AcksSent, NEW u \in Subscriptions \cap Sources,
           NEW sub \in Subscriptions, TakeArrived(sub)
    PROVE  Forwards(u)
  <1> USE HandleRanges
  <1> DEFINE n == Head(inbox)
  <1>1. /\ inbox # <<>> /\ inbox' = Tail(inbox) /\ ~IsWaitingFor(sub) /\ queued = <<>>
        /\ UNCHANGED <<queued, told>> /\ n \in sent \cup Answers
        /\ IF n.kind = "Notification"
           THEN Forward(sub, n, pending[sub.peer])
           ELSE UNCHANGED <<pending, known>>
    BY DEF TakeArrived, Carried
  <1>2. /\ Thinner(Tail(inbox), inbox, u) /\ n \in Elements(inbox)
        /\ Before({n}, Elements(Tail(inbox)), u)
    BY <1>1, TailIsThinner DEF Line, Lined
  <1>3. Elements(queued) = {}
    BY <1>1 DEF Elements
  <1>4. Lined(pending[u.peer], queued, Tail(inbox), u, known[u], told[u])
    BY <1>2, ThinnerItself, ThinnerKeepsBounds DEF Line
  <1> HIDE DEF n
  <1>5. CASE n.kind # "Notification"
    BY <1>1, <1>4, <1>5 DEF Forwards
  <1>6. CASE n.kind = "Notification" /\ Matches(n, sub)
    <2>1. HandOver(sub, n) /\ pending' = pending
      BY <1>1, <1>6 DEF Forward, Carried
    <2>2. CASE u = sub
      <3>1. known'[u] = n.value /\ IsFor(n, u)
        BY <1>6, <2>1, <2>2 DEF HandOver, Bounded, Matches, IsFor
      <3>2. known[u] <= n.value /\ n.value <= told[u]
        BY <1>2, <3>1 DEF Line, Lined
      <3>3. \A x \in Elements(pending[u.peer]) : ~IsFor(x, u)
        BY <1>1, <2>2 DEF IsWaitingFor, Matches, IsFor, Elements
      <3>4. \A x \in Elements(pending[u.peer]) \cup Elements(queued) \cup Elements(Tail(inbox)) :
               IsFor(x, u) => n.value <= x.value /\ x.value <= told[u]
        BY <1>2, <1>3, <3>1, <3>3 DEF Line, Lined, Before, Thinner
      <3>5. Lined(pending[u.peer], queued, Tail(inbox), u, n.value, told[u])
        BY <1>2, <3>4, ThinnerItself, ThinnerStaysLined DEF Line
      <3> QED BY <1>1, <2>1, <3>1, <3>2, <3>5 DEF Forwards
    <2>3. CASE u # sub
      <3>1. known'[u] = known[u]
        BY <2>1, <2>3 DEF HandOver, Bounded
      <3> QED BY <1>1, <1>4, <2>1, <3>1 DEF Forwards
    <2> QED BY <2>2, <2>3
  <1>7. CASE n.kind = "Notification" /\ ~Matches(n, sub)
    <2>1. /\ pending' = [pending EXCEPT ![sub.peer] = Enqueue(pending[sub.peer], n)]
          /\ known' = known
      BY <1>1, <1>7 DEF Forward
    <2>2. CASE u.peer = sub.peer
      <3>1. Lined(Enqueue(pending[u.peer], n), queued, Tail(inbox), u, known[u], told[u])
        BY <1>1, TakenPastShared DEF Line, n
      <3> QED BY <1>1, <2>1, <2>2, <3>1 DEF Forwards, Carried
    <2>3. CASE u.peer # sub.peer
      BY <1>1, <1>4, <2>1, <2>3 DEF Forwards, Carried
    <2> QED BY <2>2, <2>3
  <1> QED BY <1>5, <1>6, <1>7

\* Every step keeps the line of every handle.
LEMMA LineNext ==
    ASSUME Carried, Bounded, InLine, Ordered, AcksSent, [Next]_vars,
           NEW u \in Subscriptions \cap Sources
    PROVE  Forwards(u)
  <1> USE HandleRanges
  <1>1. ASSUME UNCHANGED <<pending, queued, inbox, known, told>> PROVE Forwards(u)
    BY <1>1 DEF Forwards, Line
  <1>2. ASSUME inbox # <<>>, inbox' = Tail(inbox), UNCHANGED <<pending, queued, known, told>>
        PROVE  Forwards(u)
    <2>1. Thinner(Tail(inbox), inbox, u)
      BY <1>2, TailIsThinner
    <2>2. Lined(pending[u.peer], queued, Tail(inbox), u, known[u], told[u])
      BY <2>1, ThinnerItself, ThinnerKeepsBounds DEF Line
    <2> QED BY <1>2, <2>2 DEF Forwards
  <1>3. ASSUME NEW s \in Sessions, PollRequest(s) PROVE Forwards(u)
    <2>1. CASE queued' = queued
      BY <1>2, <1>3, <2>1 DEF PollRequest
    <2>2. CASE queued' = Enqueue(queued, Head(inbox))
      <3>1. Lined(pending[u.peer], Enqueue(queued, Head(inbox)), Tail(inbox), u, known[u], told[u])
        BY <1>3, TakenFromArriving DEF PollRequest, Line
      <3> QED BY <1>3, <2>2, <3>1 DEF PollRequest, Forwards
    <2> QED BY <1>3, <2>1, <2>2 DEF PollRequest
  <1>4. ASSUME NEW s \in Sessions, NEW service, StartRequest(s, service) \/ TimeOut(s)
        PROVE  Forwards(u)
    BY <1>1, <1>4 DEF StartRequest, TimeOut
  <1>5. ASSUME NEW sub \in Subscriptions, PollSubscription(sub) PROVE Forwards(u)
    BY <1>5, PendingKeepsLine, QueuedKeepsLine, ArrivedKeepsLine DEF PollSubscription
  <1>6. CASE Discover
    BY <1>2, <1>6 DEF Discover
  <1>7. CASE UNCHANGED vars
    BY <1>1, <1>7 DEF vars
  <1> QED BY <1>3, <1>4, <1>5, <1>6, <1>7, PeersKeepLine DEF Next, Network, Client

\* A handle whose source sends nothing is given nothing.
LEMMA NothingForStrangers ==
    ASSUME Carried, Bounded, [Next]_vars, NEW u \in Subscriptions \ Sources
    PROVE  known'[u] = known[u]
  <1>1. ASSUME NEW sub \in Subscriptions, NEW n \in sent, NEW rest, Forward(sub, n, rest)
        PROVE  known'[u] = known[u]
    <2>1. n.sub # u
      BY DEF Carried, Notifications
    <2> QED BY <1>1, <2>1 DEF Forward, HandOver, Matches, Bounded
  <1>2. ASSUME NEW sub \in Subscriptions, TakePending(sub) PROVE known'[u] = known[u]
    <2>1. PICK k \in DOMAIN pending[sub.peer] :
             Forward(sub, pending[sub.peer][k], RemoveAt(pending[sub.peer], k))
      BY <1>2 DEF TakePending
    <2>2. pending[sub.peer][k] \in sent
      BY ClientReceiveAssumption DEF Carried
    <2> QED BY <1>1, <2>1, <2>2
  <1>3. ASSUME NEW sub \in Subscriptions, TakeQueued(sub) PROVE known'[u] = known[u]
    <2>1. Head(queued) \in sent
      BY <1>3 DEF TakeQueued, Carried
    <2> QED BY <1>1, <1>3, <2>1 DEF TakeQueued
  <1>4. ASSUME NEW sub \in Subscriptions, TakeArrived(sub) PROVE known'[u] = known[u]
    <2>1. Head(inbox).kind = "Notification" => Head(inbox) \in sent
      BY <1>4 DEF TakeArrived, Carried, Answers
    <2> QED BY <1>1, <1>4, <2>1 DEF TakeArrived
  <1>5. CASE UNCHANGED known
    BY <1>5
  <1> QED BY <1>2, <1>3, <1>4, <1>5
          DEF Next, Peers, Network, Client, PollSubscription, Change, SendNotification,
              NotificationArrives, AnswerArrives, StartRequest, TimeOut, PollRequest, Discover, vars

\* On a network that keeps order a subscription's value never goes back, although
\* a notification may wait in the transport's queue, the client's or a session's,
\* each polled by whoever comes (takeCovNotification(), queueCovNotification()):
\* the order in which these are searched keeps the order of arrival.
THEOREM ValuesNeverTurnBack ==
    ASSUME Ordered, AcksSent
    PROVE  Spec => NeverBackwards
  <1> DEFINE Step == \A s \in Subscriptions : known'[s] >= known[s]
  <1>1. Init => InLine
    BY ClientReceiveAssumption
       DEF Init, InLine, Line, Lined, InOrder, Before, Elements
  <1>2. Carried /\ Bounded /\ InLine /\ [Next]_vars => InLine'
    BY LineNext DEF InLine, Line, Forwards
  <1>3. Carried /\ Bounded /\ InLine /\ [Next]_vars => [Step]_vars
    <2> SUFFICES ASSUME Carried, Bounded, InLine, [Next]_vars, NEW s \in Subscriptions
                 PROVE  known'[s] >= known[s]
      OBVIOUS
    <2>1. CASE s \in Sources
      <3>1. known[s] <= known'[s] /\ known'[s] <= told'[s]
        BY <2>1, LineNext DEF Forwards
      <3>2. known[s] \in Int
        BY ClientReceiveAssumption DEF Bounded
      <3> QED BY <3>1, <3>2
    <2>2. CASE s \notin Sources
      BY <2>2, NothingForStrangers, ClientReceiveAssumption DEF Bounded
    <2> QED BY <2>1, <2>2
  <1>4. Spec => [][Step]_vars
    <2> HIDE DEF Step
    <2> QED BY <1>1, <1>2, <1>3, BoundedInvariance, EverythingCameFromAPeer, PTL DEF Spec
  <1> QED BY <1>4 DEF NeverBackwards

=============================================================================
