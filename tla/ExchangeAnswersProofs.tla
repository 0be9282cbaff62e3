------------------------- MODULE ExchangeAnswersProofs -------------------------
(***************************************************************************)
(* What a poll makes of an answer is what the server answered: the proof   *)
(* of AnswersAreMeant.                                                     *)
(*                                                                         *)
(* Meant(octets) says of a datagram that no poll of the client takes it    *)
(* for anything but an answer the server gave to that very request.  The   *)
(* first parts show it of all that the server builds: an answer is heard   *)
(* under its own invoke id and service only, and with the value, the list  *)
(* or the error it was built from.  The invariant MeantInv says it of all  *)
(* that is on its way, so that losing, repeating and reordering datagrams  *)
(* change nothing.  That the server answers the request of that number is  *)
(* ServerReads and its like, from ExchangeInv.                             *)
(***************************************************************************)
EXTENDS ExchangeProofs

-----------------------------------------------------------------------------
\* What is heard of an answer.

\* An outcome that the server meant.
IsMeant(outcome, n, request, answers) ==
    outcome = Unheard \/ \E a \in answers : /\ outcome = Told(request, a[2], TRUE)
                                            /\ a[1] = n \/ outcome.heard = "IAm"
\* Octets that no poll of the client, for the n-th request or for one not
\* asked yet, takes for anything but what the server answered to it.
Meant(octets, requests, answers) ==
    \A n \in 1..MaxRequests, r \in Requests :
        (n \in 1..Len(requests) => r = requests[n]) => IsMeant(Outcome(octets, n, r), n, r, answers)

\* A request that the server hears is one that the client asked.
LEMMA RequestWasAsked ==
    ASSUME AskedInv, NEW d, IsSent(d, asked), d.to = "Server", ConfirmedHeader(d.octets).status = "Confirmed"
    PROVE  /\ d.number \in 1..Len(asked) /\ asked[d.number] \in Requests
           /\ d.octets = Requested(asked[d.number], d.number) /\ d.octets # <<>>
           /\ ConfirmedHeader(d.octets).invoke = d.number
           /\ ConfirmedHeader(d.octets).service = ServiceOf(asked[d.number])
           /\ asked[d.number].kind # "Discover"
<1>3. ASSUME NEW invoke, d.octets = BuildSimpleAck(16, invoke, ConfirmedCovNotification), d.octets # <<>>
      PROVE  FALSE
  BY <1>3, AcknowledgementIsNoRequest
<1>4. /\ d.number \in 1..Len(asked)
      /\ d.octets = Requested(asked[d.number], d.number) /\ d.octets # <<>>
  BY <1>3 DEF IsSent
<1> DEFINE request == asked[d.number]
<1>5. request \in Requests
  BY <1>4 DEF AskedInv
<1>6. /\ request.kind = "Write" => IsSendable(request.value)
      /\ request.kind \in {"Discover", "Read", "Write", "Subscribe", "Other"}
  BY <1>5, SendableRequests
<1> HIDE DEF request
<1>7. request.kind # "Discover"
  <2>1. request.kind = "Discover" => Requested(request, d.number) = BuildWhoIs(8)
    BY DEF Requested
  <2>. QED BY <1>4, <2>1, WhoIsIsNoRequest DEF request
<1>8. ConfirmedHeader(d.octets).invoke = d.number /\ ConfirmedHeader(d.octets).service = ServiceOf(request)
  <2>1. \E parameters : IsConfirmed(Requested(request, d.number), d.number, ServiceOf(request), parameters)
    <3>1. request.kind \in {"Read", "Write", "Subscribe", "Other"} /\ Requested(request, d.number) # <<>>
      BY <1>4, <1>6, <1>7 DEF request
    <3>. QED BY <1>6, <3>1, RequestedIsConfirmed
  <2>2. PICK parameters : IsConfirmed(d.octets, d.number, ServiceOf(request), parameters)
    BY <1>4, <2>1 DEF request
  <2>3. ConfirmedHeader(d.octets) = HeaderOf(d.number, ServiceOf(request), parameters)
    BY <2>2, ConfirmedRead
  <2>. QED BY <2>3, HeaderSays
<1>. QED BY <1>4, <1>5, <1>7, <1>8 DEF request

\* Its service says of which kind it is.
LEMMA KindOfService ==
    ASSUME NEW request \in Requests, request.kind # "Discover"
    PROVE  /\ ServiceOf(request) = ReadProperty => request.kind = "Read"
           /\ ServiceOf(request) = WriteProperty => request.kind = "Write"
           /\ ServiceOf(request) \in {SubscribeCov, SubscribeCovProperty} => request.kind = "Subscribe"
           /\ ServiceOf(request) \notin Served => request.kind = "Other"
<1>1. /\ request.kind \in {"Discover", "Read", "Write", "Subscribe", "Other"}
      /\ request.kind = "Other" => request.service \in 0..255 \ Served
  BY SendableRequests
<1>2. CASE request.kind = "Read"
  BY <1>2 DEF ServiceOf, Served, WriteProperty, ReadProperty, SubscribeCov, SubscribeCovProperty
<1>3. CASE request.kind = "Write"
  BY <1>3 DEF ServiceOf, Served, WriteProperty, ReadProperty, SubscribeCov, SubscribeCovProperty
<1>4. CASE request.kind = "Subscribe"
  BY <1>4 DEF ServiceOf, Served, WriteProperty, ReadProperty, SubscribeCov, SubscribeCovProperty
<1>5. CASE request.kind = "Other"
  <2>1. ServiceOf(request) = request.service
    BY <1>5 DEF ServiceOf
  <2>2. request.service \notin Served
    BY <1>1, <1>5
  <2>. QED BY <1>5, <2>1, <2>2 DEF Served
<1>. QED BY <1>1, <1>2, <1>3, <1>4, <1>5

\* An answer to a request of one invoke id.
IsAnswerTo(octets, m, pdu, rest) ==
    pdu \in {SimpleAck, ComplexAck, ErrorPdu, RejectPdu} /\ IsSequence(rest) /\ octets = Answer(pdu, m, rest)
\* The APDU of an answer.
IsAnswerApdu(apdu, m, pdu, rest) ==
    /\ IsSequence(apdu) /\ apdu # <<>> /\ Pdu(apdu) = pdu /\ apdu[2] = m /\ Len(apdu) = 2 + Len(rest)
    /\ From(apdu, 3) = rest /\ apdu[1] = 16 * pdu /\ apdu = <<16 * pdu, m>> \o rest
\* The APDU that every parser finds in octets.
Finds(octets, apdu) ==
    /\ Len(octets) = 6 + Len(apdu)
    /\ \A functions, least : (least \in Nat /\ Unicast \in functions /\ Len(apdu) + 6 >= least) =>
           Apdu(octets, functions, least) = apdu

\* The APDU of an answer is found in it.
LEMMA AnswerFound ==
    ASSUME NEW octets, NEW m, NEW pdu, NEW rest, IsAnswerTo(octets, m, pdu, rest)
    PROVE  \E apdu : IsAnswerApdu(apdu, m, pdu, rest) /\ Finds(octets, apdu)
<1> DEFINE apdu == <<16 * pdu, m>> \o rest
<1>1. pdu \in {2, 3, 5, 6} /\ IsSequence(rest) /\ octets = Answer(pdu, m, rest)
  <2>1. pdu \in {SimpleAck, ComplexAck, ErrorPdu, RejectPdu} /\ IsSequence(rest) /\ octets = Answer(pdu, m, rest)
    BY Zenon DEF IsAnswerTo
  <2>2. pdu \in {2, 3, 5, 6}
    BY <2>1 DEF SimpleAck, ComplexAck, ErrorPdu, RejectPdu
  <2>. QED BY <2>1, <2>2, Zenon
<1>2. /\ IsDatagram(octets, Unicast, 0, apdu)
      /\ apdu # <<>> /\ Pdu(apdu) = pdu /\ apdu[2] = m /\ Len(apdu) = 2 + Len(rest)
      /\ From(apdu, 3) = rest
  <2>1. pdu \in 0..15
    BY <1>1
  <2>2. LET q == <<16 * pdu, m>> \o rest IN
           /\ IsDatagram(Answer(pdu, m, rest), Unicast, 0, q)
           /\ q # <<>> /\ Pdu(q) = pdu /\ q[2] = m /\ Len(q) = 2 + Len(rest)
           /\ From(q, 3) = rest
    BY <1>1, <2>1, AnswerIsDatagram
  <2>. QED BY <1>1, <2>2, Zenon
<1>3. apdu[1] = 16 * pdu
  <2> DEFINE s == <<16 * pdu, m>>
  <2>1. IsSequence(s) /\ Len(s) = 2 /\ s[1] = 16 * pdu
    BY TupleIsSequence
  <2> HIDE DEF s
  <2>a. IsHeadOf(s, rest)
    BY <1>1, <2>1, HeadIsRead
  <2>2. \A i \in 1..Len(s) : (s \o rest)[i] = s[i]
    BY <2>a DEF IsHeadOf
  <2>3. (s \o rest)[1] = s[1]
    BY <2>1, <2>2
  <2>. QED BY <2>1, <2>3 DEF s
<1>8. apdu = <<16 * pdu, m>> \o rest
  OBVIOUS
<1> HIDE DEF apdu
<1>4. Carries(octets, Unicast, apdu) /\ IsSequence(apdu) /\ octets = Datagram(Unicast, 0, apdu)
  <2>1. Carries(octets, Unicast, apdu)
    BY <1>2, DatagramRead
  <2>. QED BY <1>2, <2>1, Zenon DEF IsDatagram
<1>5. Len(octets) = 6 + Len(apdu)
  <2> DEFINE length == Len(apdu) + 6
             head == <<129, Unicast, length \div 256, length % 256, 1, 0>>
  <2>1. IsSequence(head) /\ Len(head) = 6
    BY TupleIsSequence
  <2>2. octets = head \o apdu
    BY <1>4 DEF Datagram
  <2> HIDE DEF head
  <2>3. Len(head \o apdu) = Len(head) + Len(apdu)
    <3>1. IsSequence(head) /\ IsSequence(apdu)
      BY <1>4, <2>1
    <3>. QED BY <3>1, SequencesJoin
  <2>. QED BY <2>1, <2>2, <2>3
<1>6. Finds(octets, apdu)
  BY <1>4, <1>5, Zenon DEF Finds, Carries
<1>7. IsAnswerApdu(apdu, m, pdu, rest)
  BY <1>2, <1>3, <1>4, <1>8, Zenon DEF IsAnswerApdu
<1>. QED BY <1>6, <1>7

\* The polls of other requests hear nothing of it.
LEMMA AnswerUnrelated ==
    ASSUME NEW octets, NEW m, NEW pdu, NEW rest, IsAnswerTo(octets, m, pdu, rest),
           NEW n, NEW request, n # m \/ request.kind \notin {"Read", "Write", "Subscribe"}
    PROVE  Outcome(octets, n, request) = Unheard
<1>1. PICK apdu : IsAnswerApdu(apdu, m, pdu, rest) /\ Finds(octets, apdu)
  BY AnswerFound
<1>2. pdu \in {2, 3, 5, 6}
  <2>1. pdu \in {SimpleAck, ComplexAck, ErrorPdu, RejectPdu}
    BY Zenon DEF IsAnswerTo
  <2>. QED BY <2>1 DEF SimpleAck, ComplexAck, ErrorPdu, RejectPdu
<1>3. ASSUME NEW functions, NEW least \in Nat, Unicast \in functions
      PROVE  Apdu(octets, functions, least) \in {apdu, <<>>}
  <2>1. CASE Len(apdu) + 6 >= least
    BY <1>1, <1>3, <2>1 DEF Finds
  <2>2. CASE ~(Len(apdu) + 6 >= least)
    <3>1. Len(apdu) \in Nat
      BY <1>1, SequenceLength DEF IsAnswerApdu
    <3>2. ~(Len(octets) >= least)
      BY <1>1, <2>2, <3>1 DEF Finds
    <3>. QED BY <3>2 DEF Apdu
  <2>. QED BY <2>1, <2>2
<1>4. ParseIAm(octets) = Unheard
  <2>1. Apdu(octets, {Unicast, Broadcast}, 14) \in {apdu, <<>>}
    BY <1>3
  <2>2. apdu[1] # 16 * Unconfirmed
    BY <1>1, <1>2 DEF IsAnswerApdu, Unconfirmed
  <2>3. Len(<<>>) < 2
    OBVIOUS
  <2>4. CASE Apdu(octets, {Unicast, Broadcast}, 14) = apdu
    <3>1. Len(Apdu(octets, {Unicast, Broadcast}, 14)) < 2
          \/ Apdu(octets, {Unicast, Broadcast}, 14)[1] # 16 * Unconfirmed
          \/ Apdu(octets, {Unicast, Broadcast}, 14)[2] # IAm
      BY <2>2, <2>4
    <3>. QED BY <3>1, SMT DEF ParseIAm
  <2>5. CASE Apdu(octets, {Unicast, Broadcast}, 14) = <<>>
    <3>1. Len(Apdu(octets, {Unicast, Broadcast}, 14)) < 2
          \/ Apdu(octets, {Unicast, Broadcast}, 14)[1] # 16 * Unconfirmed
          \/ Apdu(octets, {Unicast, Broadcast}, 14)[2] # IAm
      BY <2>3, <2>5
    <3>. QED BY <3>1, SMT DEF ParseIAm
  <2>. QED BY <2>1, <2>4, <2>5
<1>5. n # m => \A service, positive : ClassifyAnswer(apdu, n, service, positive) = "Unrelated"
  BY <1>1 DEF ClassifyAnswer, IsAnswerApdu
<1>6. CASE n # m
  <2>1. /\ ClassifyRead(octets, n) = "Unrelated" /\ ClassifyWrite(octets, n) = "Unrelated"
        /\ \A service : ClassifySubscribe(octets, n, service) = "Unrelated"
    <3>1. 8 \in Nat /\ Unicast \in {Unicast, Broadcast} /\ Unicast \in {Unicast}
      OBVIOUS
    <3>2. Apdu(octets, {Unicast, Broadcast}, 8) \in {apdu, <<>>} /\ Apdu(octets, {Unicast}, 8) \in {apdu, <<>>}
      BY <1>3, <3>1
    <3>. QED BY <1>5, <1>6, <3>2, EmptyIsNoAnswer DEF ClassifyRead, ClassifyWrite, ClassifySubscribe
  <2>2. \A asks : ReadOutcome(octets, n, asks) = Unheard
    BY <2>1 DEF ReadOutcome, OutcomeOf
  <2>3. WriteOutcome(octets, n) = Unheard
    BY <2>1 DEF WriteOutcome
  <2>4. \A subscription : SubscribeOutcome(octets, n, subscription) = Unheard
    BY <2>1 DEF SubscribeOutcome
  <2>. QED BY <1>4, <2>2, <2>3, <2>4 DEF Outcome
<1>7. CASE request.kind \notin {"Read", "Write", "Subscribe"}
  BY <1>4, <1>7 DEF Outcome
<1>. QED BY <1>6, <1>7

\* So an answer means what it says if the poll for the request it answers
\* hears that, or nothing.
LEMMA AnswerIsMeant ==
    ASSUME NEW octets, NEW m, NEW pdu, NEW rest, IsAnswerTo(octets, m, pdu, rest),
           NEW requests, m \in 1..Len(requests), NEW answers, NEW outcome, <<m, outcome>> \in answers,
           Outcome(octets, m, requests[m]) \in {Unheard, Told(requests[m], outcome, TRUE)}
    PROVE  Meant(octets, requests, answers)
<1>. SUFFICES ASSUME NEW n \in 1..MaxRequests, NEW r \in Requests, n \in 1..Len(requests) => r = requests[n]
              PROVE  IsMeant(Outcome(octets, n, r), n, r, answers)
  BY DEF Meant
<1>1. CASE n # m
  <2>1. Outcome(octets, n, r) = Unheard
    BY <1>1, AnswerUnrelated
  <2>. QED BY <2>1 DEF IsMeant
<1>2. CASE n = m
  <2>1. r = requests[m]
    BY <1>2
  <2> DEFINE a == <<m, outcome>>
  <2>2. a \in answers /\ a[1] = m /\ a[2] = outcome
    OBVIOUS
  <2> HIDE DEF a
  <2>. QED BY <1>2, <2>1, <2>2 DEF IsMeant
<1>. QED BY <1>1, <1>2

\* The APDU of an answer with its service.
IsServiceApdu(apdu, m, pdu, service, more) ==
    /\ apdu # <<>> /\ Pdu(apdu) = pdu /\ apdu[2] = m /\ apdu[3] = service
    /\ Len(apdu) = 3 + Len(more) /\ From(apdu, 4) = more

\* The service of an answer is found in it.
LEMMA ServiceFound ==
    ASSUME NEW octets, NEW m, NEW pdu, NEW service, NEW more, IsSequence(more),
           IsAnswerTo(octets, m, pdu, <<service>> \o more)
    PROVE  \E apdu : IsServiceApdu(apdu, m, pdu, service, more) /\ Finds(octets, apdu)
<1> DEFINE rest == <<service>> \o more
           head == <<16 * pdu, m>>
           one == <<service>>
           s == head \o one
<1>1. PICK apdu : IsAnswerApdu(apdu, m, pdu, rest) /\ Finds(octets, apdu)
  BY AnswerFound
<1>2. apdu # <<>> /\ Pdu(apdu) = pdu /\ apdu[2] = m /\ apdu = head \o rest
  BY <1>1, Zenon DEF IsAnswerApdu
<1>3. IsSequence(head) /\ Len(head) = 2 /\ IsSequence(one) /\ Len(one) = 1 /\ one[1] = service
  BY TupleIsSequence
<1> HIDE DEF head, one
<1>4. IsSequence(s) /\ Len(s) = Len(head) + Len(one) /\ \A i \in 1..Len(one) : s[Len(head) + i] = one[i]
  <2>1. IsSequence(head) /\ IsSequence(one)
    BY <1>3
  <2>. QED BY <2>1, SequencesJoin
<1>5. s[3] = service /\ Len(s) = 3
  <2>1. s[2 + 1] = one[1]
    BY <1>3, <1>4
  <2>. QED BY <1>3, <1>4, <2>1
<1>6. apdu = s \o more
  <2>1. Regroups(head, one, more)
    BY <1>3, Regrouped
  <2>. QED BY <1>2, <2>1, Zenon DEF Regroups, one
<1> HIDE DEF s
<1>7. Len(s \o more) = Len(s) + Len(more) /\ \A i \in 1..Len(s) : (s \o more)[i] = s[i]
  BY <1>4, SequencesJoin
<1>8. From(s \o more, Len(s) + 1) = more
  BY <1>4, SequencesPart
<1>9. apdu[3] = service /\ Len(apdu) = 3 + Len(more) /\ From(apdu, 4) = more
  BY <1>5, <1>6, <1>7, <1>8
<1>. QED BY <1>1, <1>2, <1>9 DEF IsServiceApdu

\* What the polls for the services take an answer for.
IsHeardOf(octets, m, pdu, service) ==
    /\ service = ReadProperty =>
          ClassifyRead(octets, m) =
              CASE pdu = ComplexAck -> "Ack" [] pdu = ErrorPdu -> "Error" [] pdu = RejectPdu -> "Reject"
                [] OTHER -> "Unrelated"
    /\ service = WriteProperty =>
          ClassifyWrite(octets, m) =
              CASE pdu = SimpleAck -> "Ack" [] pdu = ErrorPdu -> "Error" [] pdu = RejectPdu -> "Reject"
                [] OTHER -> "Unrelated"
    /\ ClassifySubscribe(octets, m, service) =
           CASE pdu = SimpleAck -> "Ack" [] pdu = ErrorPdu -> "Error" [] pdu = RejectPdu -> "Reject"
             [] OTHER -> "Unrelated"

\* classifyReadPropertyResponse and the others take an answer for what it is
\* when the service is theirs.
LEMMA Classified ==
    ASSUME NEW octets, NEW m, NEW pdu, NEW service, NEW more, IsSequence(more),
           IsAnswerTo(octets, m, pdu, <<service>> \o more)
    PROVE  IsHeardOf(octets, m, pdu, service)
<1>1. PICK apdu : IsServiceApdu(apdu, m, pdu, service, more) /\ Finds(octets, apdu)
  BY ServiceFound
<1>2. Len(more) \in Nat
  BY SequenceLength
<1>3. Pdu(apdu) = pdu /\ apdu[2] = m /\ apdu[3] = service /\ Len(apdu) = 3 + Len(more)
  BY <1>1 DEF IsServiceApdu
<1>4. Apdu(octets, {Unicast, Broadcast}, 8) = apdu /\ Apdu(octets, {Unicast}, 8) = apdu
  <2>1. 8 \in Nat /\ Unicast \in {Unicast, Broadcast} /\ Unicast \in {Unicast} /\ Len(apdu) + 6 >= 8
    BY <1>2, <1>3
  <2>. QED BY <1>1, <2>1, Zenon DEF Finds
<1>5. pdu \in {2, 3, 5, 6}
  <2>1. pdu \in {SimpleAck, ComplexAck, ErrorPdu, RejectPdu}
    BY Zenon DEF IsAnswerTo
  <2>. QED BY <2>1 DEF SimpleAck, ComplexAck, ErrorPdu, RejectPdu
<1>6. \A positive : positive \in {SimpleAck, ComplexAck} =>
          ClassifyAnswer(apdu, m, service, positive) =
              CASE pdu = positive -> "Ack" [] pdu = ErrorPdu -> "Error" [] pdu = RejectPdu -> "Reject"
                [] OTHER -> "Unrelated"
  BY <1>2, <1>3, <1>5 DEF ClassifyAnswer, SimpleAck, ComplexAck, ErrorPdu, RejectPdu, AbortPdu
<1>. QED BY <1>4, <1>6, Zenon DEF IsHeardOf, ClassifyRead, ClassifyWrite, ClassifySubscribe

\* A simple acknowledgement is heard as one by the poll for a write and by
\* that for a registration.
LEMMA AckHeard ==
    ASSUME NEW octets, NEW m, NEW service, octets = BuildSimpleAck(ServerBuffer, m, service), octets # <<>>
    PROVE  /\ IsAnswerTo(octets, m, SimpleAck, <<service>> \o <<>>)
           /\ service = WriteProperty => WriteOutcome(octets, m) = [heard |-> "Ack"]
           /\ \A subscription :
                 service = (IF subscription.ofProperty THEN SubscribeCovProperty ELSE SubscribeCov) =>
                     SubscribeOutcome(octets, m, subscription) = [heard |-> "Ack"]
<1>1. IsAnswerTo(octets, m, SimpleAck, <<service>> \o <<>>)
  <2>1. octets = Answer(SimpleAck, m, <<service>>)
    BY DEF BuildSimpleAck, Limited
  <2>2. <<service>> \o <<>> = <<service>> /\ IsSequence(<<service>>)
    BY TupleIsSequence
  <2>. QED BY <2>1, <2>2, Zenon DEF IsAnswerTo
<1>2. IsSequence(<<>>)
  BY TupleIsSequence
<1>3. /\ service = WriteProperty => ClassifyWrite(octets, m) = "Ack"
      /\ ClassifySubscribe(octets, m, service) = "Ack"
  <2> DEFINE kind(pdu) == CASE pdu = SimpleAck -> "Ack" [] pdu = ErrorPdu -> "Error"
                            [] pdu = RejectPdu -> "Reject" [] OTHER -> "Unrelated"
  <2>1. /\ service = WriteProperty => ClassifyWrite(octets, m) = kind(SimpleAck)
        /\ ClassifySubscribe(octets, m, service) = kind(SimpleAck)
    <3>1. IsHeardOf(octets, m, SimpleAck, service)
      BY <1>1, <1>2, Classified
    <3>. QED BY <3>1, Zenon DEF IsHeardOf
  <2>2. kind(SimpleAck) = "Ack"
    BY DEF SimpleAck, ErrorPdu, RejectPdu
  <2>. QED BY <2>1, <2>2
<1>4. service = WriteProperty => WriteOutcome(octets, m) = [heard |-> "Ack"]
  BY <1>3 DEF WriteOutcome
<1>5. ASSUME NEW subscription,
             service = (IF subscription.ofProperty THEN SubscribeCovProperty ELSE SubscribeCov)
      PROVE  SubscribeOutcome(octets, m, subscription) = [heard |-> "Ack"]
  <2>1. ClassifySubscribe(octets, m, IF subscription.ofProperty THEN SubscribeCovProperty ELSE SubscribeCov) = "Ack"
    BY <1>3, <1>5
  <2>. QED BY <2>1 DEF SubscribeOutcome
<1>. QED BY <1>1, <1>4, <1>5

\* Tuples grow at their end.
LEMMA TupleGrows ==
    /\ \A a : Append(<<>>, a) = <<a>>
    /\ \A a, b : Append(<<a>>, b) = <<a, b>>
    /\ \A a, b, c : Append(<<a, b>>, c) = <<a, b, c>>
    /\ \A a, b, c, e : Append(<<a, b, c>>, e) = <<a, b, c, e>>
<1>1. ASSUME NEW s, IsSequence(s), NEW x, NEW w, IsSequence(w), Len(w) = Len(s) + 1, w[Len(s) + 1] = x,
             \A i \in 1..Len(s) : w[i] = s[i]
      PROVE  Append(s, x) = w
  <2> DEFINE u == Append(s, x)
  <2>a. IsAppended(u, s, x)
    BY <1>1, Appended
  <2>2. Len(s) \in Nat
    BY <1>1, SequenceLength
  <2> HIDE DEF u
  <2>1. IsSequence(u) /\ Len(u) = Len(s) + 1 /\ u[Len(s) + 1] = x /\ \A i \in 1..Len(s) : u[i] = s[i]
    BY <2>a DEF IsAppended
  <2> DEFINE n == Len(u)
  <2>3. n \in Nat /\ Len(u) = n /\ Len(w) = n /\ \A i \in 1..n : u[i] = w[i]
    BY <1>1, <2>1, <2>2
  <2> HIDE DEF n
  <2>4. u = w
    BY <1>1, <2>1, <2>3, SameSequence
  <2>. QED BY <2>4 DEF u
<1>2. ASSUME NEW a PROVE Append(<<>>, a) = <<a>>
  OBVIOUS
<1>3. ASSUME NEW a, NEW b PROVE Append(<<a>>, b) = <<a, b>>
  <2> DEFINE s == <<a>>
             w == <<a, b>>
  <2>1. /\ IsSequence(s) /\ IsSequence(w) /\ Len(s) = 1 /\ Len(w) = 2 /\ s[1] = a /\ w[1] = a /\ w[2] = b
    BY TupleIsSequence
  <2> HIDE DEF s, w
  <2>2. Len(w) = Len(s) + 1 /\ w[Len(s) + 1] = b /\ \A i \in 1..Len(s) : w[i] = s[i]
    BY <2>1
  <2>3. Append(s, b) = w
    BY <1>1, <2>1, <2>2
  <2>. QED BY <2>3 DEF s, w
<1>4. ASSUME NEW a, NEW b, NEW c PROVE Append(<<a, b>>, c) = <<a, b, c>>
  <2> DEFINE s == <<a, b>>
             w == <<a, b, c>>
  <2>1. /\ IsSequence(s) /\ IsSequence(w) /\ Len(s) = 2 /\ Len(w) = 3 /\ s[1] = a /\ s[2] = b
        /\ w[1] = a /\ w[2] = b /\ w[3] = c
    BY TupleIsSequence
  <2> HIDE DEF s, w
  <2>2. Len(w) = Len(s) + 1 /\ w[Len(s) + 1] = c /\ \A i \in 1..Len(s) : w[i] = s[i]
    BY <2>1
  <2>3. Append(s, c) = w
    BY <1>1, <2>1, <2>2
  <2>. QED BY <2>3 DEF s, w
<1>5. ASSUME NEW a, NEW b, NEW c, NEW e PROVE Append(<<a, b, c>>, e) = <<a, b, c, e>>
  <2> DEFINE s == <<a, b, c>>
             w == <<a, b, c, e>>
  <2>1. /\ IsSequence(s) /\ IsSequence(w) /\ Len(s) = 3 /\ Len(w) = 4 /\ s[1] = a /\ s[2] = b /\ s[3] = c
        /\ w[1] = a /\ w[2] = b /\ w[3] = c /\ w[4] = e
    BY TupleIsSequence
  <2> HIDE DEF s, w
  <2>2. Len(w) = Len(s) + 1 /\ w[Len(s) + 1] = e /\ \A i \in 1..Len(s) : w[i] = s[i]
    BY <2>1
  <2>3. Append(s, e) = w
    BY <1>1, <2>1, <2>2
  <2>. QED BY <2>3 DEF s, w
<1>. QED BY <1>2, <1>3, <1>4, <1>5

\* A small number takes one octet after its tag.
LEMMA SmallNumber ==
    ASSUME NEW n \in 0..255
    PROVE  /\ Encode(<<"Enumerated", n>>) = <<145, n>>
           /\ Encode(<<"Enumerated", n>>) = Application(9, Octets(n, UnsignedLength(n)))
<1> DEFINE v == <<"Enumerated", n>>
<1>1. v[1] = "Enumerated" /\ v[2] = n
  OBVIOUS
<1> HIDE DEF v
<1>2. Encode(v) = Application(9, Octets(n, UnsignedLength(n)))
  BY <1>1, Zenon DEF Encode
<1>3. UnsignedLength(n) = 1
  BY SMT DEF UnsignedLength, Below
<1>4. Octets(n, 1) = <<n>>
  <2>1. n \in Int /\ n % 256 = n
    OBVIOUS
  <2>. QED BY <2>1, OneOctet
<1>5. Application(9, <<n>>) = <<145, n>>
  <2>1. Len(<<n>>) = 1 /\ 16 * 9 + 0 + 1 = 145
    OBVIOUS
  <2>2. Application(9, <<n>>) = <<145>> \o <<n>>
    BY <2>1 DEF Application, Tagged
  <2>. QED BY <2>2
<1>. QED BY <1>2, <1>3, <1>4, <1>5 DEF v

\* What is read is added to what was read before.
LEMMA ThenIs ==
    ASSUME NEW r, r.ok, NEW param, NEW v, NEW rest, Reads(r.rest, param, r.value, v, rest)
    PROVE  Then(r, param) = Read(Append(r.value, v), rest)
<1>1. Read(v, rest).ok /\ Read(v, rest).value = v /\ Read(v, rest).rest = rest
  BY ReadSays
<1>. QED BY <1>1, Zenon DEF Then, Reads

\* Octets that two parameters read up to their end.
IsPair(os, params, a, b) ==
    \E p, q, left :
        /\ params = <<p, q>> /\ Reads(os, p, <<>>, a, left)
        /\ \A seen : Reads(left, q, seen, b, <<>>)

\* Two parameters are read in their order.
LEMMA PairRead ==
    ASSUME NEW os, NEW params, NEW a, NEW b, IsPair(os, params, a, b)
    PROVE  ReadParams(os, params) = Read(<<a, b>>, <<>>)
<1>1. PICK p, q, left : /\ params = <<p, q>> /\ Reads(os, p, <<>>, a, left)
                        /\ \A seen : Reads(left, q, seen, b, <<>>)
  BY Zenon DEF IsPair
<1>2. Len(params) = 2 /\ params[1] = p /\ params[2] = q
  BY <1>1
<1>3. PICK f : /\ f[0] = Read(<<>>, os)
               /\ \A k \in 1..Len(params) : f[k] = Then(f[k - 1], params[k])
               /\ ReadParams(os, params) = f[Len(params)]
  BY <1>2, ParamsRead
<1>4. f[1] = Then(f[0], p) /\ f[2] = Then(f[1], q) /\ ReadParams(os, params) = f[2]
  <2>1. 1 \in 1..2 /\ 2 \in 1..2 /\ 1 - 1 = 0 /\ 2 - 1 = 1
    OBVIOUS
  <2>. QED BY <1>2, <1>3, <2>1
<1>5. IsSequence(<<>>) /\ IsSequence(<<a>>)
  BY TupleIsSequence
<1>6. f[0].ok /\ f[0].value = <<>> /\ f[0].rest = os
  BY <1>3, ReadSays
<1>7. f[1] = Read(<<a>>, left)
  <2>1. Reads(f[0].rest, p, f[0].value, a, left)
    BY <1>1, <1>6
  <2>2. f[1] = Read(Append(f[0].value, a), left)
    <3>1. Then(f[0], p) = Read(Append(f[0].value, a), left)
      <4>1. f[0].ok
        BY <1>6
      <4>. QED BY <2>1, <4>1, ThenIs
    <3>. QED BY <1>4, <3>1
  <2>3. Append(<<>>, a) = <<a>>
    OBVIOUS
  <2>. QED BY <1>6, <2>2, <2>3
<1>8. f[2] = Read(<<a, b>>, <<>>)
  <2>1. f[1].ok /\ f[1].value = <<a>> /\ f[1].rest = left
    BY <1>7, ReadSays
  <2>2. Reads(f[1].rest, q, f[1].value, b, <<>>)
    BY <1>1, <2>1
  <2>3. f[2] = Read(Append(f[1].value, b), <<>>)
    BY <1>4, <2>1, <2>2, ThenIs
  <2>4. Append(<<a>>, b) = <<a, b>>
    BY TupleGrows
  <2>. QED BY <2>1, <2>3, <2>4
<1>. QED BY <1>4, <1>8

\* The class and the code of an error, as they are read.
IsErrorParam(more, class, code) ==
    /\ IsSequence(more) /\ more = <<145, class, 145, code>>
    /\ IsPair(more, <<ApplicationParam(9), ApplicationParam(9)>>, class, code)

\* The class and the code of an error are read back.
LEMMA ErrorParams ==
    ASSUME NEW class \in 0..255, NEW code \in 0..255, NEW more,
           more = Encode(<<"Enumerated", class>>) \o Encode(<<"Enumerated", code>>)
    PROVE  IsErrorParam(more, class, code)
<1> DEFINE s == Encode(<<"Enumerated", class>>)
           t == Encode(<<"Enumerated", code>>)
           param == ApplicationParam(9)
<1>1. s = <<145, class>> /\ t = <<145, code>> /\ IsSequence(s) /\ IsSequence(t)
  <2>1. s = <<145, class>> /\ t = <<145, code>>
    BY SmallNumber
  <2>2. IsSequence(<<145, class>>) /\ IsSequence(<<145, code>>)
    BY TupleIsSequence
  <2>. QED BY <2>1, <2>2
<1>2. more = <<145, class, 145, code>>
  <2>1. more = s \o t
    OBVIOUS
  <2> HIDE DEF s, t
  <2>2. more = <<145, class>> \o <<145, code>>
    BY <1>1, <2>1
  <2>3. <<145, class>> \o <<145, code>> = <<145, class, 145, code>>
    BY PairsJoin
  <2>. QED BY <2>2, <2>3
<1>3. class \in Int32 /\ code \in Int32 /\ 9 \in 0..15
  BY SMT DEF Int32
<1>4. s = Application(9, Octets(class, UnsignedLength(class))) /\ t = Application(9, Octets(code, UnsignedLength(code)))
  BY SmallNumber
<1> HIDE DEF s, t
<1>5. ReadApplication(s \o t, 9) = Read(class, t)
  <2>1. IsSequence(t)
    BY <1>1
  <2>2. ReadApplication(Application(9, Octets(class, UnsignedLength(class))) \o t, 9) = Read(class, t)
    BY <1>3, <2>1, ApplicationRead
  <2>. QED BY <1>4, <2>2, Zenon
<1>6. ReadApplication(t, 9) = Read(code, <<>>)
  <2>1. IsSequence(<<>>)
    BY TupleIsSequence
  <2>2. ReadApplication(t \o <<>>, 9) = Read(code, <<>>)
    BY <1>3, <1>4, <2>1, ApplicationRead
  <2>3. t \o <<>> = t
    BY <1>1 DEF IsSequence
  <2>. QED BY <2>2, <2>3
<1>7. more = s \o t
  BY DEF s, t
<1>8. Reads(more, param, <<>>, class, t) /\ \A seen : Reads(t, param, seen, code, <<>>)
  BY <1>5, <1>6, <1>7, ParamReads DEF Reads
<1>9. IsPair(more, <<param, param>>, class, code)
  BY <1>8, Zenon DEF IsPair
<1>10. IsSequence(more)
  BY <1>2, TupleIsSequence
<1>. QED BY <1>2, <1>9, <1>10 DEF IsErrorParam

\* What follows the service is the end of the datagram.
LEMMA AnswerEnds ==
    ASSUME NEW octets, NEW m, NEW pdu, NEW service, NEW more, IsSequence(more),
           IsAnswerTo(octets, m, pdu, <<service>> \o more)
    PROVE  From(octets, 10) = more /\ Len(octets) = 9 + Len(more)
<1> DEFINE two == <<16 * pdu, m>>
           one == <<service>>
           rest == one \o more
           apdu == two \o rest
           length == Len(apdu) + 6
           head == <<129, Unicast, length \div 256, length % 256, 1, 0>>
           t == head \o (two \o one)
<1>1. /\ IsSequence(one) /\ Len(one) = 1 /\ IsSequence(two) /\ Len(two) = 2
      /\ IsSequence(head) /\ Len(head) = 6
  BY TupleIsSequence
<1>2. octets = head \o apdu
  <2>1. octets = Answer(pdu, m, rest)
    BY Zenon DEF IsAnswerTo
  <2>. QED BY <2>1, Zenon DEF Answer, Datagram
<1> HIDE DEF one, two, head
<1>3. Regroups(two, one, more)
  BY <1>1, Regrouped
<1>4. apdu = (two \o one) \o more /\ IsSequence(two \o one)
  BY <1>3, Zenon DEF Regroups
<1>5. Regroups(head, two \o one, more)
  BY <1>1, <1>4, Regrouped
<1>6. octets = t \o more /\ IsSequence(t)
  BY <1>2, <1>4, <1>5, Zenon DEF Regroups
<1>7. Len(t) = 9
  <2>1. Len(two \o one) = Len(two) + Len(one)
    <3>1. IsSequence(two) /\ IsSequence(one)
      BY <1>1
    <3>. QED BY <3>1, SequencesJoin
  <2>2. Len(head \o (two \o one)) = Len(head) + Len(two \o one)
    <3>1. IsSequence(head) /\ IsSequence(two \o one)
      BY <1>1, <1>4
    <3>. QED BY <3>1, SequencesJoin
  <2>. QED BY <1>1, <2>1, <2>2
<1> HIDE DEF t
<1>8. From(t \o more, Len(t) + 1) = more /\ Len(t \o more) = Len(t) + Len(more)
  BY <1>6, SequencesJoin, SequencesPart
<1>. QED BY <1>6, <1>7, <1>8

\* What the polls for the services hear of an error.
IsErrorHeard(octets, m, service, class, code) ==
    /\ \E rest : IsAnswerTo(octets, m, ErrorPdu, rest)
    /\ service = ReadProperty =>
          \A request : ReadOutcome(octets, m, request) = [heard |-> "Error", class |-> class, code |-> code]
    /\ service = WriteProperty =>
          WriteOutcome(octets, m) = [heard |-> IF class = 2 /\ code = 40 THEN "NotCommandable" ELSE "Refused"]
    /\ \A subscription :
          service = (IF subscription.ofProperty THEN SubscribeCovProperty ELSE SubscribeCov) =>
              SubscribeOutcome(octets, m, subscription) = [heard |-> "Refused"]

\* A read hears the class and the code of its error, a write whether it was
\* that the object is not commandable, a registration that it was refused.
LEMMA ErrorHeard ==
    ASSUME NEW octets, NEW m, NEW service, NEW class \in 0..255, NEW code \in 0..255,
           octets = BuildError(ServerBuffer, m, service, class, code), octets # <<>>
    PROVE  IsErrorHeard(octets, m, service, class, code)
<1> DEFINE s == Encode(<<"Enumerated", class>>)
           t == Encode(<<"Enumerated", code>>)
           one == <<service>>
           more == s \o t
<1>1. IsSequence(s) /\ IsSequence(t) /\ IsSequence(one)
  <2>1. s = <<145, class>> /\ t = <<145, code>>
    BY SmallNumber
  <2>. QED BY <2>1, TupleIsSequence
<1>2. octets = Answer(ErrorPdu, m, (one \o s) \o t)
  BY DEF BuildError, Limited
<1>3. IsErrorParam(more, class, code)
  BY ErrorParams
<1> HIDE DEF s, t, one
<1>4. Regroups(one, s, t)
  BY <1>1, Regrouped
<1>5. (one \o s) \o t = one \o more
  BY <1>4, Zenon DEF Regroups
<1>6. IsSequence(one \o more)
  <2>1. IsSequence(more)
    BY <1>1, SequencesJoin
  <2>. QED BY <1>1, <2>1, SequencesJoin
<1>7. IsAnswerTo(octets, m, ErrorPdu, one \o more)
  BY <1>2, <1>5, <1>6, Zenon DEF IsAnswerTo
<1>8. IsAnswerTo(octets, m, ErrorPdu, <<service>> \o more)
  BY <1>7 DEF one
<1> HIDE DEF more
<1>9. IsSequence(more) /\ more = <<145, class, 145, code>> /\ IsPair(more, <<ApplicationParam(9), ApplicationParam(9)>>, class, code)
  BY <1>3, Zenon DEF IsErrorParam
<1>10. IsHeardOf(octets, m, ErrorPdu, service)
  BY <1>8, <1>9, Classified
<1> DEFINE kind(pdu, positive) == CASE pdu = positive -> "Ack" [] pdu = ErrorPdu -> "Error"
                                    [] pdu = RejectPdu -> "Reject" [] OTHER -> "Unrelated"
<1>11. /\ service = ReadProperty => ClassifyRead(octets, m) = kind(ErrorPdu, ComplexAck)
       /\ service = WriteProperty => ClassifyWrite(octets, m) = kind(ErrorPdu, SimpleAck)
       /\ ClassifySubscribe(octets, m, service) = kind(ErrorPdu, SimpleAck)
  BY <1>10, Zenon DEF IsHeardOf
<1>12. kind(ErrorPdu, ComplexAck) = "Error" /\ kind(ErrorPdu, SimpleAck) = "Error"
  BY DEF SimpleAck, ComplexAck, ErrorPdu, RejectPdu
<1> HIDE DEF kind
<1>13. ASSUME service = ReadProperty, NEW request
       PROVE  ReadOutcome(octets, m, request) = [heard |-> "Error", class |-> class, code |-> code]
  <2>1. PICK apdu : IsServiceApdu(apdu, m, ErrorPdu, service, more) /\ Finds(octets, apdu)
    BY <1>8, <1>9, ServiceFound
  <2>2. Pdu(apdu) = ErrorPdu /\ apdu[2] = m /\ apdu[3] = ReadProperty /\ Len(apdu) = 3 + Len(more) /\ From(apdu, 4) = more
    BY <1>13, <2>1 DEF IsServiceApdu
  <2>3. Len(more) = 4
    BY <1>9
  <2>4. Apdu(octets, {Unicast}, 13) = apdu
    <3>1. 13 \in Nat /\ Unicast \in {Unicast} /\ Len(apdu) + 6 >= 13
      BY <2>2, <2>3
    <3>. QED BY <2>1, <3>1, Zenon DEF Finds
  <2>5. ReadParams(more, <<ApplicationParam(9), ApplicationParam(9)>>) = Read(<<class, code>>, <<>>)
    BY <1>9, PairRead
  <2> DEFINE r == ReadParams(more, <<ApplicationParam(9), ApplicationParam(9)>>)
             error == [heard |-> "Error", class |-> class, code |-> code]
  <2>6. r.ok /\ r.value[1] = class /\ r.value[2] = code
    BY <2>5, ReadSays
  <2>7. ParseReadError(octets, m) = error
    <3>1. ~(Len(apdu) < 3 \/ Pdu(apdu) # ErrorPdu \/ apdu[2] # m \/ apdu[3] # ReadProperty)
      BY <2>2, <2>3
    <3> HIDE DEF r
    <3>2. r = ReadParams(From(apdu, 4), <<ApplicationParam(9), ApplicationParam(9)>>)
      BY <2>2 DEF r
    <3>. QED BY <2>4, <2>6, <3>1, <3>2, Zenon DEF ParseReadError
  <2>8. ClassifyRead(octets, m) = "Error"
    BY <1>11, <1>12, <1>13
  <2>9. error # Unheard
    BY DEF Unheard
  <2> HIDE DEF error
  <2>10. ReadOutcome(octets, m, request) = error
    BY <2>7, <2>8, <2>9 DEF ReadOutcome, OutcomeOf
  <2>. QED BY <2>10 DEF error
<1>14. ASSUME service = WriteProperty
       PROVE  WriteOutcome(octets, m) = [heard |-> IF class = 2 /\ code = 40 THEN "NotCommandable" ELSE "Refused"]
  <2>1. From(octets, 10) = more /\ Len(octets) = 9 + Len(more)
    <3>1. IsSequence(more)
      BY <1>9
    <3>. QED BY <1>8, <3>1, AnswerEnds
  <2>2. Len(octets) = 13 /\ SubSeq(octets, 10, 13) = <<145, class, 145, code>>
    BY <1>9, <2>1 DEF From
  <2>3. (SubSeq(octets, 10, 13) = <<145, 2, 145, 40>>) <=> (class = 2 /\ code = 40)
    BY <2>2
  <2>4. ClassifyWrite(octets, m) = "Error"
    BY <1>11, <1>12, <1>14
  <2>5. Len(octets) >= 13
    BY <2>2
  <2>. QED BY <2>3, <2>4, <2>5 DEF WriteOutcome
<1>15. ASSUME NEW subscription, service = (IF subscription.ofProperty THEN SubscribeCovProperty ELSE SubscribeCov)
       PROVE  SubscribeOutcome(octets, m, subscription) = [heard |-> "Refused"]
  <2>1. ClassifySubscribe(octets, m, IF subscription.ofProperty THEN SubscribeCovProperty ELSE SubscribeCov) = "Error"
    BY <1>11, <1>12, <1>15
  <2>. QED BY <2>1 DEF SubscribeOutcome
<1>. QED BY <1>7, <1>13, <1>14, <1>15 DEF IsErrorHeard

\* A request or a notification.
IsNoAnswer(octets, apdu) ==
    /\ \E control : IsDatagram(octets, Unicast, control, apdu)
    /\ apdu # <<>> /\ Pdu(apdu) \in {Confirmed, Unconfirmed}

\* A request or a notification is no answer to a confirmed request.
LEMMA NoAnswerIsUnheard ==
    ASSUME NEW octets, NEW apdu, IsNoAnswer(octets, apdu), NEW n, NEW request, request.kind # "Discover"
    PROVE  Outcome(octets, n, request) = Unheard
<1>1. PICK control : IsDatagram(octets, Unicast, control, apdu)
  BY DEF IsNoAnswer
<1>2. Carries(octets, Unicast, apdu)
  BY <1>1, DatagramRead
<1>3. Apdu(octets, {Unicast, Broadcast}, 8) \in {apdu, <<>>} /\ Apdu(octets, {Unicast}, 8) \in {apdu, <<>>}
  <2>1. 8 \in Nat
    OBVIOUS
  <2>. QED BY <1>2, <2>1, Zenon DEF Carries
<1>4. \A service, positive : positive \in {SimpleAck, ComplexAck} =>
          ClassifyAnswer(apdu, n, service, positive) = "Unrelated"
  <2>1. Pdu(apdu) \in {Confirmed, Unconfirmed}
    BY DEF IsNoAnswer
  <2>. QED BY <2>1 DEF ClassifyAnswer, Confirmed, Unconfirmed, SimpleAck, ComplexAck, ErrorPdu, RejectPdu, AbortPdu
<1>5. /\ ClassifyRead(octets, n) = "Unrelated" /\ ClassifyWrite(octets, n) = "Unrelated"
      /\ \A service : ClassifySubscribe(octets, n, service) = "Unrelated"
  BY <1>3, <1>4, EmptyIsNoAnswer DEF ClassifyRead, ClassifyWrite, ClassifySubscribe
<1>6. \A asks : ReadOutcome(octets, n, asks) = Unheard
  BY <1>5 DEF ReadOutcome, OutcomeOf
<1>7. WriteOutcome(octets, n) = Unheard
  BY <1>5 DEF WriteOutcome
<1>8. \A subscription : SubscribeOutcome(octets, n, subscription) = Unheard
  BY <1>5 DEF SubscribeOutcome
<1>. QED BY <1>6, <1>7, <1>8 DEF Outcome

\* The request that a Who-Is is hears no other message.
LEMMA OtherIsNoIAm ==
    ASSUME NEW octets, NEW apdu, NEW control, IsDatagram(octets, Unicast, control, apdu),
           apdu[1] # 16 * Unconfirmed \/ apdu[2] # IAm
    PROVE  ParseIAm(octets) = Unheard
<1>1. Carries(octets, Unicast, apdu)
  BY DatagramRead
<1> DEFINE found == Apdu(octets, {Unicast, Broadcast}, 14)
<1>2. found \in {apdu, <<>>}
  <2>1. 14 \in Nat
    OBVIOUS
  <2>. QED BY <1>1, <2>1, Zenon DEF Carries
<1>3. Len(found) < 2 \/ found[1] # 16 * Unconfirmed \/ found[2] # IAm
  <2>1. Len(<<>>) < 2
    OBVIOUS
  <2> HIDE DEF found
  <2>. QED BY <1>2, <2>1
<1>. QED BY <1>3, SMT DEF ParseIAm

\* A notification concludes no request.
LEMMA NotificationConcludesNothing ==
    ASSUME NEW octets, NEW invoke, IsNotificationOf(octets, invoke), octets # <<>>,
           NEW requests, NEW answers
    PROVE  Meant(octets, requests, answers)
<1>1. PICK parameters :
          /\ IsSequence(parameters)
          /\ octets \in {<<>>, ConfirmedRequest(invoke, ConfirmedCovNotification, parameters),
                         Datagram(Unicast, 0, <<16 * Unconfirmed, UnconfirmedCovNotification>> \o parameters)}
  BY Zenon DEF IsNotificationOf
<1>2. \E apdu, control : /\ IsDatagram(octets, Unicast, control, apdu)
                         /\ apdu # <<>> /\ Pdu(apdu) \in {Confirmed, Unconfirmed}
                         /\ apdu[1] # 16 * Unconfirmed \/ apdu[2] # IAm
  <2>1. CASE octets = ConfirmedRequest(invoke, ConfirmedCovNotification, parameters)
    <3> DEFINE head == <<16 * Confirmed, 5, invoke, ConfirmedCovNotification>>
               apdu == head \o parameters
    <3>1. IsSequence(head) /\ Len(head) = 4 /\ head[1] = 0
      BY TupleIsSequence DEF Confirmed
    <3>2. octets = Datagram(Unicast, ExpectingReply, apdu)
      BY <2>1, Zenon DEF ConfirmedRequest
    <3> HIDE DEF head
    <3>a. IsHeadOf(head, parameters)
      BY <1>1, <3>1, HeadIsRead
    <3>3. IsSequence(apdu) /\ Len(apdu) = Len(head) + Len(parameters) /\ \A i \in 1..Len(head) : apdu[i] = head[i]
      BY <3>a DEF IsHeadOf
    <3>4. Len(parameters) \in Nat
      BY <1>1, SequenceLength
    <3> HIDE DEF apdu
    <3>5. apdu[1] = 0 /\ apdu # <<>>
      BY <3>1, <3>3, <3>4
    <3>6. Pdu(apdu) = Confirmed
      BY <3>5 DEF Pdu, Confirmed
    <3>7. apdu[1] # 16 * Unconfirmed
      BY <3>5 DEF Unconfirmed
    <3>8. IsDatagram(octets, Unicast, ExpectingReply, apdu)
      BY <3>2, <3>3 DEF IsDatagram, ExpectingReply
    <3>. QED BY <3>5, <3>6, <3>7, <3>8
  <2>2. CASE octets = Datagram(Unicast, 0, <<16 * Unconfirmed, UnconfirmedCovNotification>> \o parameters)
    <3> DEFINE head == <<16 * Unconfirmed, UnconfirmedCovNotification>>
               apdu == head \o parameters
    <3>1. IsSequence(head) /\ Len(head) = 2 /\ head[1] = 16 /\ head[2] = 2
      BY TupleIsSequence DEF Unconfirmed, UnconfirmedCovNotification
    <3>2. octets = Datagram(Unicast, 0, apdu)
      BY <2>2
    <3> HIDE DEF head
    <3>a. IsHeadOf(head, parameters)
      BY <1>1, <3>1, HeadIsRead
    <3>3. IsSequence(apdu) /\ Len(apdu) = Len(head) + Len(parameters) /\ \A i \in 1..Len(head) : apdu[i] = head[i]
      BY <3>a DEF IsHeadOf
    <3>4. Len(parameters) \in Nat
      BY <1>1, SequenceLength
    <3> HIDE DEF apdu
    <3>5. apdu[1] = 16 /\ apdu[2] = 2 /\ apdu # <<>>
      BY <3>1, <3>3, <3>4
    <3>6. Pdu(apdu) = Unconfirmed
      BY <3>5 DEF Pdu, Unconfirmed
    <3>7. apdu[2] # IAm
      BY <3>5 DEF IAm
    <3>8. IsDatagram(octets, Unicast, 0, apdu)
      BY <3>2, <3>3 DEF IsDatagram
    <3>. QED BY <3>5, <3>6, <3>7, <3>8
  <2>. QED BY <1>1, <2>1, <2>2
<1>3. PICK apdu, control : /\ IsDatagram(octets, Unicast, control, apdu)
                           /\ apdu # <<>> /\ Pdu(apdu) \in {Confirmed, Unconfirmed}
                           /\ apdu[1] # 16 * Unconfirmed \/ apdu[2] # IAm
  BY <1>2
<1>4. IsNoAnswer(octets, apdu)
  BY <1>3 DEF IsNoAnswer
<1>5. ParseIAm(octets) = Unheard
  BY <1>3, OtherIsNoIAm
<1>6. ASSUME NEW n, NEW r PROVE Outcome(octets, n, r) = Unheard
  <2>1. CASE r.kind = "Discover"
    BY <1>5, <2>1 DEF Outcome
  <2>2. CASE r.kind # "Discover"
    BY <1>4, <2>2, NoAnswerIsUnheard
  <2>. QED BY <2>1, <2>2
<1>. QED BY <1>6, Zenon DEF Meant, IsMeant

-----------------------------------------------------------------------------
\* Parameters of an acknowledgement.

\* A parameter that reads the same whatever was read before it.
AlwaysReads(os, param, v, rest) == \A seen : Reads(os, param, seen, v, rest)

\* What is read next is added.
LEMMA NextIs ==
    ASSUME NEW seen, NEW os, NEW param, NEW v, NEW rest, AlwaysReads(os, param, v, rest)
    PROVE  Then(Read(seen, os), param) = Read(Append(seen, v), rest)
<1> DEFINE r == Read(seen, os)
<1>1. r.ok /\ r.value = seen /\ r.rest = os
  BY ReadSays
<1> HIDE DEF r
<1>2. Reads(r.rest, param, r.value, v, rest)
  BY <1>1 DEF AlwaysReads
<1>3. Then(r, param) = Read(Append(r.value, v), rest)
  <2>1. r.ok
    BY <1>1
  <2>. QED BY <1>2, <2>1, ThenIs
<1>. QED BY <1>1, <1>3 DEF r

\* What is read first stands alone.
LEMMA FirstIs ==
    ASSUME NEW os, NEW param, NEW v, NEW rest, AlwaysReads(os, param, v, rest)
    PROVE  Then(Read(<<>>, os), param) = Read(<<v>>, rest)
<1> DEFINE none == <<>>
<1>1. Append(none, v) = <<v>>
  BY TupleGrows
<1> HIDE DEF none
<1>2. Then(Read(none, os), param) = Read(Append(none, v), rest)
  BY NextIs
<1>3. Then(Read(none, os), param) = Read(<<v>>, rest)
  BY <1>1, <1>2
<1>. QED BY <1>3 DEF none

\* Octets that three parameters read.
IsTriple(os, p, q, s, a, b, c, rest) ==
    \E k, l : AlwaysReads(os, p, a, k) /\ AlwaysReads(k, q, b, l) /\ AlwaysReads(l, s, c, rest)

\* Three parameters are read in their order.
LEMMA TripleRead ==
    ASSUME NEW os, NEW p, NEW q, NEW s, NEW a, NEW b, NEW c, NEW rest, IsTriple(os, p, q, s, a, b, c, rest)
    PROVE  ReadParams(os, <<p, q, s>>) = Read(<<a, b, c>>, rest)
<1> DEFINE params == <<p, q, s>>
<1>1. PICK k, l : AlwaysReads(os, p, a, k) /\ AlwaysReads(k, q, b, l) /\ AlwaysReads(l, s, c, rest)
  BY Zenon DEF IsTriple
<1>2. Len(params) = 3 /\ params[1] = p /\ params[2] = q /\ params[3] = s
  OBVIOUS
<1> HIDE DEF params
<1>3. PICK f : /\ f[0] = Read(<<>>, os)
               /\ \A i \in 1..Len(params) : f[i] = Then(f[i - 1], params[i])
               /\ ReadParams(os, params) = f[Len(params)]
  <2>1. Len(params) \in Nat
    BY <1>2
  <2>. QED BY <2>1, ParamsRead
<1>4. f[1] = Then(f[0], p) /\ f[2] = Then(f[1], q) /\ f[3] = Then(f[2], s) /\ ReadParams(os, params) = f[3]
  <2>1. 1 \in 1..3 /\ 2 \in 1..3 /\ 3 \in 1..3 /\ 1 - 1 = 0 /\ 2 - 1 = 1 /\ 3 - 1 = 2
    OBVIOUS
  <2>. QED BY <1>2, <1>3, <2>1
<1>5. f[1] = Read(<<a>>, k)
  <2>1. Then(Read(<<>>, os), p) = Read(<<a>>, k)
    BY <1>1, FirstIs
  <2>. QED BY <1>3, <1>4, <2>1
<1>6. f[2] = Read(<<a, b>>, l)
  <2>1. Then(f[1], q) = Read(Append(<<a>>, b), l)
    <3>1. Then(Read(<<a>>, k), q) = Read(Append(<<a>>, b), l)
      BY <1>1, NextIs
    <3>. QED BY <1>5, <3>1
  <2>. QED BY <1>4, <2>1, TupleGrows
<1>7. f[3] = Read(<<a, b, c>>, rest)
  <2>1. Then(f[2], s) = Read(Append(<<a, b>>, c), rest)
    <3>1. Then(Read(<<a, b>>, l), s) = Read(Append(<<a, b>>, c), rest)
      BY <1>1, NextIs
    <3>. QED BY <1>6, <3>1
  <2>. QED BY <1>4, <2>1, TupleGrows
<1>. QED BY <1>4, <1>7 DEF params

\* Octets that four parameters read.
IsQuadruple(os, p, q, s, t, a, b, c, e, rest) ==
    \E k, l, m : /\ AlwaysReads(os, p, a, k) /\ AlwaysReads(k, q, b, l)
                 /\ AlwaysReads(l, s, c, m) /\ AlwaysReads(m, t, e, rest)

\* Four parameters are read in their order.
LEMMA QuadrupleRead ==
    ASSUME NEW os, NEW p, NEW q, NEW s, NEW t, NEW a, NEW b, NEW c, NEW e, NEW rest,
           IsQuadruple(os, p, q, s, t, a, b, c, e, rest)
    PROVE  ReadParams(os, <<p, q, s, t>>) = Read(<<a, b, c, e>>, rest)
<1> DEFINE params == <<p, q, s, t>>
<1>1. PICK k, l, m : /\ AlwaysReads(os, p, a, k) /\ AlwaysReads(k, q, b, l)
                     /\ AlwaysReads(l, s, c, m) /\ AlwaysReads(m, t, e, rest)
  BY Zenon DEF IsQuadruple
<1>2. Len(params) = 4 /\ params[1] = p /\ params[2] = q /\ params[3] = s /\ params[4] = t
  OBVIOUS
<1> HIDE DEF params
<1>3. PICK f : /\ f[0] = Read(<<>>, os)
               /\ \A i \in 1..Len(params) : f[i] = Then(f[i - 1], params[i])
               /\ ReadParams(os, params) = f[Len(params)]
  <2>1. Len(params) \in Nat
    BY <1>2
  <2>. QED BY <2>1, ParamsRead
<1>4. /\ f[1] = Then(f[0], p) /\ f[2] = Then(f[1], q) /\ f[3] = Then(f[2], s) /\ f[4] = Then(f[3], t)
      /\ ReadParams(os, params) = f[4]
  <2>1. /\ 1 \in 1..4 /\ 2 \in 1..4 /\ 3 \in 1..4 /\ 4 \in 1..4
        /\ 1 - 1 = 0 /\ 2 - 1 = 1 /\ 3 - 1 = 2 /\ 4 - 1 = 3
    OBVIOUS
  <2>. QED BY <1>2, <1>3, <2>1
<1>5. f[1] = Read(<<a>>, k)
  <2>1. Then(Read(<<>>, os), p) = Read(<<a>>, k)
    BY <1>1, FirstIs
  <2>. QED BY <1>3, <1>4, <2>1
<1>6. f[2] = Read(<<a, b>>, l)
  <2>1. Then(f[1], q) = Read(Append(<<a>>, b), l)
    <3>1. Then(Read(<<a>>, k), q) = Read(Append(<<a>>, b), l)
      BY <1>1, NextIs
    <3>. QED BY <1>5, <3>1
  <2>. QED BY <1>4, <2>1, TupleGrows
<1>7. f[3] = Read(<<a, b, c>>, m)
  <2>1. Then(f[2], s) = Read(Append(<<a, b>>, c), m)
    <3>1. Then(Read(<<a, b>>, l), s) = Read(Append(<<a, b>>, c), m)
      BY <1>1, NextIs
    <3>. QED BY <1>6, <3>1
  <2>. QED BY <1>4, <2>1, TupleGrows
<1>8. f[4] = Read(<<a, b, c, e>>, rest)
  <2>1. Then(f[3], t) = Read(Append(<<a, b, c>>, e), rest)
    <3>1. Then(Read(<<a, b, c>>, m), t) = Read(Append(<<a, b, c>>, e), rest)
      BY <1>1, NextIs
    <3>. QED BY <1>7, <3>1
  <2>. QED BY <1>4, <2>1, TupleGrows
<1>. QED BY <1>4, <1>8 DEF params

\* A number under an application tag that is read back before whatever
\* follows.
IsApplication(e, tag, n) == IsSequence(e) /\ Len(e) \in 2..5 /\
    \A rest : IsSequence(rest) => AlwaysReads(e \o rest, ApplicationParam(tag), n, rest)

\* An application parameter reads what readApplicationUnsigned reads.
LEMMA ApplicationReadAs ==
    ASSUME NEW os, NEW tag, NEW v, NEW rest, ReadApplication(os, tag) = Read(v, rest)
    PROVE  AlwaysReads(os, ApplicationParam(tag), v, rest)
BY ParamsReadAs DEF AlwaysReads

\* A tag takes one octet before its contents.
LEMMA SizeOfTagged ==
    ASSUME NEW tag, NEW class, NEW octets, IsSequence(octets), Len(octets) \in 1..4
    PROVE  IsSequence(Tagged(tag, class, octets)) /\ Len(Tagged(tag, class, octets)) = 1 + Len(octets)
<1> DEFINE one == <<16 * tag + class + Len(octets)>>
<1>1. IsSequence(one) /\ Len(one) = 1
  BY TupleIsSequence
<1>2. Tagged(tag, class, octets) = one \o octets
  BY Zenon DEF Tagged
<1> HIDE DEF one
<1>3. IsSequence(one \o octets) /\ Len(one \o octets) = Len(one) + Len(octets)
  <2>1. IsSequence(one)
    BY <1>1
  <2>. QED BY <2>1, SequencesJoin
<1>. QED BY <1>1, <1>2, <1>3

\* A number under an application tag is such a parameter.
LEMMA NumberParam ==
    ASSUME NEW n \in Int32, NEW tag \in 0..15
    PROVE  IsApplication(Application(tag, Octets(n, UnsignedLength(n))), tag, n)
<1> DEFINE octets == Octets(n, UnsignedLength(n))
           e == Application(tag, octets)
<1>1. IsSequence(octets) /\ Len(octets) \in 1..4
  BY NumberIsSmall
<1>2. ASSUME NEW rest, IsSequence(rest) PROVE AlwaysReads(e \o rest, ApplicationParam(tag), n, rest)
  <2>1. ReadApplication(e \o rest, tag) = Read(n, rest)
    BY <1>2, ApplicationRead
  <2>. QED BY <2>1, ApplicationReadAs
<1> HIDE DEF octets
<1>3. IsSequence(e) /\ Len(e) \in 2..5
  <2> DEFINE u == Tagged(tag, 0, octets)
  <2>1. IsSequence(u) /\ Len(u) = 1 + Len(octets)
    BY <1>1, SizeOfTagged
  <2>2. e = u
    BY DEF Application
  <2> HIDE DEF e, u
  <2>3. IsSequence(e)
    BY <2>1, <2>2
  <2>4. Len(u) \in 2..5
    <3> DEFINE l == Len(octets)
               k == Len(u)
    <3>1. l \in 1..4 /\ k = 1 + l
      BY <1>1, <2>1
    <3> HIDE DEF l, k
    <3>2. k \in 2..5
      BY <3>1
    <3>. QED BY <3>2 DEF k
  <2>. QED BY <2>2, <2>3, <2>4
<1> HIDE DEF e
<1>4. IsApplication(e, tag, n)
  BY <1>2, <1>3 DEF IsApplication
<1>. QED BY <1>4 DEF e, octets

\* So is an object identifier.
LEMMA ObjectIdParam ==
    ASSUME NEW object \in ObjectIds
    PROVE  IsApplication(Application(12, ObjectOctets(object)), 12, Number(ObjectOctets(object)))
<1> DEFINE octets == ObjectOctets(object)
           e == Application(12, octets)
<1>1. IsSequence(octets) /\ Len(octets) = 4
  BY ObjectNumber DEF IsSequence
<1>2. ASSUME NEW rest, IsSequence(rest) PROVE AlwaysReads(e \o rest, ApplicationParam(12), Number(octets), rest)
  <2>1. ReadApplication(e \o rest, 12) = Read(Number(octets), rest)
    BY <1>2, ObjectIdentifierRead
  <2>. QED BY <2>1, ApplicationReadAs
<1> HIDE DEF octets
<1>3. IsSequence(e) /\ Len(e) \in 2..5
  <2>1. IsSequence(Tagged(12, 0, octets)) /\ Len(Tagged(12, 0, octets)) = 1 + Len(octets)
    <3>1. IsSequence(octets) /\ Len(octets) \in 1..4
      BY <1>1
    <3>. QED BY <3>1, SizeOfTagged
  <2>2. e = Tagged(12, 0, octets)
    BY DEF Application
  <2> HIDE DEF e
  <2>. QED BY <1>1, <2>1, <2>2
<1> HIDE DEF e
<1>4. IsApplication(e, 12, Number(octets))
  BY <1>2, <1>3 DEF IsApplication
<1>. QED BY <1>4 DEF e, octets

\* parseIAm reads back the instance, the sizes, the segmentation and the
\* vendor that buildIAm wrote, and no other poll hears it.
LEMMA IAmRead ==
    ASSUME NEW octets, octets = BuildIAm(26, Device), octets # <<>>
    PROVE  /\ ParseIAm(octets) = [heard |-> "IAm", device |-> Device]
           /\ \A n, request : request.kind # "Discover" => Outcome(octets, n, request) = Unheard
<1> DEFINE object == [type |-> DeviceType, instance |-> Device.instance]
           e1 == Application(12, ObjectOctets(object))
           e2 == Application(2, Octets(Device.maxApdu, UnsignedLength(Device.maxApdu)))
           e3 == Application(9, Octets(Device.segmentation, UnsignedLength(Device.segmentation)))
           e4 == Application(2, Octets(Device.vendor, UnsignedLength(Device.vendor)))
           head == <<16 * Unconfirmed, IAm>>
           number == Number(ObjectOctets(object))
<1>1. /\ Device.instance \in Instances /\ Device.maxApdu \in Int32 /\ Device.segmentation \in Int32
      /\ Device.vendor \in Int32 /\ Device.segmentation \in 0..255 /\ Device.vendor \in Below(65536)
  <2>1. Device \in [instance : Instances, maxApdu : Int32, segmentation : 0..255, vendor : Below(65536)]
    BY ExchangeAssumption
  <2>2. /\ Device.instance \in Instances /\ Device.maxApdu \in Int32 /\ Device.segmentation \in 0..255
        /\ Device.vendor \in Below(65536)
    BY <2>1
  <2>3. Device.segmentation \in Int32 /\ Device.vendor \in Int32
    <3>1. \A n : n \in 0..255 => n \in Int32
      BY SMT DEF Int32
    <3>2. \A n : n \in Below(65536) => n \in Int32
      BY SMT DEF Int32, Below
    <3>. QED BY <2>2, <3>1, <3>2
  <2>. QED BY <2>2, <2>3
<1>2. object \in ObjectIds
  <2>1. DeviceType \in 0..1023
    BY DEF DeviceType
  <2>. QED BY <1>1, <2>1 DEF ObjectIds
<1>3. /\ IsApplication(e1, 12, number) /\ IsApplication(e2, 2, Device.maxApdu)
      /\ IsApplication(e3, 9, Device.segmentation) /\ IsApplication(e4, 2, Device.vendor)
  <2>1. 2 \in 0..15 /\ 9 \in 0..15
    OBVIOUS
  <2>2. IsApplication(e1, 12, number)
    BY <1>2, ObjectIdParam
  <2>. QED BY <1>1, <2>1, <2>2, NumberParam
<1>4. octets = Datagram(Unicast, 0, head \o e1 \o e2 \o e3 \o e4)
  <2>1. \A n : Encode(<<"Unsigned", n>>) = Application(2, Octets(n, UnsignedLength(n)))
    <3>. SUFFICES ASSUME NEW n PROVE Encode(<<"Unsigned", n>>) = Application(2, Octets(n, UnsignedLength(n)))
      OBVIOUS
    <3> DEFINE v == <<"Unsigned", n>>
    <3>1. v[1] = "Unsigned" /\ v[2] = n
      OBVIOUS
    <3> HIDE DEF v
    <3>2. Encode(v) = Application(2, Octets(n, UnsignedLength(n)))
      BY <3>1, Zenon DEF Encode
    <3>. QED BY <3>2 DEF v
  <2>2. \A n : Encode(<<"Enumerated", n>>) = Application(9, Octets(n, UnsignedLength(n)))
    <3>. SUFFICES ASSUME NEW n PROVE Encode(<<"Enumerated", n>>) = Application(9, Octets(n, UnsignedLength(n)))
      OBVIOUS
    <3> DEFINE v == <<"Enumerated", n>>
    <3>1. v[1] = "Enumerated" /\ v[2] = n
      OBVIOUS
    <3> HIDE DEF v
    <3>2. Encode(v) = Application(9, Octets(n, UnsignedLength(n)))
      BY <3>1, Zenon DEF Encode
    <3>. QED BY <3>2 DEF v
  <2>3. Encode(<<"ObjectIdentifier", object>>) = e1
    <3> DEFINE v == <<"ObjectIdentifier", object>>
    <3>1. v[1] = "ObjectIdentifier" /\ v[2] = object
      OBVIOUS
    <3> HIDE DEF v, object
    <3>2. Encode(v) = Application(12, ObjectOctets(object))
      BY <3>1, Zenon DEF Encode
    <3>. QED BY <3>2 DEF v
  <2> DEFINE whole == head \o Encode(<<"ObjectIdentifier", object>>) \o Encode(<<"Unsigned", Device.maxApdu>>)
                      \o Encode(<<"Enumerated", Device.segmentation>>) \o Encode(<<"Unsigned", Device.vendor>>)
  <2>4. octets = Datagram(Unicast, 0, whole)
    BY Zenon DEF BuildIAm, Limited
  <2>5. whole = head \o e1 \o e2 \o e3 \o e4
    <3> HIDE DEF head, e1, e2, e3, e4, object
    <3>. QED BY <2>1, <2>2, <2>3, Zenon DEF e2, e3, e4
  <2>. QED BY <2>4, <2>5, Zenon
<1>5. IsSequence(head) /\ Len(head) = 2 /\ head[1] = 16 * Unconfirmed /\ head[2] = IAm
  BY TupleIsSequence
<1> DEFINE apdu == head \o (e1 \o (e2 \o (e3 \o e4)))
           rest == e1 \o (e2 \o (e3 \o e4))
<1> HIDE DEF head, e1, e2, e3, e4, number, object
<1>6. IsSequence(e1) /\ IsSequence(e2) /\ IsSequence(e3) /\ IsSequence(e4) /\ Len(e1) \in 2..5
  BY <1>3, Zenon DEF IsApplication
<1>6a. Len(e2) \in 2..5 /\ Len(e3) \in 2..5 /\ Len(e4) \in 2..5
  BY <1>3, Zenon DEF IsApplication
<1>7. /\ IsSequence(e3 \o e4) /\ IsSequence(e2 \o (e3 \o e4)) /\ IsSequence(rest) /\ IsSequence(apdu)
      /\ head \o e1 \o e2 \o e3 \o e4 = apdu
  <2>1. IsSequence(head)
    BY <1>5
  <2>2. IsSequence(e1) /\ IsSequence(e2) /\ IsSequence(e3) /\ IsSequence(e4)
    BY <1>6
  <2>3. /\ IsSequence(e3 \o e4) /\ IsSequence(e2 \o (e3 \o e4)) /\ IsSequence(e1 \o (e2 \o (e3 \o e4)))
        /\ IsSequence(head \o (e1 \o (e2 \o (e3 \o e4))))
        /\ head \o e1 \o e2 \o e3 \o e4 = head \o (e1 \o (e2 \o (e3 \o e4)))
    <3>1. FiveRegroup(head, e1, e2, e3, e4)
      BY <2>1, <2>2, FiveJoin
    <3>. QED BY <3>1, Zenon DEF FiveRegroup
  <2>. QED BY <2>3, Zenon
<1>8. Len(apdu) >= 8
  <2>1. Len(e3 \o e4) = Len(e3) + Len(e4)
    <3>1. IsSequence(e3) /\ IsSequence(e4)
      BY <1>6
    <3>. QED BY <3>1, SequencesJoin
  <2>2. Len(e2 \o (e3 \o e4)) = Len(e2) + Len(e3 \o e4)
    <3>1. IsSequence(e2) /\ IsSequence(e3 \o e4)
      BY <1>6, <1>7
    <3>. QED BY <3>1, SequencesJoin
  <2>3. Len(rest) = Len(e1) + Len(e2 \o (e3 \o e4))
    <3>1. IsSequence(e1) /\ IsSequence(e2 \o (e3 \o e4))
      BY <1>6, <1>7
    <3>. QED BY <3>1, SequencesJoin
  <2>4. Len(apdu) = Len(head) + Len(rest)
    <3>1. IsSequence(head) /\ IsSequence(rest)
      BY <1>5, <1>7
    <3>. QED BY <3>1, SequencesJoin
  <2> DEFINE a == Len(e1)
             b == Len(e2)
             c == Len(e3)
             d == Len(e4)
             size == Len(apdu)
  <2>5. a \in 2..5 /\ b \in 2..5 /\ c \in 2..5 /\ d \in 2..5 /\ size = 2 + (a + (b + (c + d)))
    BY <1>5, <1>6, <1>6a, <2>1, <2>2, <2>3, <2>4
  <2> HIDE DEF a, b, c, d, size
  <2>6. size >= 8
    BY <2>5
  <2>. QED BY <2>6 DEF size
<1>9. From(apdu, 3) = rest /\ apdu[1] = 16 * Unconfirmed /\ apdu[2] = IAm
  <2>1. IsSequence(head) /\ IsSequence(rest)
    BY <1>5, <1>7
  <2> HIDE DEF rest
  <2>2. From(head \o rest, Len(head) + 1) = rest
    BY <2>1, SequencesPart
  <2>3. \A i \in 1..Len(head) : (head \o rest)[i] = head[i]
    BY <2>1, SequencesJoin
  <2>4. apdu = head \o rest
    BY DEF rest
  <2> HIDE DEF apdu
  <2>5. apdu[1] = head[1] /\ apdu[2] = head[2]
    <3>1. 1 \in 1..Len(head) /\ 2 \in 1..Len(head)
      BY <1>5
    <3>2. (head \o rest)[1] = head[1] /\ (head \o rest)[2] = head[2]
      BY <2>3, <3>1
    <3>. QED BY <2>4, <3>2, Zenon
  <2>6. From(apdu, 3) = rest
    <3>1. Len(head) + 1 = 3
      BY <1>5
    <3>. QED BY <2>2, <2>4, <3>1
  <2>. QED BY <1>5, <2>5, <2>6
<1>10. IsDatagram(octets, Unicast, 0, apdu)
  BY <1>4, <1>7 DEF IsDatagram
<1> DEFINE params == <<ApplicationParam(12), ApplicationParam(2), ApplicationParam(9), ApplicationParam(2)>>
           v == <<number, Device.maxApdu, Device.segmentation, Device.vendor>>
<1>11. ReadParams(rest, params) = Read(v, <<>>)
  <2>1. /\ AlwaysReads(rest, ApplicationParam(12), number, e2 \o (e3 \o e4))
        /\ AlwaysReads(e2 \o (e3 \o e4), ApplicationParam(2), Device.maxApdu, e3 \o e4)
        /\ AlwaysReads(e3 \o e4, ApplicationParam(9), Device.segmentation, e4)
    BY <1>3, <1>6, <1>7 DEF IsApplication
  <2>2. AlwaysReads(e4, ApplicationParam(2), Device.vendor, <<>>)
    <3>1. IsSequence(<<>>)
      BY TupleIsSequence
    <3>2. AlwaysReads(e4 \o <<>>, ApplicationParam(2), Device.vendor, <<>>)
      BY <1>3, <3>1, Zenon DEF IsApplication
    <3>3. e4 \o <<>> = e4
      BY <1>6 DEF IsSequence
    <3>. QED BY <3>2, <3>3
  <2>3. IsQuadruple(rest, ApplicationParam(12), ApplicationParam(2), ApplicationParam(9), ApplicationParam(2),
                    number, Device.maxApdu, Device.segmentation, Device.vendor, <<>>)
    BY <2>1, <2>2, Zenon DEF IsQuadruple
  <2>. QED BY <2>3, QuadrupleRead
<1> HIDE DEF apdu, rest
<1>12. Apdu(octets, {Unicast, Broadcast}, 14) = apdu
  <2>1. Carries(octets, Unicast, apdu)
    BY <1>10, DatagramRead
  <2>2. 14 \in Nat /\ Unicast \in {Unicast, Broadcast} /\ Len(apdu) + 6 >= 14
    <3>1. Len(apdu) \in Nat
      BY <1>10, SequenceLength DEF IsDatagram
    <3>. QED BY <1>8, <3>1
  <2>. QED BY <2>1, <2>2, Zenon DEF Carries
<1>13. v[1] = number /\ v[2] = Device.maxApdu /\ v[3] = Device.segmentation /\ v[4] = Device.vendor
  OBVIOUS
<1> HIDE DEF v
<1> DEFINE r == ReadParams(rest, params)
<1>14. r.ok /\ r.value = v
  BY <1>11, ReadSays
<1>15. ObjectFrom(v[1]) = object
  BY <1>2, <1>13, ObjectNumber DEF number
<1>16. ParseIAm(octets) = [heard |-> "IAm", device |->
              [instance |-> ObjectFrom(v[1]).instance, maxApdu |-> v[2], segmentation |-> v[3], vendor |-> v[4]]]
  <2>1. ~(Len(apdu) < 2 \/ apdu[1] # 16 * Unconfirmed \/ apdu[2] # IAm)
    <3>1. Len(apdu) \in Nat
      BY <1>10, SequenceLength DEF IsDatagram
    <3>. QED BY <1>8, <1>9, <3>1
  <2>2. ObjectFrom(v[1]).type = DeviceType /\ v[3] \in 0..255 /\ v[4] \in Below(65536)
    BY <1>1, <1>13, <1>15 DEF object
  <2>3. r = ReadParams(From(apdu, 3), params)
    BY <1>9
  <2> DEFINE says == [heard |-> "IAm", device |->
              [instance |-> ObjectFrom(v[1]).instance, maxApdu |-> v[2], segmentation |-> v[3], vendor |-> v[4]]]
  <2> HIDE DEF r
  <2>. QED BY <1>12, <1>14, <2>1, <2>2, <2>3, SMTT(40) DEF ParseIAm
<1>17. ParseIAm(octets) = [heard |-> "IAm", device |-> Device]
  <2>1. Device \in [instance : Instances, maxApdu : Int32, segmentation : 0..255, vendor : Below(65536)]
    BY ExchangeAssumption
  <2>2. object.instance = Device.instance
    BY DEF object
  <2>3. Device = [instance |-> ObjectFrom(v[1]).instance, maxApdu |-> v[2], segmentation |-> v[3], vendor |-> v[4]]
    BY <1>13, <1>15, <2>1, <2>2
  <2>. QED BY <1>16, <2>3
<1>18. IsNoAnswer(octets, apdu)
  <2>1. Pdu(apdu) = Unconfirmed
    BY <1>9 DEF Pdu, Unconfirmed
  <2>2. apdu # <<>>
    BY <1>8
  <2>. QED BY <1>10, <2>1, <2>2 DEF IsNoAnswer
<1>. QED BY <1>17, <1>18, NoAnswerIsUnheard

\* A request to read, as sendReadProperty builds it.
IsReadRequest(d, n, request) == request \in Asked /\ d = BuildReadRequest(25, n, request) /\ d # <<>>

\* The server reads back the invoke id, the object, the property and the
\* index of a ReadProperty request; one that cannot be encoded is not sent.
LEMMA ReadRequestRead ==
    ASSUME NEW request, NEW n, NEW d, IsReadRequest(d, n, request)
    PROVE  /\ request.object \in ObjectIds /\ request.property \in Int32 /\ request.index \in Int32
           /\ ParseReadRequest(d) = [heard |-> "ReadProperty", invoke |-> n, request |-> request]
<1>1. request \in Asked /\ d = BuildReadRequest(25, n, request) /\ d # <<>>
  BY Zenon DEF IsReadRequest
<1> DEFINE a == ContextObject(0, request.object)
           b == ContextUnsigned(1, request.property)
           c == OptionalIndex(2, request.index)
           parameters == a \o (b \o c)
<1>2. request.object \in ObjectIds /\ request.property \in Int32 /\ request.index \in Int32
  <2>1. IsInstance(request.object.instance)
    BY <1>1, Zenon DEF BuildReadRequest
  <2>2. /\ request.object \in [type : 0..1023, instance : Int32]
        /\ request.property \in Int32 /\ request.index \in Int32
    BY <1>1 DEF Asked
  <2>. QED BY <2>1, <2>2 DEF ObjectIds, IsInstance
<1>3. d = ConfirmedRequest(n, ReadProperty, a \o b \o c)
  BY <1>1, Zenon DEF BuildReadRequest, Limited
<1>4. IsSequence(a) /\ IsSequence(b) /\ IsSequence(c)
  BY ParametersAreSequences
<1> HIDE DEF a, b, c
<1>5. IsSequence(b \o c) /\ IsSequence(parameters) /\ a \o b \o c = parameters
  BY <1>4, ThreeJoin
<1>6. IsConfirmed(d, n, ReadProperty, parameters)
  BY <1>3, <1>5, Zenon DEF IsConfirmed
<1>7. ConfirmedHeader(d) = HeaderOf(n, ReadProperty, parameters)
  BY <1>6, ConfirmedRead
<1>8. AlwaysReads(parameters, ObjectParam(0), request.object, b \o c)
  <2>1. 0 \in 0..15
    OBVIOUS
  <2>2. ReadObject(a \o (b \o c), 0) = Read(request.object, b \o c)
    BY <1>2, <1>5, <2>1, ContextObjectRead DEF a
  <2>. QED BY <2>2, ParamsReadAs DEF AlwaysReads
<1>9. AlwaysReads(b \o c, Param(1), request.property, c)
  <2>1. 1 \in 0..15
    OBVIOUS
  <2>2. ReadContext(b \o c, 1) = Read(request.property, c)
    BY <1>2, <1>4, <2>1, ContextRead DEF b
  <2>. QED BY <2>2, ParamsReadAs DEF AlwaysReads
<1>10. AlwaysReads(c, AtEnd(2, NoIndex), request.index, <<>>)
  <2>1. 2 \in 0..15 /\ IsSequence(<<>>)
    BY TupleIsSequence
  <2>2. ReadParam(c, AtEnd(2, NoIndex), <<>>) = Read(request.index, <<>>)
    BY <1>2, <2>1, OptionalRead DEF c
  <2>3. \A seen : ReadParam(c, AtEnd(2, NoIndex), seen) = ReadParam(c, AtEnd(2, NoIndex), <<>>)
    BY ParamReads
  <2>. QED BY <2>2, <2>3 DEF AlwaysReads, Reads
<1> DEFINE params == <<ObjectParam(0), Param(1), AtEnd(2, NoIndex)>>
           v == <<request.object, request.property, request.index>>
           r == ReadParams(parameters, params)
<1>11. r = Read(v, <<>>)
  <2>1. IsTriple(parameters, ObjectParam(0), Param(1), AtEnd(2, NoIndex),
                 request.object, request.property, request.index, <<>>)
    BY <1>8, <1>9, <1>10, Zenon DEF IsTriple
  <2>. QED BY <2>1, TripleRead
<1>12. r.ok /\ r.value = v /\ r.rest = <<>>
  BY <1>11, ReadSays
<1>13. v[1] = request.object /\ v[2] = request.property /\ v[3] = request.index
  OBVIOUS
<1> DEFINE header == HeaderOf(n, ReadProperty, parameters)
<1>14. header.status = "Confirmed" /\ header.invoke = n /\ header.service = ReadProperty /\ header.rest = parameters
  <2> HIDE DEF parameters
  <2>. QED BY HeaderSays
<1> HIDE DEF v, r, header, parameters
<1>15. request = [object |-> v[1], property |-> v[2], index |-> v[3]]
  BY <1>1, <1>13 DEF Asked
<1>16. ReadRequestIn(header) = [heard |-> "ReadProperty", invoke |-> n, request |-> request]
  <2>1. ReadParams(header.rest, params) = r
    BY <1>14 DEF r
  <2>. QED BY <1>12, <1>14, <1>15, <2>1, Zenon DEF ReadRequestIn, Heard
<1>17. ParseReadRequest(d) = ReadRequestIn(header)
  <2>1. IsRequest(d, {ReadProperty})
    BY <1>7, <1>14, Zenon DEF IsRequest, header
  <2>. QED BY <1>7, <2>1, Zenon DEF ParseReadRequest, header
<1>. QED BY <1>2, <1>16, <1>17

\* The acknowledgement of a read, with the octets of its value.
IsReadAck(octets, m, request, body) ==
    /\ IsSequence(body) /\ octets = ReadAck(m, request, body)
    /\ request.object \in ObjectIds /\ request.property \in Int32 /\ request.index \in Int32
\* The poll for the read takes it for its acknowledgement, accepts the header
\* and is left with the octets of the value and the closing tag.
Acknowledges(octets, m, request, body) ==
    /\ \E rest : IsAnswerTo(octets, m, ComplexAck, rest)
    /\ ClassifyRead(octets, m) = "Ack"
    /\ ReadAckHeader(Apdu(octets, {Unicast}, 17), m, request) = Read(request.index, body \o <<63>>)
    /\ request.index = NoIndex =>
          \E v : PriorityArrayHeader(Apdu(octets, {Unicast}, 17), m, request) = Read(v, body \o <<63>>)

\* The header of the acknowledgement names the request that is polled for,
\* and the client's check accepts it.
LEMMA AckHeaderRead ==
    ASSUME NEW octets, NEW m, NEW request, NEW body, IsReadAck(octets, m, request, body)
    PROVE  Acknowledges(octets, m, request, body)
<1> DEFINE one == <<ReadProperty>>
           a == ContextObject(0, request.object)
           b == ContextUnsigned(1, request.property)
           c == OptionalIndex(2, request.index)
           o == Opening(3)
           g == Closing(3)
           rest4 == body \o g
           rest3 == o \o rest4
           rest2 == c \o rest3
           rest1 == b \o rest2
           more == a \o rest1
           number == Number(ObjectOctets(request.object))
<1>1. /\ IsSequence(body) /\ octets = ReadAck(m, request, body)
      /\ request.object \in ObjectIds /\ request.property \in Int32 /\ request.index \in Int32
  BY Zenon DEF IsReadAck
<1>2. octets = Answer(ComplexAck, m, one \o a \o b \o c \o o \o body \o g)
  BY <1>1, Zenon DEF ReadAck
<1>3. /\ IsSequence(one) /\ IsSequence(a) /\ IsSequence(b) /\ IsSequence(c) /\ IsSequence(o) /\ IsSequence(g)
  BY TupleIsSequence, ParametersAreSequences
<1>4. o = <<62>> /\ g = <<63>>
  <2>1. 16 * 3 + 14 = 62 /\ 16 * 3 + 15 = 63
    OBVIOUS
  <2>. QED BY <2>1 DEF Opening, Closing
<1>5. Len(a) = 5 /\ Len(b) \in 2..5
  <2>1. IsSequence(ObjectOctets(request.object)) /\ Len(ObjectOctets(request.object)) = 4
    BY <1>1, ObjectNumber DEF IsSequence
  <2> DEFINE t == ObjectOctets(request.object)
             u == Octets(request.property, ContextLength(request.property))
             k == Len(u)
  <2>2. IsSequence(u) /\ k \in 1..4
    <3>1. ContextLength(request.property) \in 1..4
      BY LengthsOfNumbers
    <3>2. ContextLength(request.property) \in Nat
      BY <3>1
    <3>. QED BY <3>1, <3>2, OctetsLength
  <2> HIDE DEF t, u
  <2>3. Len(Tagged(0, 8, t)) = 1 + Len(t) /\ Len(Tagged(1, 8, u)) = 1 + k
    <3>1. IsSequence(t) /\ Len(t) \in 1..4
      BY <2>1 DEF t
    <3>2. IsSequence(u) /\ Len(u) \in 1..4
      BY <2>2
    <3>. QED BY <3>1, <3>2, SizeOfTagged
  <2>4. a = Tagged(0, 8, t) /\ b = Tagged(1, 8, u)
    BY Zenon DEF ContextObject, ContextUnsigned, Context, t, u
  <2> DEFINE lb == Len(b)
  <2>5. lb = 1 + k /\ Len(a) = 1 + Len(t)
    BY <2>3, <2>4, Zenon
  <2>6. Len(t) = 4
    BY <2>1 DEF t
  <2> HIDE DEF a, b, k, lb
  <2>7. lb \in 2..5
    BY <2>2, <2>5
  <2>. QED BY <2>5, <2>6, <2>7 DEF lb
<1> HIDE DEF one, a, b, c, o, g
<1>6. /\ IsSequence(rest4) /\ IsSequence(rest3) /\ IsSequence(rest2) /\ IsSequence(rest1) /\ IsSequence(more)
      /\ one \o a \o b \o c \o o \o body \o g = one \o more
  <2>1. SevenRegroup(one, a, b, c, o, body, g)
    BY <1>1, <1>3, SevenJoin
  <2>. QED BY <2>1, Zenon DEF SevenRegroup
<1> HIDE DEF rest1, rest2, rest3, rest4
<1>7. Len(more) >= 8
  <2>1. Len(more) = Len(a) + Len(rest1)
    <3>1. IsSequence(a) /\ IsSequence(rest1)
      BY <1>3, <1>6
    <3>. QED BY <3>1, SequencesJoin
  <2>2. Len(rest1) = Len(b) + Len(rest2)
    <3>1. IsSequence(b) /\ IsSequence(rest2)
      BY <1>3, <1>6
    <3>. QED BY <3>1, SequencesJoin DEF rest1
  <2>3. Len(rest2) = Len(c) + Len(rest3)
    <3>1. IsSequence(c) /\ IsSequence(rest3)
      BY <1>3, <1>6
    <3>. QED BY <3>1, SequencesJoin DEF rest2
  <2>4. Len(rest3) = Len(o) + Len(rest4)
    <3>1. IsSequence(o) /\ IsSequence(rest4)
      BY <1>3, <1>6
    <3>. QED BY <3>1, SequencesJoin DEF rest3
  <2>5. Len(rest4) \in Nat /\ Len(c) \in Nat
    BY <1>3, <1>6, SequenceLength
  <2>6. Len(o) = 1
    BY <1>4
  <2> DEFINE la == Len(a)
             lb == Len(b)
             lc == Len(c)
             l1 == Len(rest1)
             l2 == Len(rest2)
             l3 == Len(rest3)
             l4 == Len(rest4)
             lm == Len(more)
  <2>7. /\ la = 5 /\ lb \in 2..5 /\ lc \in Nat /\ l4 \in Nat /\ lm = la + l1 /\ l1 = lb + l2
        /\ l2 = lc + l3 /\ l3 = 1 + l4
    BY <1>5, <2>1, <2>2, <2>3, <2>4, <2>5, <2>6
  <2> HIDE DEF la, lb, lc, l1, l2, l3, l4, lm
  <2>8. lm >= 8
    BY <2>7
  <2>. QED BY <2>8 DEF lm
<1> HIDE DEF more
<1>8. IsSequence(one \o more)
  <2>1. IsSequence(one) /\ IsSequence(more)
    BY <1>3, <1>6
  <2>. QED BY <2>1, SequencesJoin
<1>9. IsAnswerTo(octets, m, ComplexAck, one \o more)
  BY <1>2, <1>6, <1>8, Zenon DEF IsAnswerTo
<1>10. IsSequence(more) /\ IsAnswerTo(octets, m, ComplexAck, <<ReadProperty>> \o more)
  BY <1>6, <1>9 DEF one
<1>11. ClassifyRead(octets, m) = "Ack"
  <2> DEFINE kind == CASE ComplexAck = ComplexAck -> "Ack" [] ComplexAck = ErrorPdu -> "Error"
                       [] ComplexAck = RejectPdu -> "Reject" [] OTHER -> "Unrelated"
  <2>1. IsHeardOf(octets, m, ComplexAck, ReadProperty)
    BY <1>10, Classified
  <2>2. ClassifyRead(octets, m) = kind
    BY <2>1, Zenon DEF IsHeardOf
  <2>3. kind = "Ack"
    BY DEF ComplexAck, ErrorPdu, RejectPdu
  <2>. QED BY <2>2, <2>3
<1>12. PICK apdu : IsServiceApdu(apdu, m, ComplexAck, ReadProperty, more) /\ Finds(octets, apdu)
  BY <1>10, ServiceFound
<1>13. /\ apdu # <<>> /\ Pdu(apdu) = ComplexAck /\ apdu[2] = m /\ apdu[3] = ReadProperty
       /\ Len(apdu) = 3 + Len(more) /\ From(apdu, 4) = more
  BY <1>12, Zenon DEF IsServiceApdu
<1>14. Apdu(octets, {Unicast}, 17) = apdu
  <2>1. 17 \in Nat /\ Unicast \in {Unicast} /\ Len(apdu) + 6 >= 17
    <3>1. Len(more) \in Nat
      BY <1>6, SequenceLength
    <3>. QED BY <1>7, <1>13, <3>1
  <2>. QED BY <1>12, <2>1, Zenon DEF Finds
<1>15. AlwaysReads(more, Param(0), number, rest1)
  <2>1. 0 \in 0..15
    OBVIOUS
  <2>2. ReadContext(ContextObject(0, request.object) \o rest1, 0) = Read(number, rest1)
    BY <1>1, <1>6, <2>1, ContextObjectRead
  <2>3. ReadContext(more, 0) = Read(number, rest1)
    BY <2>2, Zenon DEF more, a
  <2>. QED BY <2>3, ParamsReadAs DEF AlwaysReads
<1>16. AlwaysReads(rest1, Param(1), request.property, rest2)
  <2>1. 1 \in 0..15
    OBVIOUS
  <2>2. ReadContext(ContextUnsigned(1, request.property) \o rest2, 1) = Read(request.property, rest2)
    BY <1>1, <1>6, <2>1, ContextRead
  <2>3. ReadContext(rest1, 1) = Read(request.property, rest2)
    BY <2>2, Zenon DEF rest1, b
  <2>. QED BY <2>3, ParamsReadAs DEF AlwaysReads
<1>17. AlwaysReads(rest2, Optional(2, NoIndex), request.index, rest3)
  <2>1. 2 \in 0..15
    OBVIOUS
  <2>2. TagOf(rest3[1]) # 2
    <3>1. IsSequence(o) /\ Len(o) = 1 /\ o[1] = 62
      BY <1>3, <1>4
    <3>2. \A i \in 1..Len(o) : (o \o rest4)[i] = o[i]
      <4>1. IsSequence(o) /\ IsSequence(rest4)
        BY <1>6, <3>1
      <4>. QED BY <4>1, SequencesJoin
    <3>3. rest3[1] = 62
      BY <3>1, <3>2 DEF rest3
    <3>. QED BY <3>3 DEF TagOf
  <2>3. ReadOptional(OptionalIndex(2, request.index) \o rest3, 2, NoIndex) = Read(request.index, rest3)
    BY <1>1, <1>6, <2>1, <2>2, OptionalRead
  <2>4. ReadOptional(rest2, 2, NoIndex) = Read(request.index, rest3)
    BY <2>3, Zenon DEF rest2, c
  <2>. QED BY <2>4, ParamsReadAs DEF AlwaysReads
<1>18. AlwaysReads(rest3, Octet(62), 62, rest4)
  <2>1. ReadOctet(<<62>> \o rest4, 62) = Read(62, rest4)
    BY <1>6, OctetRead
  <2>2. ReadOctet(rest3, 62) = Read(62, rest4)
    BY <1>4, <2>1, Zenon DEF rest3
  <2>. QED BY <2>2, ParamsReadAs DEF AlwaysReads
<1> DEFINE v == <<number, request.property, request.index, 62>>
           r == ReadParams(more, IndexedParams)
<1>19. r = Read(v, rest4)
  <2>1. IsQuadruple(more, Param(0), Param(1), Optional(2, NoIndex), Octet(62),
                    number, request.property, request.index, 62, rest4)
    BY <1>15, <1>16, <1>17, <1>18, Zenon DEF IsQuadruple
  <2>. QED BY <2>1, QuadrupleRead DEF IndexedParams
<1>20. r.ok /\ r.value = v /\ r.rest = rest4
  BY <1>19, ReadSays
<1>21. v[1] = number /\ v[2] = request.property /\ v[3] = request.index
  OBVIOUS
<1>22. Len(apdu) >= 3 /\ Pdu(apdu) = ComplexAck /\ apdu[2] = m /\ apdu[3] = ReadProperty
  <2>1. Len(more) \in Nat
    BY <1>6, SequenceLength
  <2>. QED BY <1>13, <2>1
<1>23. \A params : ReadAckParams(apdu, m, params) = ReadParams(more, params)
  BY <1>13, <1>22, Zenon DEF ReadAckParams
<1> HIDE DEF v, r, number
<1>24. ReadAckHeader(apdu, m, request) = Read(request.index, rest4)
  <2>1. Names(v, request) /\ (request.index # NoIndex => v[3] = request.index)
    BY <1>21 DEF Names, number
  <2>2. ReadAckParams(apdu, m, IndexedParams) = r
    BY <1>23 DEF r
  <2>. QED BY <1>20, <1>21, <2>1, <2>2, Zenon DEF ReadAckHeader, Where, Mapped
<1>25. ASSUME request.index = NoIndex
       PROVE  \E w : PriorityArrayHeader(apdu, m, request) = Read(w, rest4)
  <2> DEFINE w == <<number, request.property, 62>>
             q == ReadParams(more, PlainParams)
  <2>1. rest2 = rest3
    <3>1. c = <<>>
      BY <1>25 DEF c, OptionalIndex
    <3>2. <<>> \o rest3 = rest3
      BY <1>6, SequencesJoin
    <3>. QED BY <3>1, <3>2, Zenon DEF rest2
  <2>2. q = Read(w, rest4)
    <3>1. IsTriple(more, Param(0), Param(1), Octet(62), number, request.property, 62, rest4)
      BY <1>15, <1>16, <1>18, <2>1, Zenon DEF IsTriple
    <3>. QED BY <3>1, TripleRead DEF PlainParams
  <2>3. q.ok /\ q.value = w
    BY <2>2, ReadSays
  <2>4. Names(w, request)
    BY DEF Names, number
  <2>5. ReadAckParams(apdu, m, PlainParams) = q
    BY <1>23
  <2> HIDE DEF q, w
  <2>6. PriorityArrayHeader(apdu, m, request) = q
    BY <2>3, <2>4, <2>5, Zenon DEF PriorityArrayHeader, Where
  <2>. QED BY <2>2, <2>6
<1>26. rest4 = body \o <<63>>
  BY <1>4, Zenon DEF rest4
<1>. QED BY <1>9, <1>11, <1>14, <1>24, <1>25, <1>26, Zenon DEF Acknowledges

\* Octets of which the value is read up to the closing tag.
IsReadWhole(body, request, v) ==
    /\ request.property # PriorityArrayId \/ request.index # NoIndex
    /\ ReadValue(body \o <<63>>, request.property, request.index) = Read(v, <<63>>)

\* The poll hears the value when it is read up to the closing tag.
LEMMA ReadIsHeard ==
    ASSUME NEW octets, NEW m, NEW request, NEW body, IsReadAck(octets, m, request, body), NEW v,
           IsReadWhole(body, request, v)
    PROVE  ReadOutcome(octets, m, request) = [heard |-> "Value", value |-> v]
<1> DEFINE left == body \o <<63>>
           apdu == Apdu(octets, {Unicast}, 17)
           value == [heard |-> "Value", value |-> v]
           header == ReadAckHeader(apdu, m, request)
           closing == <<63>>
           r == ReadValue(left, request.property, request.index)
<1>1. Acknowledges(octets, m, request, body)
  BY AckHeaderRead
<1>2. ClassifyRead(octets, m) = "Ack" /\ header = Read(request.index, left)
  BY <1>1, Zenon DEF Acknowledges
<1>3. r = Read(v, closing)
  BY Zenon DEF IsReadWhole
<1>4. ReadOctet(closing, 63).ok
  <2>1. IsSequence(<<>>)
    BY TupleIsSequence
  <2>2. ReadOctet(<<63>> \o <<>>, 63) = Read(63, <<>>)
    BY <2>1, OctetRead
  <2>3. <<63>> \o <<>> = <<63>>
    OBVIOUS
  <2>4. ReadOctet(closing, 63) = Read(63, <<>>)
    BY <2>2, <2>3
  <2>. QED BY <2>4, ReadSays
<1> HIDE DEF header, left, closing, apdu, r
<1>5. header.ok /\ header.value = request.index /\ header.rest = left
  BY <1>2, ReadSays
<1>6. r.ok /\ r.value = v /\ r.rest = closing
  BY <1>3, ReadSays
<1>7. r = ReadValue(header.rest, request.property, header.value)
  BY <1>5 DEF r
<1>8. Before(r, 63) = Read(v, <<>>)
  BY <1>4, <1>6, Zenon DEF Before
<1>9. ParseReadAck(octets, m, request) = value
  <2> DEFINE q == Before(r, 63)
  <2>1. q.ok /\ q.value = v /\ q.rest = <<>>
    BY <1>8, ReadSays
  <2>2. ParseReadAck(octets, m, request) = Heard(q, LAMBDA w : [heard |-> "Value", value |-> w])
    <3>1. ReadAckHeader(Apdu(octets, {Unicast}, 17), m, request) = header
      BY DEF header, apdu
    <3>. QED BY <1>5, <1>7, <3>1, Zenon DEF ParseReadAck, ReadAckIn
  <2> HIDE DEF q
  <2>3. Heard(q, LAMBDA w : [heard |-> "Value", value |-> w]) = [heard |-> "Value", value |-> q.value]
    BY <2>1, Zenon DEF Heard
  <2>. QED BY <2>1, <2>2, <2>3
<1>10. value # Unheard
  <2>1. value.heard = "Value" /\ Unheard.heard = "Nothing"
    BY DEF Unheard
  <2>2. "Value" # "Nothing"
    OBVIOUS
  <2> HIDE DEF value
  <2>. QED BY <2>1, <2>2
<1>11. ~(request.property = PriorityArrayId /\ request.index = NoIndex)
  BY Zenon DEF IsReadWhole
<1> HIDE DEF value
<1>12. ReadOutcome(octets, m, request) = value
  BY <1>2, <1>9, <1>10, <1>11 DEF ReadOutcome, OutcomeOf
<1>. QED BY <1>12 DEF value

\* The acknowledgement of a read of a single value.
IsScalarAck(octets, m, request, v) ==
    /\ v \in Values /\ Encode(v) # <<>> /\ HasRoom(v)
    /\ request.property \notin {ObjectListId, PropertyListId, PriorityArrayId} \/ request.index # NoIndex
    /\ IsReadAck(octets, m, request, Encode(v))

\* A single value is heard as it was sent.
LEMMA ScalarIsHeard ==
    ASSUME NEW octets, NEW m, NEW request, NEW v, IsScalarAck(octets, m, request, v)
    PROVE  ReadOutcome(octets, m, request) = [heard |-> "Value", value |-> v]
<1> DEFINE body == Encode(v)
           closing == <<63>>
           os == body \o closing
<1>1. /\ v \in Values /\ body # <<>> /\ HasRoom(v)
      /\ request.property \notin {ObjectListId, PropertyListId, PriorityArrayId} \/ request.index # NoIndex
      /\ IsReadAck(octets, m, request, body)
  BY Zenon DEF IsScalarAck
<1>2. IsSequence(body) /\ Len(body) >= 1 /\ Len(body) \in Nat /\ ~IsContext(body[1])
  BY <1>1, EncodedFirst
<1>3. IsSequence(closing) /\ Len(closing) = 1
  BY TupleIsSequence
<1> HIDE DEF closing
<1>4. IsValueIn(os, v, closing)
  BY <1>1, <1>3, Zenon DEF IsValueIn
<1>5. ReadScalar(os) = Read(v, closing)
  BY <1>1, <1>4, ValueRead
<1> HIDE DEF body
<1>6. os # <<>> /\ os[1] # 63
  <2>1. Len(os) = Len(body) + Len(closing) /\ \A i \in 1..Len(body) : os[i] = body[i]
    <3>1. IsSequence(body) /\ IsSequence(closing)
      BY <1>2, <1>3
    <3>. QED BY <3>1, SequencesJoin
  <2>2. os[1] = body[1] /\ Len(os) >= 2
    BY <1>2, <1>3, <2>1
  <2>3. IsContext(63)
    BY DEF IsContext
  <2>. QED BY <1>2, <2>2, <2>3
<1> HIDE DEF os
<1>7. ReadValue(os, request.property, request.index) = ReadScalar(os)
  <2>1. ~(request.property = ObjectListId /\ TagOf(os[1]) = 12 /\ request.index = NoIndex)
        /\ ~(request.property = PropertyListId /\ request.index = NoIndex)
        /\ ~(request.property = DeviceAddressBindingId /\ os[1] = 63)
    BY <1>1, <1>6
  <2>. QED BY <1>6, <2>1, Zenon DEF ReadValue
<1>8. request.property # PriorityArrayId \/ request.index # NoIndex
  BY <1>1
<1>9. IsReadWhole(body, request, v)
  BY <1>5, <1>7, <1>8, Zenon DEF IsReadWhole, os, closing
<1>. QED BY <1>1, <1>9, ReadIsHeard

-----------------------------------------------------------------------------
\* The priority array.

\* What is left of joined parts after each of them.
IsLeft(left, parts, tail) ==
    /\ left[0] = Joined(parts) \o tail /\ left[Len(parts)] = tail
    /\ \A j \in 1..Len(parts) : left[j - 1] = parts[j] \o left[j]
    /\ \A j \in 0..Len(parts) : IsSequence(left[j])

\* Joined parts can be taken off one after the other.
LEMMA PartsFollow ==
    ASSUME NEW parts, Len(parts) \in Nat, \A i \in 1..Len(parts) : IsSequence(parts[i]), NEW tail, IsSequence(tail)
    PROVE  \E left : IsLeft(left, parts, tail)
<1> DEFINE n == Len(parts)
<1>1. PICK f : /\ f[0] = <<>>
               /\ \A k \in 1..n : f[k] = parts[n - k + 1] \o f[k - 1]
               /\ Joined(parts) = f[n]
  BY PartsJoin
<1> DEFINE T == {k \in 0..n : ~IsSequence(f[k])}
<1>2. T = {}
  <2>. SUFFICES ASSUME T # {} PROVE FALSE
    OBVIOUS
  <2>0. T \in SUBSET Nat
    OBVIOUS
  <2>1. PICK p \in T : \A x \in T : p <= x
    BY <2>0, LeastFound
  <2>2. p # 0
    BY <2>1, <1>1, TupleIsSequence
  <2>3. IsSequence(f[p - 1])
    BY <2>1, <2>2
  <2>4. IsSequence(parts[n - p + 1])
    BY <2>1, <2>2
  <2>5. f[p] = parts[n - p + 1] \o f[p - 1]
    <3>1. p \in 1..n
      BY <2>1, <2>2
    <3>. QED BY <3>1, <1>1
  <2>6. IsSequence(f[p])
    BY <2>3, <2>4, <2>5, SequencesJoin
  <2>. QED BY <2>1, <2>6
<1> DEFINE left == [j \in 0..n |-> f[n - j] \o tail]
<1>3. n \in Nat
  OBVIOUS
<1> HIDE DEF n
<1>4. \A j \in 0..n : IsSequence(f[j])
  BY <1>2
<1>5. left[0] = f[n] \o tail /\ left[n] = f[0] \o tail
  <2>1. n - n = 0 /\ n - 0 = n /\ 0 \in 0..n /\ n \in 0..n
    BY <1>3
  <2>. QED BY <2>1
<1>6. <<>> \o tail = tail
  BY DEF IsSequence
<1>7. ASSUME NEW j \in 1..n PROVE left[j - 1] = parts[j] \o left[j]
  <2>1. /\ j \in 0..n /\ j - 1 \in 0..n /\ n - (j - 1) \in 1..n /\ n - (n - (j - 1)) + 1 = j
        /\ (n - (j - 1)) - 1 = n - j /\ n - j \in 0..n
    BY <1>3
  <2>2. f[n - (j - 1)] = parts[j] \o f[n - j]
    <3> DEFINE k == n - (j - 1)
    <3>1. k \in 1..n /\ n - k + 1 = j /\ k - 1 = n - j
      BY <2>1
    <3> HIDE DEF k
    <3>2. f[k] = parts[n - k + 1] \o f[k - 1]
      BY <1>1, <3>1
    <3>3. f[k] = parts[j] \o f[n - j]
      BY <3>1, <3>2
    <3>. QED BY <3>3 DEF k
  <2>3. Regroups(parts[j], f[n - j], tail)
    <3>1. IsSequence(parts[j]) /\ IsSequence(f[n - j])
      BY <1>4, <2>1 DEF n
    <3>. QED BY <3>1, Regrouped
  <2>4. left[j - 1] = f[n - (j - 1)] \o tail /\ left[j] = f[n - j] \o tail
    BY <2>1
  <2> HIDE DEF left
  <2>. QED BY <2>2, <2>3, <2>4, Zenon DEF Regroups
<1>8. ASSUME NEW j \in 0..n PROVE IsSequence(left[j])
  <2>1. n - j \in 0..n
    BY <1>3
  <2>2. IsSequence(f[n - j])
    BY <1>4, <2>1
  <2>. QED BY <2>2, SequencesJoin
<1> HIDE DEF left
<1>9. IsLeft(left, parts, tail)
  BY <1>1, <1>5, <1>6, <1>7, <1>8 DEF IsLeft, n
<1>. QED BY <1>9

\* A value that can be read is not taken for the closing tag.
LEMMA ValueFirst ==
    ASSUME NEW os, NEW v, NEW rest, IsValueIn(os, v, rest)
    PROVE  os # <<>> /\ os[1] # 63
<1> DEFINE body == Encode(v)
<1>1. v \in Values /\ body # <<>> /\ IsSequence(rest) /\ os = body \o rest
  BY Zenon DEF IsValueIn
<1>2. IsSequence(body) /\ Len(body) >= 1 /\ Len(body) \in Nat /\ ~IsContext(body[1])
  BY <1>1, EncodedFirst
<1>3. Len(rest) \in Nat
  BY <1>1, SequenceLength
<1> HIDE DEF body
<1>4. Len(os) = Len(body) + Len(rest) /\ \A i \in 1..Len(body) : os[i] = body[i]
  <2>1. Len(body \o rest) = Len(body) + Len(rest) /\ \A i \in 1..Len(body) : (body \o rest)[i] = body[i]
    <3>1. IsSequence(body) /\ IsSequence(rest)
      BY <1>1, <1>2
    <3>. QED BY <3>1, SequencesJoin
  <2>. QED BY <1>1, <2>1
<1>5. os[1] = body[1] /\ Len(os) >= 1
  BY <1>2, <1>3, <1>4
<1>6. IsContext(63)
  BY DEF IsContext
<1>. QED BY <1>2, <1>5, <1>6

\* parsePriorityArray reads one value more.
LEMMA SlotRead ==
    ASSUME NEW seen, NEW os, NEW v, NEW rest, IsValueIn(os, v, rest), HasRoom(v), NEW k
    PROVE  NextSlot(Read(seen, os), k) = Read(Append(seen, v), rest)
<1> DEFINE r == Read(seen, os)
           next == ReadScalar(os)
<1>1. os # <<>> /\ os[1] # 63
  BY ValueFirst
<1>2. next = Read(v, rest)
  BY ValueRead
<1>3. r.ok /\ r.value = seen /\ r.rest = os
  BY ReadSays
<1> HIDE DEF next, r
<1>4. next.ok /\ next.value = v /\ next.rest = rest
  BY <1>2, ReadSays
<1>5. ~(~r.ok \/ r.rest = <<>> \/ r.rest[1] = 63)
  BY <1>1, <1>3
<1>6. ReadScalar(r.rest) = next
  BY <1>3 DEF next
<1>7. NextSlot(r, k) = Read(Append(r.value, next.value), next.rest)
  BY <1>4, <1>5, <1>6, Zenon DEF NextSlot
<1>. QED BY <1>3, <1>4, <1>7 DEF r

\* The first k entries are the first k - 1 and the k-th.
LEMMA PrefixGrows ==
    ASSUME NEW S, NEW s \in Seq(S), NEW k \in 1..Len(s)
    PROVE  Append(SubSeq(s, 1, k - 1), s[k]) = SubSeq(s, 1, k)
OBVIOUS

\* What is left of an encoded list after each entry.
Follows(left, entries, tail) ==
    /\ left[0] = EncodeAll(entries) \o tail /\ left[Len(entries)] = tail
    /\ \A j \in 1..Len(entries) : IsValueIn(left[j - 1], entries[j], left[j])

\* The entries of an encoded list can be read off one after the other.
LEMMA ValuesFollow ==
    ASSUME NEW entries \in Seq(Values), EncodeAll(entries) # <<>>, NEW tail, IsSequence(tail)
    PROVE  \E left : Follows(left, entries, tail)
<1> DEFINE parts == [i \in DOMAIN entries |-> Encode(entries[i])]
           n == Len(entries)
<1>1. n \in Nat /\ DOMAIN entries = 1..n /\ \A i \in 1..n : entries[i] \in Values
  OBVIOUS
<1>2. Len(parts) = n /\ \A i \in 1..n : parts[i] = Encode(entries[i])
  BY <1>1
<1>3. ~(\E i \in DOMAIN entries : Encode(entries[i]) = <<>>) /\ EncodeAll(entries) = Joined(parts)
  BY Zenon DEF EncodeAll
<1> HIDE DEF parts, n
<1>4. \A i \in 1..n : IsSequence(parts[i])
  BY <1>1, <1>2, ValueIsNoList, EncodedIsSequence
<1>5. PICK left : IsLeft(left, parts, tail)
  <2>1. Len(parts) \in Nat /\ \A i \in 1..Len(parts) : IsSequence(parts[i])
    BY <1>1, <1>2, <1>4
  <2>. QED BY <2>1, PartsFollow
<1>6. /\ left[0] = Joined(parts) \o tail /\ left[n] = tail
      /\ \A j \in 1..n : left[j - 1] = parts[j] \o left[j]
      /\ \A j \in 0..n : IsSequence(left[j])
  BY <1>2, <1>5 DEF IsLeft
<1>7. ASSUME NEW j \in 1..n PROVE IsValueIn(left[j - 1], entries[j], left[j])
  <2>1. j \in 0..n
    BY <1>1
  <2>2. /\ entries[j] \in Values /\ Encode(entries[j]) # <<>> /\ IsSequence(left[j])
        /\ left[j - 1] = Encode(entries[j]) \o left[j]
    BY <1>1, <1>2, <1>3, <1>6, <2>1
  <2>. QED BY <2>2, Zenon DEF IsValueIn
<1>. QED BY <1>3, <1>6, <1>7 DEF Follows, n

\* The states of the reading of a priority array.
IsSlotReading(f, os, n) == f = [k \in 0..n |-> IF k = 0 THEN Read(<<>>, os) ELSE NextSlot(f[k - 1], k)]

\* The fold over the slots has its intermediate states.
LEMMA SlotReadingExists ==
    ASSUME NEW os, NEW n \in Nat
    PROVE  \E f : IsSlotReading(f, os, n)
<1> DEFINE T == {m \in Nat : ~(\E g : IsSlotReading(g, os, m))}
<1>. SUFFICES ASSUME T # {} PROVE FALSE
  OBVIOUS
<1>1. PICK p \in T : \A x \in T : p <= x
  BY LeastFound
<1>2. p # 0
  <2>1. IsSlotReading([k \in 0..0 |-> Read(<<>>, os)], os, 0)
    BY DEF IsSlotReading
  <2>. QED BY <1>1, <2>1
<1>3. PICK g : IsSlotReading(g, os, p - 1)
  BY <1>1, <1>2
<1> DEFINE h == [k \in 0..p |-> IF k = p THEN NextSlot(g[p - 1], p) ELSE g[k]]
<1>4. h = [k \in 0..p |-> IF k = 0 THEN Read(<<>>, os) ELSE NextSlot(h[k - 1], k)]
  <2>1. ASSUME NEW k \in 0..p
        PROVE  h[k] = IF k = 0 THEN Read(<<>>, os) ELSE NextSlot(h[k - 1], k)
    <3>1. CASE k = p
      BY <3>1, <1>2
    <3>2. CASE k # p
      <4>1. g[k] = IF k = 0 THEN Read(<<>>, os) ELSE NextSlot(g[k - 1], k)
        BY <1>3, <3>2 DEF IsSlotReading
      <4>. QED BY <4>1, <3>2
    <3>. QED BY <3>1, <3>2
  <2>. QED BY <2>1
<1>5. IsSlotReading(h, os, p)
  BY <1>4 DEF IsSlotReading
<1>. QED BY <1>1, <1>5

\* Sixteen slots are read back in their order.
LEMMA SlotsRead ==
    ASSUME NEW entries \in Seq(Values), Len(entries) = 16, \A i \in 1..16 : HasRoom(entries[i]),
           NEW left, NEW tail, Follows(left, entries, tail)
    PROVE  ReadSlots(EncodeAll(entries) \o tail) = Read(entries, tail)
<1> DEFINE os == EncodeAll(entries) \o tail
           F == CHOOSE f : IsSlotReading(f, os, 16)
<1>1. IsSlotReading(F, os, 16)
  <2>1. 16 \in Nat
    OBVIOUS
  <2> HIDE DEF os
  <2>2. \E f : IsSlotReading(f, os, 16)
    BY <2>1, SlotReadingExists
  <2>. QED BY <2>2
<1>2. ReadSlots(os) = F[16]
  BY DEF ReadSlots, Iterated, IsSlotReading
<1>3. left[0] = os /\ left[16] = tail /\ \A j \in 1..16 : IsValueIn(left[j - 1], entries[j], left[j])
  BY DEF Follows
<1> HIDE DEF F, os
<1>4. F[0] = Read(<<>>, os) /\ \A k \in 1..16 : F[k] = NextSlot(F[k - 1], k)
  BY <1>1 DEF IsSlotReading
<1> DEFINE says(k) == Read(SubSeq(entries, 1, k), left[k])
           T == {k \in 0..16 : F[k] # says(k)}
<1>5. T = {}
  <2>. SUFFICES ASSUME T # {} PROVE FALSE
    OBVIOUS
  <2>0. T \in SUBSET Nat
    OBVIOUS
  <2>1. PICK p \in T : \A x \in T : p <= x
    BY <2>0, LeastFound
  <2>2. p # 0
    <3>1. SubSeq(entries, 1, 0) = <<>>
      OBVIOUS
    <3>2. says(0) = Read(<<>>, os)
      BY <1>3, <3>1
    <3>. QED BY <1>4, <2>1, <3>2
  <2>3. p \in 1..16 /\ p - 1 \in 0..16
    BY <2>1, <2>2
  <2>4. F[p - 1] = Read(SubSeq(entries, 1, p - 1), left[p - 1])
    BY <2>1, <2>3
  <2>5. NextSlot(Read(SubSeq(entries, 1, p - 1), left[p - 1]), p)
            = Read(Append(SubSeq(entries, 1, p - 1), entries[p]), left[p])
    <3>1. IsValueIn(left[p - 1], entries[p], left[p]) /\ HasRoom(entries[p])
      BY <1>3, <2>3
    <3>. QED BY <3>1, SlotRead
  <2>6. Append(SubSeq(entries, 1, p - 1), entries[p]) = SubSeq(entries, 1, p)
    BY <2>3, PrefixGrows
  <2>7. F[p] = says(p)
    BY <1>4, <2>3, <2>4, <2>5, <2>6
  <2>. QED BY <2>1, <2>7
<1>6. F[16] = says(16)
  BY <1>5
<1>7. SubSeq(entries, 1, 16) = entries
  OBVIOUS
<1>. QED BY <1>2, <1>3, <1>6, <1>7 DEF os

\* A priority array that is read as a whole is heard as its sixteen slots.
LEMMA SlotsAreHeard ==
    ASSUME NEW octets, NEW m, NEW request, NEW entries \in Seq(Values), Len(entries) = 16,
           \A i \in 1..16 : HasRoom(entries[i]), EncodeAll(entries) # <<>>,
           request.property = PriorityArrayId, request.index = NoIndex,
           IsReadAck(octets, m, request, EncodeAll(entries))
    PROVE  ReadOutcome(octets, m, request) = [heard |-> "Slots", slots |-> entries]
<1> DEFINE closing == <<63>>
           os == EncodeAll(entries) \o closing
           apdu == Apdu(octets, {Unicast}, 17)
           header == PriorityArrayHeader(apdu, m, request)
           value == [heard |-> "Slots", slots |-> entries]
           r == ReadSlots(os)
<1>1. Acknowledges(octets, m, request, EncodeAll(entries))
  BY AckHeaderRead
<1>2. ClassifyRead(octets, m) = "Ack" /\ \E v : header = Read(v, os)
  BY <1>1, Zenon DEF Acknowledges
<1>3. r = Read(entries, closing)
  <2>1. IsSequence(closing)
    BY TupleIsSequence
  <2> HIDE DEF closing
  <2>2. PICK left : Follows(left, entries, closing)
    BY <2>1, ValuesFollow
  <2>. QED BY <2>2, SlotsRead
<1> HIDE DEF header, os, apdu, r
<1>4. header.ok /\ header.rest = os
  BY <1>2, ReadSays
<1>5. r.ok /\ r.value = entries /\ r.rest = <<63>>
  BY <1>3, ReadSays
<1>6. r = ReadSlots(header.rest)
  BY <1>4 DEF r
<1>7. PriorityArrayHeader(Apdu(octets, {Unicast}, 17), m, request) = header
  BY DEF header, apdu
<1>8. ParsePriorityArrayAck(octets, m, request) = value
  <2> DEFINE q == Read(r.value, <<>>)
  <2>1. q.ok /\ q.value = entries /\ q.rest = <<>>
    BY <1>5, ReadSays
  <2>2. ParsePriorityArrayAck(octets, m, request) = Heard(q, LAMBDA v : [heard |-> "Slots", slots |-> v])
    BY <1>4, <1>5, <1>6, <1>7, Zenon DEF ParsePriorityArrayAck
  <2> HIDE DEF q
  <2>3. Heard(q, LAMBDA v : [heard |-> "Slots", slots |-> v]) = [heard |-> "Slots", slots |-> q.value]
    BY <2>1, Zenon DEF Heard
  <2>. QED BY <2>1, <2>2, <2>3
<1>9. value # Unheard
  <2>1. value.heard = "Slots" /\ Unheard.heard = "Nothing"
    BY DEF Unheard
  <2>2. "Slots" # "Nothing"
    OBVIOUS
  <2> HIDE DEF value
  <2>. QED BY <2>1, <2>2
<1> HIDE DEF value
<1>10. ReadOutcome(octets, m, request) = value
  BY <1>2, <1>8, <1>9 DEF ReadOutcome, OutcomeOf
<1>. QED BY <1>10 DEF value

-----------------------------------------------------------------------------
\* Lists.

\* The list of a device that is empty, read as a whole.
LEMMA EmptyIsHeard ==
    ASSUME NEW octets, NEW m, NEW request, request.property = DeviceAddressBindingId, request.index = NoIndex,
           IsReadAck(octets, m, request, <<>>)
    PROVE  ReadOutcome(octets, m, request) = [heard |-> "Value", value |-> <<"Empty">>]
<1> DEFINE none == <<>>
           closing == <<63>>
           empty == <<"Empty">>
<1>1. none \o closing = closing /\ closing # <<>> /\ closing[1] = 63
  OBVIOUS
<1>2. /\ request.property # ObjectListId /\ request.property # PropertyListId
      /\ request.property # PriorityArrayId
  BY DEF DeviceAddressBindingId, ObjectListId, PropertyListId, PriorityArrayId
<1> HIDE DEF none, closing, empty
<1>3. ReadValue(closing, request.property, request.index) = Read(empty, closing)
  BY <1>1, <1>2, Zenon DEF ReadValue, empty
<1>4. IsReadWhole(none, request, empty)
  BY <1>1, <1>2, <1>3, Zenon DEF IsReadWhole, closing
<1>5. IsReadAck(octets, m, request, none)
  BY DEF none
<1>6. ReadOutcome(octets, m, request) = [heard |-> "Value", value |-> empty]
  BY <1>4, <1>5, ReadIsHeard
<1>. QED BY <1>6 DEF empty

\* What a state of the reading of a list says.
LEMMA ListedSays ==
    \A status, seen, used, rest :
        /\ Listed(status, seen, used, rest).status = status /\ Listed(status, seen, used, rest).seen = seen
        /\ Listed(status, seen, used, rest).used = used /\ Listed(status, seen, used, rest).rest = rest
        /\ [Listed(status, seen, used, rest) EXCEPT !.status = "Whole"] = Listed("Whole", seen, used, rest)
BY DEF Listed

\* One object identifier more is read while the client's text has room for
\* it.
LEMMA ObjectListStep ==
    ASSUME NEW object \in ObjectIds, NEW os, NEW rest, IsValueIn(os, <<"ObjectIdentifier", object>>, rest),
           NEW seen, NEW used, NEW k, ~(Extended(used, ObjectWidth(object)) >= MaxText)
    PROVE  NextObject(Listed("More", seen, used, os), k)
               = Listed("More", Append(seen, object), Extended(used, ObjectWidth(object)), rest)
<1> DEFINE list == Listed("More", seen, used, os)
           v == <<"ObjectIdentifier", object>>
           found == Mapped(ReadApplication(os, 12), ObjectFrom)
<1>1. os # <<>> /\ os[1] # 63
  BY ValueFirst
<1>2. v[1] = "ObjectIdentifier" /\ v[2] = object
  OBVIOUS
<1> HIDE DEF v
<1>3. Encode(v) = Application(12, ObjectOctets(object))
  BY <1>2, Zenon DEF Encode
<1>4. IsSequence(rest) /\ os = Application(12, ObjectOctets(object)) \o rest
  <2>1. IsValueIn(os, v, rest)
    BY DEF v
  <2>. QED BY <1>3, <2>1, Zenon DEF IsValueIn
<1>5. found = Read(object, rest)
  <2>1. ReadApplication(os, 12) = Read(Number(ObjectOctets(object)), rest)
    BY <1>4, ObjectIdentifierRead
  <2> DEFINE r == ReadApplication(os, 12)
  <2>2. r.ok /\ r.value = Number(ObjectOctets(object)) /\ r.rest = rest
    BY <2>1, ReadSays
  <2>3. ObjectFrom(Number(ObjectOctets(object))) = object
    BY ObjectNumber
  <2> HIDE DEF r
  <2>4. Mapped(r, ObjectFrom) = Read(object, rest)
    BY <2>2, <2>3, Zenon DEF Mapped
  <2>. QED BY <2>4 DEF r
<1>6. list.status = "More" /\ list.seen = seen /\ list.used = used /\ list.rest = os
  BY ListedSays
<1> HIDE DEF list, found
<1>7. found.ok /\ found.value = object /\ found.rest = rest
  BY <1>5, ReadSays
<1>8. Mapped(ReadApplication(list.rest, 12), ObjectFrom) = found
  BY <1>6 DEF found
<1>9. NextObject(list, k) = Listed("More", Append(list.seen, found.value),
                                   Extended(list.used, ObjectWidth(found.value)), found.rest)
  <2>1. ~(list.status # "More") /\ ~(list.rest = <<>> \/ list.rest[1] = 63) /\ ~(~found.ok)
        /\ ~(Extended(list.used, ObjectWidth(found.value)) >= MaxText)
    BY <1>1, <1>6, <1>7
  <2>. QED BY <1>8, <2>1, Zenon DEF NextObject, NextEntry
<1>. QED BY <1>6, <1>7, <1>9 DEF list

\* One property identifier more is read while the client's text has room for
\* it.
LEMMA PropertyListStep ==
    ASSUME NEW n \in Int32, NEW os, NEW rest, IsValueIn(os, <<"Enumerated", n>>, rest),
           NEW seen, NEW used, NEW k, ~(Extended(used, Digits(n)) >= MaxText)
    PROVE  NextProperty(Listed("More", seen, used, os), k)
               = Listed("More", Append(seen, n), Extended(used, Digits(n)), rest)
<1> DEFINE list == Listed("More", seen, used, os)
           v == <<"Enumerated", n>>
           found == ReadApplication(os, 9)
<1>1. os # <<>> /\ os[1] # 63
  BY ValueFirst
<1>2. v[1] = "Enumerated" /\ v[2] = n
  OBVIOUS
<1> HIDE DEF v
<1>3. Encode(v) = Application(9, Octets(n, UnsignedLength(n)))
  BY <1>2, Zenon DEF Encode
<1>4. IsSequence(rest) /\ os = Application(9, Octets(n, UnsignedLength(n))) \o rest
  <2>1. IsValueIn(os, v, rest)
    BY DEF v
  <2>. QED BY <1>3, <2>1, Zenon DEF IsValueIn
<1>5. found = Read(n, rest)
  <2>1. 9 \in 0..15
    OBVIOUS
  <2>. QED BY <1>4, <2>1, ApplicationRead
<1>6. list.status = "More" /\ list.seen = seen /\ list.used = used /\ list.rest = os
  BY ListedSays
<1> HIDE DEF list, found
<1>7. found.ok /\ found.value = n /\ found.rest = rest
  BY <1>5, ReadSays
<1>8. ReadApplication(list.rest, 9) = found
  BY <1>6 DEF found
<1>9. NextProperty(list, k) = Listed("More", Append(list.seen, found.value),
                                     Extended(list.used, Digits(found.value)), found.rest)
  <2>1. ~(list.status # "More") /\ ~(list.rest = <<>> \/ list.rest[1] = 63) /\ ~(~found.ok)
        /\ ~(Extended(list.used, Digits(found.value)) >= MaxText)
    BY <1>1, <1>6, <1>7
  <2>. QED BY <1>8, <2>1, Zenon DEF NextProperty, NextEntry
<1>. QED BY <1>6, <1>7, <1>9 DEF list

\* At the closing tag a list that is not empty is whole, and stays so.
LEMMA ListEnds ==
    ASSUME NEW seen, NEW used, NEW k
    PROVE  /\ seen # <<>> =>
                 /\ NextObject(Listed("More", seen, used, <<63>>), k) = Listed("Whole", seen, used, <<63>>)
                 /\ NextProperty(Listed("More", seen, used, <<63>>), k) = Listed("Whole", seen, used, <<63>>)
           /\ NextObject(Listed("Whole", seen, used, <<63>>), k) = Listed("Whole", seen, used, <<63>>)
           /\ NextProperty(Listed("Whole", seen, used, <<63>>), k) = Listed("Whole", seen, used, <<63>>)
<1> DEFINE closing == <<63>>
           more == Listed("More", seen, used, closing)
           whole == Listed("Whole", seen, used, closing)
<1>1. closing # <<>> /\ closing[1] = 63
  OBVIOUS
<1> HIDE DEF closing
<1>2. /\ more.status = "More" /\ more.seen = seen /\ more.rest = closing /\ whole.status = "Whole"
      /\ [more EXCEPT !.status = "Whole"] = whole
  BY ListedSays
<1>3. "Whole" # "More"
  OBVIOUS
<1> HIDE DEF more, whole
<1>4. whole.status # "More"
  BY <1>2, <1>3
<1>5. NextObject(whole, k) = whole /\ NextProperty(whole, k) = whole
  BY <1>4, Zenon DEF NextObject, NextProperty, NextEntry
<1>6. ASSUME seen # <<>>
      PROVE  NextObject(more, k) = whole /\ NextProperty(more, k) = whole
  <2>1. ~(more.status # "More") /\ (more.rest = <<>> \/ more.rest[1] = 63) /\ ~(more.seen = <<>>)
    BY <1>1, <1>2, <1>6
  <2>2. NextObject(more, k) = [more EXCEPT !.status = "Whole"]
    BY <2>1, Zenon DEF NextObject, NextEntry
  <2>3. NextProperty(more, k) = [more EXCEPT !.status = "Whole"]
    BY <2>1, Zenon DEF NextProperty, NextEntry
  <2>. QED BY <1>2, <2>2, <2>3
<1>. QED BY <1>5, <1>6 DEF more, whole, closing

\* How much of the client's text is used after each entry, which never
\* exceeds it.
IsUse(used, entries) ==
    /\ used \in [0..Len(entries) -> Below(MaxText)] /\ used[0] = 0
    /\ \A k \in 1..Len(entries) : used[k] = Extended(used[k - 1], WidthOf(entries[k]))
\* The text has room for the whole list.
TextFits(entries) == \E used : IsUse(used, entries)
\* An entry of the lists of a device.
IsEntry(v) == (\E object \in ObjectIds : v = <<"ObjectIdentifier", object>>) \/ (\E n \in Int32 : v = <<"Enumerated", n>>)

\* An entry takes two octets at least.
LEMMA EntrySize ==
    ASSUME NEW os, NEW v, NEW rest, IsValueIn(os, v, rest), IsEntry(v)
    PROVE  Len(os) \in Nat /\ Len(rest) \in Nat /\ Len(os) >= 2 + Len(rest)
<1> DEFINE body == Encode(v)
<1>1. body # <<>> /\ IsSequence(rest) /\ os = body \o rest
  BY Zenon DEF IsValueIn
<1>2. IsSequence(body) /\ Len(body) \in 2..5
  <2>1. ASSUME NEW object \in ObjectIds, v = <<"ObjectIdentifier", object>> PROVE IsSequence(body) /\ Len(body) \in 2..5
    <3>1. v[1] = "ObjectIdentifier" /\ v[2] = object
      BY <2>1
    <3>2. Encode(v) = Application(12, ObjectOctets(object))
      BY <3>1, Zenon DEF Encode
    <3>3. IsApplication(Application(12, ObjectOctets(object)), 12, Number(ObjectOctets(object)))
      BY ObjectIdParam
    <3>. QED BY <3>2, <3>3, Zenon DEF IsApplication
  <2>2. ASSUME NEW n \in Int32, v = <<"Enumerated", n>> PROVE IsSequence(body) /\ Len(body) \in 2..5
    <3>1. v[1] = "Enumerated" /\ v[2] = n
      BY <2>2
    <3>2. Encode(v) = Application(9, Octets(n, UnsignedLength(n)))
      BY <3>1, Zenon DEF Encode
    <3>3. IsApplication(Application(9, Octets(n, UnsignedLength(n))), 9, n)
      <4>1. 9 \in 0..15
        OBVIOUS
      <4>. QED BY <4>1, NumberParam
    <3>. QED BY <3>2, <3>3, Zenon DEF IsApplication
  <2>. QED BY <2>1, <2>2, Zenon DEF IsEntry
<1>3. Len(rest) \in Nat
  BY <1>1, SequenceLength
<1> HIDE DEF body
<1>4. Len(body \o rest) = Len(body) + Len(rest)
  BY <1>1, <1>2, SequencesJoin
<1> DEFINE a == Len(body)
           b == Len(rest)
<1>5. Len(os) = a + b /\ a \in 2..5 /\ b \in Nat
  BY <1>1, <1>2, <1>3, <1>4
<1> HIDE DEF a, b
<1>6. a + b \in Nat /\ b \in Nat /\ a + b >= 2 + b
  BY <1>5
<1>. QED BY <1>5, <1>6 DEF b

\* So that there are fewer entries than steps of the reading.
LEMMA StepsSuffice ==
    ASSUME NEW entries \in Seq(Values), \A i \in 1..Len(entries) : IsEntry(entries[i]),
           NEW left, NEW tail, Follows(left, entries, tail), entries # <<>>, Len(tail) \in Nat
    PROVE  Len(left[0]) \in Nat /\ Len(left[0]) \div 2 + 1 >= Len(entries) + 1
<1> DEFINE n == Len(entries)
           size(j) == Len(left[n - j])
           T == {j \in 0..n : ~(size(j) \in Nat /\ size(j) >= 2 * j)}
<1>1. n \in Nat
  OBVIOUS
<1>2. \A j \in 1..n : IsValueIn(left[j - 1], entries[j], left[j]) /\ IsEntry(entries[j])
  BY DEF Follows
<1>3. left[n] = tail
  BY DEF Follows
<1> HIDE DEF n
<1>4. T = {}
  <2>. SUFFICES ASSUME T # {} PROVE FALSE
    OBVIOUS
  <2>0. T \in SUBSET Nat
    BY <1>1
  <2>1. PICK p \in T : \A x \in T : p <= x
    BY <2>0, LeastFound
  <2>2. p # 0
    <3>1. n - 0 = n
      BY <1>1
    <3>. QED BY <1>3, <2>1, <3>1
  <2>3. p \in 1..n /\ p - 1 \in 0..n /\ n - p + 1 \in 1..n /\ (n - p + 1) - 1 = n - p /\ n - (p - 1) = n - p + 1
    BY <1>1, <2>1, <2>2
  <2>4. size(p - 1) \in Nat /\ size(p - 1) >= 2 * (p - 1)
    BY <2>1, <2>3
  <2>5. IsValueIn(left[n - p], entries[n - p + 1], left[n - p + 1]) /\ IsEntry(entries[n - p + 1])
    BY <1>2, <2>3
  <2>6. Len(left[n - p]) \in Nat /\ Len(left[n - p + 1]) \in Nat /\ Len(left[n - p]) >= 2 + Len(left[n - p + 1])
    BY <2>5, EntrySize
  <2>7. size(p) \in Nat /\ size(p) >= 2 * p
    BY <2>3, <2>4, <2>6
  <2>. QED BY <2>1, <2>7
<1>5. size(n) \in Nat /\ size(n) >= 2 * n
  <2>1. n \in 0..n
    BY <1>1
  <2> HIDE DEF size
  <2>2. \A j \in 0..n : size(j) \in Nat /\ size(j) >= 2 * j
    BY <1>4
  <2>. QED BY <2>1, <2>2
<1>6. n - n = 0
  BY <1>1
<1> DEFINE l == Len(left[0])
<1>7. l \in Nat /\ l >= 2 * n
  BY <1>5, <1>6
<1> HIDE DEF l
<1>8. l \div 2 + 1 >= n + 1
  BY <1>1, <1>7
<1>. QED BY <1>7, <1>8 DEF l, n

\* A reading that takes an entry with every step until all are taken, and
\* then stays.
IsRun(F, contents, used, left, m) ==
    /\ F[0] = Listed("More", <<>>, used[0], left[0])
    /\ \A k \in 1..Len(contents) :
          F[k - 1] = Listed("More", SubSeq(contents, 1, k - 1), used[k - 1], left[k - 1]) =>
              F[k] = Listed("More", Append(SubSeq(contents, 1, k - 1), contents[k]), used[k], left[k])
    /\ \A k \in (Len(contents) + 1)..m :
          F[k - 1] \in {Listed(status, contents, used[Len(contents)], left[Len(contents)]) : status \in {"More", "Whole"}} =>
              F[k] = Listed("Whole", contents, used[Len(contents)], left[Len(contents)])

\* Such a reading ends with the whole list.
LEMMA RunEnds ==
    ASSUME NEW S, NEW contents \in Seq(S), NEW used, NEW left, NEW F, NEW m \in Nat, m >= Len(contents) + 1,
           IsRun(F, contents, used, left, m)
    PROVE  F[m] = Listed("Whole", contents, used[Len(contents)], left[Len(contents)])
<1> DEFINE n == Len(contents)
           more(k) == Listed("More", SubSeq(contents, 1, k), used[k], left[k])
           whole == Listed("Whole", contents, used[n], left[n])
           says(k) == IF k <= n THEN more(k) ELSE whole
           T == {k \in 0..m : F[k] # says(k)}
<1>1. n \in Nat /\ m >= n + 1
  OBVIOUS
<1>2. SubSeq(contents, 1, n) = contents /\ SubSeq(contents, 1, 0) = <<>>
  OBVIOUS
<1>3. T = {}
  <2>. SUFFICES ASSUME T # {} PROVE FALSE
    OBVIOUS
  <2>0. T \in SUBSET Nat
    OBVIOUS
  <2>1. PICK p \in T : \A x \in T : p <= x
    BY <2>0, LeastFound
  <2>2. p # 0
    <3> DEFINE none == SubSeq(contents, 1, 0)
    <3>0. none = <<>> /\ 0 <= n
      BY <1>1, <1>2
    <3> HIDE DEF none
    <3>1. says(0) = Listed("More", <<>>, used[0], left[0])
      BY <3>0 DEF none
    <3>. QED BY <2>1, <3>1 DEF IsRun
  <2>3. p \in 1..m /\ p - 1 \in 0..m
    BY <2>1, <2>2
  <2>4. F[p - 1] = says(p - 1)
    BY <2>1, <2>3
  <2>5. CASE p <= n
    <3>1. p \in 1..n /\ p - 1 <= n
      BY <1>1, <2>3, <2>5
    <3>2. F[p - 1] = more(p - 1)
      BY <2>4, <3>1
    <3>3. F[p] = Listed("More", Append(SubSeq(contents, 1, p - 1), contents[p]), used[p], left[p])
      BY <3>1, <3>2 DEF IsRun
    <3>4. Append(SubSeq(contents, 1, p - 1), contents[p]) = SubSeq(contents, 1, p)
      BY <3>1, PrefixGrows
    <3>5. F[p] = says(p)
      BY <2>5, <3>3, <3>4
    <3>. QED BY <2>1, <3>5
  <2>6. CASE p > n
    <3>1. p \in (n + 1)..m
      BY <1>1, <2>3, <2>6
    <3>2. F[p - 1] \in {Listed(status, contents, used[n], left[n]) : status \in {"More", "Whole"}}
      <4>1. CASE p - 1 = n
        <5>0. n <= n /\ F[n] = says(n)
          BY <1>1, <2>4, <4>1
        <5>1. F[p - 1] = Listed("More", contents, used[n], left[n])
          BY <1>2, <4>1, <5>0
        <5>. QED BY <5>1
      <4>2. CASE p - 1 # n
        <5>1. ~(p - 1 <= n)
          BY <1>1, <3>1, <4>2
        <5>2. F[p - 1] = whole
          BY <2>4, <5>1
        <5>. QED BY <5>2
      <4>. QED BY <4>1, <4>2
    <3>3. F[p] = whole
      BY <3>1, <3>2 DEF IsRun
    <3>4. ~(p <= n)
      BY <1>1, <3>1
    <3>. QED BY <2>1, <3>3, <3>4
  <2>. QED BY <1>1, <2>3, <2>5, <2>6
<1>4. F[m] = says(m) /\ ~(m <= n)
  BY <1>1, <1>3
<1>. QED BY <1>4

\* The states of the reading of an Object_List.
IsObjectReading(f, os, n) ==
    f = [k \in 0..n |-> IF k = 0 THEN Listed("More", <<>>, 0, os) ELSE NextObject(f[k - 1], k)]

\* The fold over an Object_List has its intermediate states.
LEMMA ObjectReadingExists ==
    ASSUME NEW os, NEW n \in Nat
    PROVE  \E f : IsObjectReading(f, os, n)
<1> DEFINE start == Listed("More", <<>>, 0, os)
           T == {m \in Nat : ~(\E g : IsObjectReading(g, os, m))}
<1>. SUFFICES ASSUME T # {} PROVE FALSE
  OBVIOUS
<1>1. PICK p \in T : \A x \in T : p <= x
  BY LeastFound
<1>2. p # 0
  <2>1. IsObjectReading([k \in 0..0 |-> start], os, 0)
    BY DEF IsObjectReading
  <2>. QED BY <1>1, <2>1
<1>3. PICK g : IsObjectReading(g, os, p - 1)
  BY <1>1, <1>2
<1> DEFINE h == [k \in 0..p |-> IF k = p THEN NextObject(g[p - 1], p) ELSE g[k]]
<1>4. h = [k \in 0..p |-> IF k = 0 THEN start ELSE NextObject(h[k - 1], k)]
  <2>1. ASSUME NEW k \in 0..p
        PROVE  h[k] = IF k = 0 THEN start ELSE NextObject(h[k - 1], k)
    <3>1. CASE k = p
      BY <3>1, <1>2
    <3>2. CASE k # p
      <4>1. g[k] = IF k = 0 THEN start ELSE NextObject(g[k - 1], k)
        BY <1>3, <3>2 DEF IsObjectReading
      <4>. QED BY <4>1, <3>2
    <3>. QED BY <3>1, <3>2
  <2>. QED BY <2>1
<1>5. IsObjectReading(h, os, p)
  BY <1>4 DEF IsObjectReading
<1>. QED BY <1>1, <1>5

\* An Object_List for which the client has room is read back, every object in
\* its place.
LEMMA ObjectsRead ==
    ASSUME NEW entries \in Seq({"ObjectIdentifier"} \X ObjectIds), entries # <<>>, EncodeAll(entries) # <<>>,
           TextFits(entries)
    PROVE  ReadObjects(EncodeAll(entries) \o <<63>>)
               = Read([i \in DOMAIN entries |-> entries[i][2]], <<63>>)
<1> DEFINE closing == <<63>>
           os == EncodeAll(entries) \o closing
           contents == [i \in DOMAIN entries |-> entries[i][2]]
           n == Len(entries)
           m == Len(os) \div 2 + 1
           F == CHOOSE f : IsObjectReading(f, os, m)
<1>1. entries \in Seq(Values)
  <2>1. {"ObjectIdentifier"} \X ObjectIds \subseteq Values
    BY DEF Values
  <2>. QED BY <2>1
<1>2. /\ n \in Nat /\ n >= 1 /\ contents \in Seq(ObjectIds) /\ Len(contents) = n
      /\ \A i \in 1..n : contents[i] \in ObjectIds /\ entries[i] = <<"ObjectIdentifier", contents[i]>>
  <2>1. /\ n \in Nat /\ n >= 1 /\ DOMAIN entries = 1..n
        /\ \A i \in 1..n : entries[i] \in {"ObjectIdentifier"} \X ObjectIds
    OBVIOUS
  <2>2. \A i \in 1..n : entries[i][2] \in ObjectIds /\ entries[i] = <<"ObjectIdentifier", entries[i][2]>>
    BY <2>1
  <2>3. contents = [i \in 1..n |-> entries[i][2]]
    BY <2>1
  <2> HIDE DEF contents, n
  <2>. QED BY <2>1, <2>2, <2>3
<1>3. \A i \in 1..n : IsEntry(entries[i]) /\ WidthOf(entries[i]) = ObjectWidth(contents[i])
  <2>. SUFFICES ASSUME NEW i \in 1..n PROVE IsEntry(entries[i]) /\ WidthOf(entries[i]) = ObjectWidth(contents[i])
    OBVIOUS
  <2>1. contents[i] \in ObjectIds /\ entries[i] = <<"ObjectIdentifier", contents[i]>>
    BY <1>2
  <2> HIDE DEF contents, n
  <2>2. entries[i][1] = "ObjectIdentifier" /\ entries[i][2] = contents[i]
    BY <2>1
  <2>3. IsEntry(entries[i])
    BY <2>1 DEF IsEntry
  <2>. QED BY <2>2, <2>3 DEF WidthOf
<1>4. IsSequence(closing) /\ Len(closing) = 1
  BY TupleIsSequence
<1>5. PICK used : IsUse(used, entries)
  BY DEF TextFits
<1> HIDE DEF closing
<1>6. PICK left : Follows(left, entries, closing)
  BY <1>1, <1>4, ValuesFollow
<1>7. left[0] = os /\ left[n] = closing /\ \A j \in 1..n : IsValueIn(left[j - 1], entries[j], left[j])
  BY <1>6 DEF Follows
<1>8. m \in Nat /\ m >= n + 1
  <2>1. \A i \in 1..Len(entries) : IsEntry(entries[i])
    BY <1>3
  <2>5. Len(closing) \in Nat
    BY <1>4
  <2>2. Len(left[0]) \in Nat /\ Len(left[0]) \div 2 + 1 >= Len(entries) + 1
    BY <1>1, <1>6, <2>1, <2>5, StepsSuffice
  <2> DEFINE l == Len(os)
  <2>3. l \in Nat /\ l \div 2 + 1 >= n + 1
    BY <1>7, <2>2
  <2> HIDE DEF l
  <2>4. l \div 2 + 1 \in Nat
    BY <2>3
  <2>. QED BY <2>3, <2>4 DEF l
<1> HIDE DEF os, m
<1>9. IsObjectReading(F, os, m)
  <2>1. \E f : IsObjectReading(f, os, m)
    BY <1>8, ObjectReadingExists
  <2>. QED BY <2>1
<1>10. Iterated(NextObject, Listed("More", <<>>, 0, os), m) = F[m]
  BY DEF Iterated, IsObjectReading
<1> HIDE DEF F, contents, n
<1>11. F[0] = Listed("More", <<>>, 0, os) /\ \A k \in 1..m : F[k] = NextObject(F[k - 1], k)
  BY <1>8, <1>9 DEF IsObjectReading
<1>12. used[0] = 0 /\ \A k \in 1..n : used[k] = Extended(used[k - 1], WidthOf(entries[k])) /\ ~(used[k] >= MaxText)
  <2>1. used \in [0..n -> Below(MaxText)] /\ used[0] = 0
    BY <1>5 DEF IsUse, n
  <2>2. \A k \in 1..n : used[k] = Extended(used[k - 1], WidthOf(entries[k]))
    BY <1>5 DEF IsUse, n
  <2>3. \A u \in Below(MaxText) : ~(u >= MaxText)
    BY CodecAssumption DEF Below
  <2>4. \A k \in 1..n : used[k] \in Below(MaxText)
    BY <1>2, <2>1
  <2>. QED BY <2>1, <2>2, <2>3, <2>4
<1>13. IsRun(F, contents, used, left, m)
  <2>1. F[0] = Listed("More", <<>>, used[0], left[0])
    BY <1>7, <1>11, <1>12
  <2>2. ASSUME NEW k \in 1..n,
               F[k - 1] = Listed("More", SubSeq(contents, 1, k - 1), used[k - 1], left[k - 1])
        PROVE  F[k] = Listed("More", Append(SubSeq(contents, 1, k - 1), contents[k]), used[k], left[k])
    <3>1. k \in 1..m
      BY <1>2, <1>8
    <3>2. IsValueIn(left[k - 1], <<"ObjectIdentifier", contents[k]>>, left[k]) /\ contents[k] \in ObjectIds
      BY <1>2, <1>7
    <3> DEFINE more == Extended(used[k - 1], ObjectWidth(contents[k]))
    <3>3. more = used[k] /\ ~(more >= MaxText)
      BY <1>3, <1>12
    <3> DEFINE seen == SubSeq(contents, 1, k - 1)
    <3> HIDE DEF seen
    <3>4. NextObject(Listed("More", seen, used[k - 1], left[k - 1]), k)
              = Listed("More", Append(seen, contents[k]), more, left[k])
      BY <3>2, <3>3, ObjectListStep
    <3>5. F[k] = Listed("More", Append(seen, contents[k]), more, left[k])
      BY <1>11, <2>2, <3>1, <3>4 DEF seen
    <3> HIDE DEF more
    <3>. QED BY <3>3, <3>5 DEF seen
  <2>3. ASSUME NEW k \in (n + 1)..m, NEW status \in {"More", "Whole"},
               F[k - 1] = Listed(status, contents, used[n], left[n])
        PROVE  F[k] = Listed("Whole", contents, used[n], left[n])
    <3>1. k \in 1..m
      BY <1>2
    <3>2. contents # <<>>
      BY <1>2
    <3>3. left[n] = <<63>>
      BY <1>7 DEF closing
    <3>4. NextObject(Listed(status, contents, used[n], left[n]), k) = Listed("Whole", contents, used[n], left[n])
      <4> DEFINE u == used[n]
      <4> HIDE DEF u
      <4>1. CASE status = "More"
        BY <3>2, <3>3, <4>1, ListEnds
      <4>2. CASE status = "Whole"
        BY <3>3, <4>2, ListEnds
      <4>. QED BY <4>1, <4>2
    <3>. QED BY <1>11, <2>3, <3>1, <3>4
  <2>. QED BY <1>2, <2>1, <2>2, <2>3 DEF IsRun
<1>14. F[m] = Listed("Whole", contents, used[n], left[n])
  BY <1>2, <1>8, <1>13, RunEnds
<1> DEFINE list == Listed("Whole", contents, used[n], left[n])
<1>15. list.status = "Whole" /\ list.seen = contents /\ list.rest = closing
  BY <1>7, ListedSays
<1> HIDE DEF list
<1>16. ReadList(NextObject, os) = Read(list.seen, list.rest)
  <2>1. Iterated(NextObject, Listed("More", <<>>, 0, os), Len(os) \div 2 + 1) = list
    BY <1>10, <1>14 DEF list, m
  <2>. QED BY <1>15, <2>1, Zenon DEF ReadList
<1>17. ReadObjects(os) = Read(contents, closing)
  BY <1>15, <1>16, Zenon DEF ReadObjects
<1>. QED BY <1>17 DEF os, contents, closing

\* The states of the reading of a Property_List.
IsPropertyReading(f, os, n) ==
    f = [k \in 0..n |-> IF k = 0 THEN Listed("More", <<>>, 0, os) ELSE NextProperty(f[k - 1], k)]

\* The fold over a Property_List has its intermediate states.
LEMMA PropertyReadingExists ==
    ASSUME NEW os, NEW n \in Nat
    PROVE  \E f : IsPropertyReading(f, os, n)
<1> DEFINE start == Listed("More", <<>>, 0, os)
           T == {m \in Nat : ~(\E g : IsPropertyReading(g, os, m))}
<1>. SUFFICES ASSUME T # {} PROVE FALSE
  OBVIOUS
<1>1. PICK p \in T : \A x \in T : p <= x
  BY LeastFound
<1>2. p # 0
  <2>1. IsPropertyReading([k \in 0..0 |-> start], os, 0)
    BY DEF IsPropertyReading
  <2>. QED BY <1>1, <2>1
<1>3. PICK g : IsPropertyReading(g, os, p - 1)
  BY <1>1, <1>2
<1> DEFINE h == [k \in 0..p |-> IF k = p THEN NextProperty(g[p - 1], p) ELSE g[k]]
<1>4. h = [k \in 0..p |-> IF k = 0 THEN start ELSE NextProperty(h[k - 1], k)]
  <2>1. ASSUME NEW k \in 0..p
        PROVE  h[k] = IF k = 0 THEN start ELSE NextProperty(h[k - 1], k)
    <3>1. CASE k = p
      BY <3>1, <1>2
    <3>2. CASE k # p
      <4>1. g[k] = IF k = 0 THEN start ELSE NextProperty(g[k - 1], k)
        BY <1>3, <3>2 DEF IsPropertyReading
      <4>. QED BY <4>1, <3>2
    <3>. QED BY <3>1, <3>2
  <2>. QED BY <2>1
<1>5. IsPropertyReading(h, os, p)
  BY <1>4 DEF IsPropertyReading
<1>. QED BY <1>1, <1>5

\* A Property_List for which the client has room is read back.
LEMMA PropertiesRead ==
    ASSUME NEW entries \in Seq({"Enumerated"} \X Int32), entries # <<>>, EncodeAll(entries) # <<>>,
           TextFits(entries)
    PROVE  ReadProperties(EncodeAll(entries) \o <<63>>)
               = Read([i \in DOMAIN entries |-> entries[i][2]], <<63>>)
<1> DEFINE closing == <<63>>
           os == EncodeAll(entries) \o closing
           contents == [i \in DOMAIN entries |-> entries[i][2]]
           n == Len(entries)
           m == Len(os) \div 2 + 1
           F == CHOOSE f : IsPropertyReading(f, os, m)
<1>1. entries \in Seq(Values)
  <2>1. {"Enumerated"} \X Int32 \subseteq Values
    BY DEF Values
  <2>. QED BY <2>1
<1>2. /\ n \in Nat /\ n >= 1 /\ contents \in Seq(Int32) /\ Len(contents) = n
      /\ \A i \in 1..n : contents[i] \in Int32 /\ entries[i] = <<"Enumerated", contents[i]>>
  <2>1. /\ n \in Nat /\ n >= 1 /\ DOMAIN entries = 1..n
        /\ \A i \in 1..n : entries[i] \in {"Enumerated"} \X Int32
    OBVIOUS
  <2>2. \A i \in 1..n : entries[i][2] \in Int32 /\ entries[i] = <<"Enumerated", entries[i][2]>>
    BY <2>1
  <2>3. contents = [i \in 1..n |-> entries[i][2]]
    BY <2>1
  <2> HIDE DEF contents, n
  <2>. QED BY <2>1, <2>2, <2>3
<1>3. \A i \in 1..n : IsEntry(entries[i]) /\ WidthOf(entries[i]) = Digits(contents[i])
  <2>. SUFFICES ASSUME NEW i \in 1..n PROVE IsEntry(entries[i]) /\ WidthOf(entries[i]) = Digits(contents[i])
    OBVIOUS
  <2>1. contents[i] \in Int32 /\ entries[i] = <<"Enumerated", contents[i]>>
    BY <1>2
  <2> HIDE DEF contents, n
  <2>2. entries[i][1] = "Enumerated" /\ entries[i][2] = contents[i]
    BY <2>1
  <2>3. IsEntry(entries[i])
    BY <2>1 DEF IsEntry
  <2>. QED BY <2>2, <2>3 DEF WidthOf
<1>4. IsSequence(closing) /\ Len(closing) = 1
  BY TupleIsSequence
<1>5. PICK used : IsUse(used, entries)
  BY DEF TextFits
<1> HIDE DEF closing
<1>6. PICK left : Follows(left, entries, closing)
  BY <1>1, <1>4, ValuesFollow
<1>7. left[0] = os /\ left[n] = closing /\ \A j \in 1..n : IsValueIn(left[j - 1], entries[j], left[j])
  BY <1>6 DEF Follows
<1>8. m \in Nat /\ m >= n + 1
  <2>1. \A i \in 1..Len(entries) : IsEntry(entries[i])
    BY <1>3
  <2>5. Len(closing) \in Nat
    BY <1>4
  <2>2. Len(left[0]) \in Nat /\ Len(left[0]) \div 2 + 1 >= Len(entries) + 1
    BY <1>1, <1>6, <2>1, <2>5, StepsSuffice
  <2> DEFINE l == Len(os)
  <2>3. l \in Nat /\ l \div 2 + 1 >= n + 1
    BY <1>7, <2>2
  <2> HIDE DEF l
  <2>4. l \div 2 + 1 \in Nat
    BY <2>3
  <2>. QED BY <2>3, <2>4 DEF l
<1> HIDE DEF os, m
<1>9. IsPropertyReading(F, os, m)
  <2>1. \E f : IsPropertyReading(f, os, m)
    BY <1>8, PropertyReadingExists
  <2>. QED BY <2>1
<1>10. Iterated(NextProperty, Listed("More", <<>>, 0, os), m) = F[m]
  BY DEF Iterated, IsPropertyReading
<1> HIDE DEF F, contents, n
<1>11. F[0] = Listed("More", <<>>, 0, os) /\ \A k \in 1..m : F[k] = NextProperty(F[k - 1], k)
  BY <1>8, <1>9 DEF IsPropertyReading
<1>12. used[0] = 0 /\ \A k \in 1..n : used[k] = Extended(used[k - 1], WidthOf(entries[k])) /\ ~(used[k] >= MaxText)
  <2>1. used \in [0..n -> Below(MaxText)] /\ used[0] = 0
    BY <1>5 DEF IsUse, n
  <2>2. \A k \in 1..n : used[k] = Extended(used[k - 1], WidthOf(entries[k]))
    BY <1>5 DEF IsUse, n
  <2>3. \A u \in Below(MaxText) : ~(u >= MaxText)
    BY CodecAssumption DEF Below
  <2>4. \A k \in 1..n : used[k] \in Below(MaxText)
    BY <1>2, <2>1
  <2>. QED BY <2>1, <2>2, <2>3, <2>4
<1>13. IsRun(F, contents, used, left, m)
  <2>1. F[0] = Listed("More", <<>>, used[0], left[0])
    BY <1>7, <1>11, <1>12
  <2>2. ASSUME NEW k \in 1..n,
               F[k - 1] = Listed("More", SubSeq(contents, 1, k - 1), used[k - 1], left[k - 1])
        PROVE  F[k] = Listed("More", Append(SubSeq(contents, 1, k - 1), contents[k]), used[k], left[k])
    <3>1. k \in 1..m
      BY <1>2, <1>8
    <3>2. IsValueIn(left[k - 1], <<"Enumerated", contents[k]>>, left[k]) /\ contents[k] \in Int32
      BY <1>2, <1>7
    <3> DEFINE more == Extended(used[k - 1], Digits(contents[k]))
    <3>3. more = used[k] /\ ~(more >= MaxText)
      BY <1>3, <1>12
    <3> DEFINE seen == SubSeq(contents, 1, k - 1)
    <3> HIDE DEF seen
    <3>4. NextProperty(Listed("More", seen, used[k - 1], left[k - 1]), k)
              = Listed("More", Append(seen, contents[k]), more, left[k])
      BY <3>2, <3>3, PropertyListStep
    <3>5. F[k] = Listed("More", Append(seen, contents[k]), more, left[k])
      BY <1>11, <2>2, <3>1, <3>4 DEF seen
    <3> HIDE DEF more
    <3>. QED BY <3>3, <3>5 DEF seen
  <2>3. ASSUME NEW k \in (n + 1)..m, NEW status \in {"More", "Whole"},
               F[k - 1] = Listed(status, contents, used[n], left[n])
        PROVE  F[k] = Listed("Whole", contents, used[n], left[n])
    <3>1. k \in 1..m
      BY <1>2
    <3>2. contents # <<>>
      BY <1>2
    <3>3. left[n] = <<63>>
      BY <1>7 DEF closing
    <3>4. NextProperty(Listed(status, contents, used[n], left[n]), k) = Listed("Whole", contents, used[n], left[n])
      <4> DEFINE u == used[n]
      <4> HIDE DEF u
      <4>1. CASE status = "More"
        BY <3>2, <3>3, <4>1, ListEnds
      <4>2. CASE status = "Whole"
        BY <3>3, <4>2, ListEnds
      <4>. QED BY <4>1, <4>2
    <3>. QED BY <1>11, <2>3, <3>1, <3>4
  <2>. QED BY <1>2, <2>1, <2>2, <2>3 DEF IsRun
<1>14. F[m] = Listed("Whole", contents, used[n], left[n])
  BY <1>2, <1>8, <1>13, RunEnds
<1> DEFINE list == Listed("Whole", contents, used[n], left[n])
<1>15. list.status = "Whole" /\ list.seen = contents /\ list.rest = closing
  BY <1>7, ListedSays
<1> HIDE DEF list
<1>16. ReadList(NextProperty, os) = Read(list.seen, list.rest)
  <2>1. Iterated(NextProperty, Listed("More", <<>>, 0, os), Len(os) \div 2 + 1) = list
    BY <1>10, <1>14 DEF list, m
  <2>. QED BY <1>15, <2>1, Zenon DEF ReadList
<1>17. ReadProperties(os) = Read(contents, closing)
  BY <1>15, <1>16, Zenon DEF ReadProperties
<1>. QED BY <1>17 DEF os, contents, closing

\* The tag of an object identifier.
LEMMA ObjectTag ==
    ASSUME NEW object \in ObjectIds, NEW os, NEW rest, IsValueIn(os, <<"ObjectIdentifier", object>>, rest)
    PROVE  TagOf(os[1]) = 12
<1> DEFINE v == <<"ObjectIdentifier", object>>
<1>1. v[1] = "ObjectIdentifier" /\ v[2] = object
  OBVIOUS
<1> HIDE DEF v
<1>2. Encode(v) = Application(12, ObjectOctets(object))
  BY <1>1, Zenon DEF Encode
<1>3. IsSequence(rest) /\ os = Application(12, ObjectOctets(object)) \o rest
  <2>1. IsValueIn(os, v, rest)
    BY DEF v
  <2>. QED BY <1>2, <2>1, Zenon DEF IsValueIn
<1> DEFINE octets == ObjectOctets(object)
<1>4. Len(octets) = 4 /\ octets \in Seq(Byte)
  BY ObjectNumber
<1> HIDE DEF octets
<1>5. IsSequence(octets) /\ Len(octets) \in 0..7
  BY <1>4 DEF IsSequence
<1>6. IsTagged(os, 12, octets, rest)
  <2>1. 12 \in 0..15
    OBVIOUS
  <2>. QED BY <1>3, <1>5, <2>1, Zenon DEF IsTagged, octets
<1>. QED BY <1>5, <1>6, FirstOctet, Zenon

\* What the octets of a list begin with.
LEMMA ListBegins ==
    ASSUME NEW entries \in Seq(Values), entries # <<>>, EncodeAll(entries) # <<>>
    PROVE  LET os == EncodeAll(entries) \o <<63>> IN
           /\ os # <<>>
           /\ entries[1][1] = "ObjectIdentifier" => TagOf(os[1]) = 12
<1> DEFINE closing == <<63>>
           os == EncodeAll(entries) \o closing
           v == entries[1]
<1>1. IsSequence(closing)
  BY TupleIsSequence
<1> HIDE DEF closing
<1>2. PICK left : Follows(left, entries, closing)
  BY <1>1, ValuesFollow
<1>3. 1 \in 1..Len(entries) /\ 1 - 1 = 0 /\ v \in Values
  OBVIOUS
<1>4. left[0] = os /\ IsValueIn(left[0], v, left[1])
  BY <1>2, <1>3 DEF Follows
<1> HIDE DEF os, v
<1>5. os # <<>>
  BY <1>4, ValueFirst
<1>6. ASSUME v[1] = "ObjectIdentifier" PROVE TagOf(os[1]) = 12
  <2>1. PICK object \in ObjectIds : v = <<"ObjectIdentifier", object>>
    BY <1>3, <1>6 DEF Values, Null
  <2>2. IsValueIn(os, <<"ObjectIdentifier", object>>, left[1])
    BY <1>4, <2>1
  <2>. QED BY <2>2, ObjectTag
<1>. QED BY <1>5, <1>6 DEF os, v, closing

\* An Object_List or a Property_List that is read as a whole is heard as its
\* entries.
LEMMA ListIsHeard ==
    ASSUME NEW octets, NEW m, NEW request, request.index = NoIndex, NEW entries, entries # <<>>,
           EncodeAll(entries) # <<>>, TextFits(entries), IsReadAck(octets, m, request, EncodeAll(entries))
    PROVE  LET contents == [i \in DOMAIN entries |-> entries[i][2]] IN
           /\ request.property = ObjectListId /\ entries \in Seq({"ObjectIdentifier"} \X ObjectIds) =>
                 ReadOutcome(octets, m, request) = [heard |-> "Value", value |-> <<"ObjectIdentifierList", contents>>]
           /\ request.property = PropertyListId /\ entries \in Seq({"Enumerated"} \X Int32) =>
                 ReadOutcome(octets, m, request) = [heard |-> "Value", value |-> <<"PropertyIdentifierList", contents>>]
<1> DEFINE contents == [i \in DOMAIN entries |-> entries[i][2]]
           closing == <<63>>
           body == EncodeAll(entries)
           os == body \o closing
           objects == <<"ObjectIdentifierList", contents>>
           properties == <<"PropertyIdentifierList", contents>>
<1>1. ASSUME request.property = ObjectListId, entries \in Seq({"ObjectIdentifier"} \X ObjectIds)
      PROVE  ReadOutcome(octets, m, request) = [heard |-> "Value", value |-> objects]
  <2>1. ReadObjects(os) = Read(contents, closing)
    BY <1>1, ObjectsRead
  <2>2. entries \in Seq(Values) /\ entries[1][1] = "ObjectIdentifier"
    <3>1. {"ObjectIdentifier"} \X ObjectIds \subseteq Values
      BY DEF Values
    <3>. QED BY <1>1, <3>1
  <2>3. os # <<>> /\ TagOf(os[1]) = 12
    BY <2>2, ListBegins
  <2> HIDE DEF contents, closing, body, os
  <2>4. Typed("ObjectIdentifierList", ReadObjects(os)) = Read(objects, closing)
    BY <2>1, TypedSays DEF objects
  <2>5. request.property # PriorityArrayId
    BY <1>1 DEF ObjectListId, PriorityArrayId
  <2> HIDE DEF objects
  <2>6. ReadValue(os, request.property, request.index) = Read(objects, closing)
    <3>1. request.property = ObjectListId /\ TagOf(os[1]) = 12 /\ request.index = NoIndex
      BY <1>1, <2>3
    <3>. QED BY <2>3, <2>4, <3>1, Zenon DEF ReadValue
  <2>7. IsReadWhole(body, request, objects)
    BY <2>5, <2>6, Zenon DEF IsReadWhole, os, closing
  <2>8. IsReadAck(octets, m, request, body)
    BY DEF body
  <2>. QED BY <2>7, <2>8, ReadIsHeard
<1>2. ASSUME request.property = PropertyListId, entries \in Seq({"Enumerated"} \X Int32)
      PROVE  ReadOutcome(octets, m, request) = [heard |-> "Value", value |-> properties]
  <2>1. ReadProperties(os) = Read(contents, closing)
    BY <1>2, PropertiesRead
  <2>2. entries \in Seq(Values)
    <3>1. {"Enumerated"} \X Int32 \subseteq Values
      BY DEF Values
    <3>. QED BY <1>2, <3>1
  <2>3. os # <<>>
    BY <2>2, ListBegins
  <2> HIDE DEF contents, closing, body, os
  <2>4. Typed("PropertyIdentifierList", ReadProperties(os)) = Read(properties, closing)
    BY <2>1, TypedSays DEF properties
  <2>5. request.property # PriorityArrayId /\ request.property # ObjectListId
    BY <1>2 DEF ObjectListId, PriorityArrayId, PropertyListId
  <2> HIDE DEF properties
  <2>6. ReadValue(os, request.property, request.index) = Read(properties, closing)
    <3>1. ~(request.property = ObjectListId /\ TagOf(os[1]) = 12 /\ request.index = NoIndex)
          /\ (request.property = PropertyListId /\ request.index = NoIndex)
      BY <1>2, <2>5
    <3>. QED BY <2>3, <2>4, <3>1, Zenon DEF ReadValue
  <2>7. IsReadWhole(body, request, properties)
    BY <2>5, <2>6, Zenon DEF IsReadWhole, os, closing
  <2>8. IsReadAck(octets, m, request, body)
    BY DEF body
  <2>. QED BY <2>7, <2>8, ReadIsHeard
<1>. QED BY <1>1, <1>2

\* The lengths of the client's text on the way.
IsGrowth(f, entries, n) ==
    f = [k \in 0..n |-> IF k = 0 THEN 0 ELSE Extended(f[k - 1], WidthOf(entries[k]))]

\* The fold of the length has its intermediate states.
LEMMA GrowthExists ==
    ASSUME NEW entries, NEW n \in Nat
    PROVE  \E f : IsGrowth(f, entries, n)
<1> DEFINE T == {m \in Nat : ~(\E g : IsGrowth(g, entries, m))}
<1>. SUFFICES ASSUME T # {} PROVE FALSE
  OBVIOUS
<1>1. PICK p \in T : \A x \in T : p <= x
  BY LeastFound
<1>2. p # 0
  <2>1. IsGrowth([k \in 0..0 |-> 0], entries, 0)
    BY DEF IsGrowth
  <2>. QED BY <1>1, <2>1
<1>3. PICK g : IsGrowth(g, entries, p - 1)
  BY <1>1, <1>2
<1> DEFINE h == [k \in 0..p |-> IF k = p THEN Extended(g[p - 1], WidthOf(entries[p])) ELSE g[k]]
<1>4. h = [k \in 0..p |-> IF k = 0 THEN 0 ELSE Extended(h[k - 1], WidthOf(entries[k]))]
  <2>1. ASSUME NEW k \in 0..p
        PROVE  h[k] = IF k = 0 THEN 0 ELSE Extended(h[k - 1], WidthOf(entries[k]))
    <3>1. CASE k = p
      BY <3>1, <1>2
    <3>2. CASE k # p
      <4>1. g[k] = IF k = 0 THEN 0 ELSE Extended(g[k - 1], WidthOf(entries[k]))
        BY <1>3, <3>2 DEF IsGrowth
      <4>. QED BY <4>1, <3>2
    <3>. QED BY <3>1, <3>2
  <2>. QED BY <2>1
<1>5. IsGrowth(h, entries, p)
  BY <1>4 DEF IsGrowth
<1>. QED BY <1>1, <1>5

\* A number has one to ten digits.
LEMMA DigitsCounted == \A n : Digits(n) \in 1..10
BY SMT DEF Digits

\* The width of an entry is a natural number.
LEMMA WidthsCounted == \A v : WidthOf(v) \in Nat
<1>. SUFFICES ASSUME NEW v PROVE WidthOf(v) \in Nat
  OBVIOUS
<1>1. CASE v[1] = "ObjectIdentifier"
  <2> DEFINE a == Digits(v[2].type)
             b == Digits(v[2].instance)
  <2>1. a \in 1..10 /\ b \in 1..10
    BY DigitsCounted
  <2>2. WidthOf(v) = a + 1 + b
    BY <1>1 DEF WidthOf, ObjectWidth
  <2> HIDE DEF a, b
  <2>. QED BY <2>1, <2>2
<1>2. CASE v[1] # "ObjectIdentifier"
  <2> DEFINE a == Digits(v[2])
  <2>1. a \in 1..10
    BY DigitsCounted
  <2>2. WidthOf(v) = a
    BY <1>2 DEF WidthOf
  <2> HIDE DEF a
  <2>. QED BY <2>1, <2>2
<1>. QED BY <1>1, <1>2

\* A list whose text has room is read to its end.
LEMMA TextHasRoom ==
    ASSUME NEW entries, Len(entries) \in Nat, TextLength(entries) < MaxText
    PROVE  TextFits(entries)
<1> DEFINE n == Len(entries)
           F == CHOOSE f : IsGrowth(f, entries, n)
<1>1. IsGrowth(F, entries, n)
  BY GrowthExists
<1>2. TextLength(entries) = F[n]
  BY DEF TextLength, Iterated, IsGrowth
<1> HIDE DEF F, n
<1>3. n \in Nat /\ F[n] < MaxText
  BY <1>2 DEF n
<1>4. /\ F[0] = 0 /\ DOMAIN F = 0..n /\ F = [k \in 0..n |-> F[k]]
      /\ \A k \in 1..n : F[k] = Extended(F[k - 1], WidthOf(entries[k]))
  BY <1>1, <1>3 DEF IsGrowth
<1> DEFINE T == {k \in 0..n : F[k] \notin Nat}
<1>5. \A k \in 0..n : F[k] \in Nat
  <2>. SUFFICES ASSUME T # {} PROVE FALSE
    OBVIOUS
  <2>0. T \in SUBSET Nat
    BY <1>3
  <2>1. PICK p \in T : \A x \in T : p <= x
    BY <2>0, LeastFound
  <2>2. p # 0
    BY <1>4, <2>1
  <2>3. p \in 1..n /\ p - 1 \in 0..n
    BY <1>3, <2>1, <2>2
  <2>4. F[p - 1] \in Nat
    BY <2>1, <2>3
  <2>5. WidthOf(entries[p]) \in Nat
    BY WidthsCounted
  <2>6. F[p] \in Nat
    <3> DEFINE w == WidthOf(entries[p])
               before == F[p - 1]
    <3>1. F[p] = Extended(before, w) /\ before \in Nat /\ w \in Nat
      BY <1>4, <2>3, <2>4, <2>5
    <3> HIDE DEF w, before
    <3>2. Extended(before, w) \in Nat
      BY <3>1 DEF Extended
    <3>. QED BY <3>1, <3>2
  <2>. QED BY <2>1, <2>6
<1>6. \A k \in 1..n : F[k - 1] <= F[k]
  <2>. SUFFICES ASSUME NEW k \in 1..n PROVE F[k - 1] <= F[k]
    OBVIOUS
  <2>1. k - 1 \in 0..n
    BY <1>3
  <2>2. F[k - 1] \in Nat /\ WidthOf(entries[k]) \in Nat
    BY <1>5, <2>1, WidthsCounted
  <2>. QED BY <1>4, <2>2 DEF Extended
<1> DEFINE Over == {j \in 0..n : ~(F[n - j] < MaxText)}
<1>7. \A k \in 0..n : F[k] < MaxText
  <2>1. Over = {}
    <3>. SUFFICES ASSUME Over # {} PROVE FALSE
      OBVIOUS
    <3>0. Over \in SUBSET Nat
      BY <1>3
    <3>1. PICK p \in Over : \A x \in Over : p <= x
      BY <3>0, LeastFound
    <3>2. p # 0
      BY <1>3, <3>1
    <3>3. p - 1 \in 0..n /\ n - (p - 1) = n - p + 1 /\ n - p + 1 \in 1..n /\ n - p + 1 - 1 = n - p /\ n - p \in 0..n
      BY <1>3, <3>1, <3>2
    <3>4. F[n - p + 1] < MaxText
      BY <3>1, <3>3
    <3>5. F[n - p] <= F[n - p + 1]
      BY <1>6, <3>3
    <3>6. F[n - p] \in Nat /\ F[n - p + 1] \in Nat
      BY <1>5, <3>3
    <3>7. F[n - p] < MaxText
      BY <3>4, <3>5, <3>6, CodecAssumption
    <3>. QED BY <3>1, <3>7
  <2>2. ASSUME NEW k \in 0..n PROVE F[k] < MaxText
    <3>1. n - k \in 0..n /\ n - (n - k) = k
      BY <1>3
    <3>. QED BY <2>1, <3>1
  <2>. QED BY <2>2
<1>8. F \in [0..n -> Below(MaxText)]
  <2>1. \A k \in 0..n : F[k] \in Below(MaxText)
    BY <1>5, <1>7 DEF Below
  <2>. QED BY <1>4, <2>1
<1>9. IsUse(F, entries)
  BY <1>4, <1>8 DEF IsUse, n
<1>. QED BY <1>9 DEF TextFits

-----------------------------------------------------------------------------
\* What the server answers to a read.

\* A list of one value is that value.
LEMMA EncodeOne ==
    ASSUME NEW v \in Values
    PROVE  EncodeAll(<<v>>) = Encode(v)
<1> DEFINE entries == <<v>>
           body == Encode(v)
           parts == [i \in DOMAIN entries |-> Encode(entries[i])]
<1>1. DOMAIN entries = {1} /\ entries[1] = v
  OBVIOUS
<1> HIDE DEF entries
<1>2. parts = <<body>> /\ Len(parts) = 1 /\ parts[1] = body
  <2>1. parts = [i \in {1} |-> body]
    BY <1>1
  <2> HIDE DEF body, parts
  <2>2. parts = <<body>>
    BY <2>1
  <2>. QED BY <2>2
<1>3. IsSequence(body)
  BY ValueIsNoList, EncodedIsSequence
<1> HIDE DEF parts, body
<1>4. Joined(parts) = body
  <2>1. PICK f : /\ f[0] = <<>>
                 /\ \A k \in 1..Len(parts) : f[k] = parts[Len(parts) - k + 1] \o f[k - 1]
                 /\ Joined(parts) = f[Len(parts)]
    <3>1. Len(parts) \in Nat
      BY <1>2
    <3>. QED BY <3>1, PartsJoin
  <2>2. Joined(parts) = body \o <<>>
    <3>1. 1 \in 1..Len(parts) /\ Len(parts) - 1 + 1 = 1 /\ 1 - 1 = 0
      BY <1>2
    <3>2. f[1] = parts[Len(parts) - 1 + 1] \o f[1 - 1]
      BY <2>1, <3>1
    <3>3. f[1] = parts[1] \o f[0]
      BY <3>1, <3>2
    <3>. QED BY <1>2, <2>1, <3>3
  <2>3. body \o <<>> = body
    BY <1>3 DEF IsSequence
  <2>. QED BY <2>2, <2>3
<1>5. CASE body = <<>>
  <2>1. \E i \in DOMAIN entries : Encode(entries[i]) = <<>>
    BY <1>1, <1>5 DEF body
  <2>2. EncodeAll(entries) = <<>>
    BY <2>1, Zenon DEF EncodeAll
  <2>. QED BY <1>5, <2>2 DEF entries, body
<1>6. CASE body # <<>>
  <2>1. ~(\E i \in DOMAIN entries : Encode(entries[i]) = <<>>)
    BY <1>1, <1>6 DEF body
  <2>2. EncodeAll(entries) = Joined(parts)
    BY <2>1, Zenon DEF EncodeAll, parts
  <2>. QED BY <1>4, <2>2 DEF entries, body
<1>. QED BY <1>5, <1>6

\* An answer of which the poll for the request hears the outcome.
IsHeard(octets, m, request, outcome) ==
    (\E pdu, rest : IsAnswerTo(octets, m, pdu, rest)) /\ ReadOutcome(octets, m, request) = outcome
\* A request as it arrives at the server.
IsRequest32(request) ==
    request.object \in ObjectIds /\ request.property \in Int32 /\ request.index \in Int32

\* An error is heard with its class and its code.
LEMMA ReadErrorHeard ==
    ASSUME NEW m, NEW request, NEW class \in 0..255, NEW code \in 0..255, NEW reply,
           reply = ReplyError(m, ReadProperty, class, code), reply.octets # <<>>
    PROVE  IsHeard(reply.octets, m, request, reply.outcome)
<1> DEFINE octets == reply.octets
           outcome == [heard |-> "Error", class |-> class, code |-> code]
<1>1. octets = BuildError(ServerBuffer, m, ReadProperty, class, code) /\ reply.outcome = outcome
  BY DEF ReplyError, Reply
<1>2. octets # <<>>
  OBVIOUS
<1> HIDE DEF octets
<1>3. IsErrorHeard(octets, m, ReadProperty, class, code)
  BY <1>1, <1>2, ErrorHeard
<1>4. (\E rest : IsAnswerTo(octets, m, ErrorPdu, rest)) /\ ReadOutcome(octets, m, request) = outcome
  BY <1>3, Zenon DEF IsErrorHeard
<1>. QED BY <1>1, <1>4 DEF IsHeard, octets

\* An acknowledgement is heard if its value is.
LEMMA AckIsHeard ==
    ASSUME NEW octets, NEW m, NEW request, NEW body, IsReadAck(octets, m, request, body), NEW outcome,
           ReadOutcome(octets, m, request) = outcome
    PROVE  IsHeard(octets, m, request, outcome)
<1>1. Acknowledges(octets, m, request, body)
  BY AckHeaderRead
<1>2. \E rest : IsAnswerTo(octets, m, ComplexAck, rest)
  BY <1>1, Zenon DEF Acknowledges
<1>. QED BY <1>2 DEF IsHeard

\* A single value is heard as the server has it.
LEMMA ValueReplyHeard ==
    ASSUME NEW m, NEW request, IsRequest32(request), NEW v \in Values, Encode(v) # <<>> => HasRoom(v), NEW octets,
           octets = BuildReadAck(ServerBuffer, m, request, v), octets # <<>>,
           request.property \notin {ObjectListId, PropertyListId, PriorityArrayId} \/ request.index # NoIndex
    PROVE  IsHeard(octets, m, request, [heard |-> "Value", value |-> v])
<1>1. Encode(v) # <<>> /\ octets = ReadAck(m, request, Encode(v))
  BY ZenonT(60) DEF BuildReadAck, Limited
<1>2. IsSequence(Encode(v))
  BY ValueIsNoList, EncodedIsSequence
<1>3. IsReadAck(octets, m, request, Encode(v))
  BY <1>1, <1>2, Zenon DEF IsReadAck, IsRequest32
<1>4. IsScalarAck(octets, m, request, v)
  BY <1>1, <1>3, Zenon DEF IsScalarAck
<1>5. ReadOutcome(octets, m, request) = [heard |-> "Value", value |-> v]
  BY <1>4, ScalarIsHeard
<1>. QED BY <1>3, <1>5, AckIsHeard

\* The entries of a list for which the client has room.
IsFitList(point, entries) ==
    /\ IsListOf(point, entries)
    /\ point[2] \in {ObjectListId, PropertyListId} =>
          entries # <<>> /\ Len(entries) \in Int32 /\ TextLength(entries) < MaxText

\* The entries of a list are values for which there is room, of the list's
\* kind.
LEMMA EntriesHaveRoom ==
    ASSUME SlotsInv, NEW point, NEW entries, IsListOf(point, entries)
    PROVE  /\ entries \in Seq(Values) /\ \A i \in 1..Len(entries) : HasRoom(entries[i])
           /\ point[2] = PriorityArrayId => Len(entries) = 16
           /\ point[2] = DeviceAddressBindingId => entries = <<>>
           /\ point[2] = ObjectListId => entries \in Seq({"ObjectIdentifier"} \X ObjectIds)
           /\ point[2] = PropertyListId => entries \in Seq({"Enumerated"} \X Int32)
<1>1. entries \in Seq(Values)
  BY EntriesTyped
<1>2. /\ ObjectListId # PropertyListId /\ ObjectListId # DeviceAddressBindingId
      /\ PropertyListId # DeviceAddressBindingId /\ PriorityArrayId # ObjectListId
      /\ PriorityArrayId # PropertyListId /\ PriorityArrayId # DeviceAddressBindingId
  BY DEF ObjectListId, PropertyListId, DeviceAddressBindingId, PriorityArrayId
<1>3. ASSUME NEW i \in 1..Len(entries) PROVE entries[i][1] # "CharacterString"
  <2>1. CASE entries \in Seq({"ObjectIdentifier"} \X ObjectIds)
    BY <2>1
  <2>2. CASE entries \in Seq({"Enumerated"} \X Int32)
    BY <2>2
  <2>3. CASE entries = <<>>
    BY <2>3
  <2>4. CASE entries = slots
    <3>1. slots[i] \in Slot
      BY <2>4, SlotsAreValues
    <3>. QED BY <2>4, <3>1 DEF Slot, Null
  <2>. QED BY <2>1, <2>2, <2>3, <2>4 DEF IsListOf
<1>4. \A i \in 1..Len(entries) : HasRoom(entries[i])
  BY <1>3 DEF HasRoom
<1>5. /\ point[2] = PriorityArrayId => entries = slots
      /\ point[2] = DeviceAddressBindingId => entries = <<>>
      /\ point[2] = ObjectListId => entries \in Seq({"ObjectIdentifier"} \X ObjectIds)
      /\ point[2] = PropertyListId => entries \in Seq({"Enumerated"} \X Int32)
  BY <1>2, Zenon DEF IsListOf
<1>6. point[2] = PriorityArrayId => Len(entries) = 16
  BY <1>5, SlotsAreValues
<1>. QED BY <1>1, <1>4, <1>5, <1>6

\* An entry of a list, or its length.
LEMMA OneIsHeard ==
    ASSUME NEW m, NEW request, IsRequest32(request), request.index # NoIndex, NEW v \in Values, HasRoom(v), NEW octets,
           EncodeAll(<<v>>) # <<>>, octets = Limited(ServerBuffer, 16, ReadAck(m, request, EncodeAll(<<v>>))), octets # <<>>
    PROVE  IsHeard(octets, m, request, [heard |-> "Value", value |-> v])
<1>1. EncodeAll(<<v>>) = Encode(v)
  BY EncodeOne
<1>2. Encode(v) # <<>> /\ octets = ReadAck(m, request, Encode(v))
  BY <1>1, Zenon DEF Limited
<1>3. IsSequence(Encode(v))
  BY ValueIsNoList, EncodedIsSequence
<1>4. IsReadAck(octets, m, request, Encode(v))
  BY <1>2, <1>3, Zenon DEF IsReadAck, IsRequest32
<1>5. IsScalarAck(octets, m, request, v)
  BY <1>2, <1>4, Zenon DEF IsScalarAck
<1>6. ReadOutcome(octets, m, request) = [heard |-> "Value", value |-> v]
  BY <1>5, ScalarIsHeard
<1>. QED BY <1>4, <1>6, AckIsHeard

\* The answer to a read of a list, as a whole, of its length or of an entry.
IsListReply(octets, m, request, entries) ==
    /\ request.index \in {NoIndex} \union 0..Len(entries)
    /\ entries = <<>> => request.index = NoIndex
    /\ octets = IF entries = <<>> THEN BuildEmptyListAck(ServerBuffer, m, request)
                ELSE BuildListAck(ServerBuffer, m, request, entries)
    /\ octets # <<>>

\* The index that stands for none is no index.
LEMMA NegativeIndex == NoIndex \in Int /\ NoIndex < 0
BY DEF NoIndex

\* A list without entries is heard as empty, and its length as zero.
LEMMA EmptyReplyHeard ==
    ASSUME SlotsInv, NEW m, NEW request, IsRequest32(request), NEW octets,
           IsFitList(<<request.object, request.property>>, <<>>), IsListReply(octets, m, request, <<>>)
    PROVE  IsHeard(octets, m, request, ListMeant(request, <<>>))
<1> DEFINE none == <<>>
           point == <<request.object, request.property>>
           empty == [heard |-> "Value", value |-> <<"Empty">>]
<1>1. point[2] = request.property /\ Len(none) = 0 /\ DOMAIN none = {}
  OBVIOUS
<1>2. IsSequence(none)
  BY TupleIsSequence
<1> HIDE DEF point, none
<1>3. IsListOf(point, none) /\ point[2] \notin {ObjectListId, PropertyListId}
  BY DEF IsFitList, point, none
<1>4. request.property # PriorityArrayId
  <2>1. point[2] = PriorityArrayId => Len(none) = 16
    BY <1>3, EntriesHaveRoom
  <2>. QED BY <1>1, <2>1
<1>5. request.property = DeviceAddressBindingId
  BY <1>1, <1>3, <1>4 DEF IsListOf
<1>6. request.index = NoIndex /\ octets = BuildEmptyListAck(ServerBuffer, m, request) /\ octets # <<>>
  BY DEF IsListReply, none
<1>7. octets = ReadAck(m, request, none)
  BY <1>6, Zenon DEF BuildEmptyListAck, Limited, none
<1>8. IsReadAck(octets, m, request, none)
  BY <1>2, <1>7, Zenon DEF IsReadAck, IsRequest32
<1>9. ReadOutcome(octets, m, request) = empty
  <2>1. IsReadAck(octets, m, request, <<>>)
    BY <1>8 DEF none
  <2>. QED BY <1>5, <1>6, <2>1, EmptyIsHeard
<1>10. ListMeant(request, none) = empty
  <2>1. request.index # 0 /\ request.index \notin DOMAIN none
    BY <1>1, <1>6, NegativeIndex
  <2>2. request.property \notin {ObjectListId, PropertyListId, PriorityArrayId}
    BY <1>5 DEF DeviceAddressBindingId, ObjectListId, PropertyListId, PriorityArrayId
  <2> HIDE DEF empty
  <2>. QED BY <2>1, <2>2, Zenon DEF ListMeant, empty
<1> HIDE DEF empty
<1>11. IsHeard(octets, m, request, empty)
  BY <1>8, <1>9, AckIsHeard
<1>. QED BY <1>10, <1>11 DEF none

\* The acknowledgement of a read of a list, or of a part of it.
IsListAck(octets, m, request, asking) ==
    /\ EncodeAll(asking) # <<>>
    /\ octets = Limited(ServerBuffer, 16, ReadAck(m, request, EncodeAll(asking)))

\* buildReadPropertyListAck writes the whole list, its length or one entry,
\* as the index says.
LEMMA ListAckTakes ==
    ASSUME NEW octets, NEW m, NEW request, NEW entries, IsListReply(octets, m, request, entries), entries # <<>>
    PROVE  /\ request.index = NoIndex => IsListAck(octets, m, request, entries)
           /\ request.index = 0 => IsListAck(octets, m, request, <<<<"Unsigned", Len(entries)>>>>)
           /\ request.index \notin {NoIndex, 0} =>
                 IsListAck(octets, m, request, SubSeq(entries, request.index, request.index))
<1>1. octets = BuildListAck(ServerBuffer, m, request, entries) /\ octets # <<>>
  BY DEF IsListReply
<1>2. NoIndex # 0
  BY NegativeIndex
<1> DEFINE length == <<<<"Unsigned", Len(entries)>>>>
           one == SubSeq(entries, request.index, request.index)
<1> HIDE DEF length, one
<1>3. ASSUME request.index = NoIndex PROVE IsListAck(octets, m, request, entries)
  BY <1>1, <1>2, <1>3, Zenon DEF BuildListAck, IsListAck
<1>4. ASSUME request.index = 0 PROVE IsListAck(octets, m, request, length)
  BY <1>1, <1>2, <1>4, Zenon DEF BuildListAck, IsListAck, length
<1>5. ASSUME request.index \notin {NoIndex, 0} PROVE IsListAck(octets, m, request, one)
  <2>1. request.index # NoIndex /\ request.index # 0
    BY <1>5
  <2>. QED BY <1>1, <2>1, Zenon DEF BuildListAck, IsListAck, one
<1>. QED BY <1>3, <1>4, <1>5 DEF length, one

\* The part of a list that is one entry.
LEMMA SingleEntry ==
    ASSUME NEW S, NEW s \in Seq(S), NEW k \in 1..Len(s)
    PROVE  SubSeq(s, k, k) = <<s[k]>>
<1>1. k \in Nat /\ Len(s) \in Nat /\ k <= Len(s) /\ k >= 1
  OBVIOUS
<1> DEFINE t == SubSeq(s, k, k)
           v == s[k]
<1>2. Len(t) = 1 /\ t[1] = v /\ t \in Seq(S)
  BY <1>1
<1> HIDE DEF t, v
<1>3. t = <<v>>
  BY <1>2
<1>. QED BY <1>3 DEF t, v

\* The length or an entry of a list is heard as the server has it.
LEMMA EntryReplyHeard ==
    ASSUME SlotsInv, NEW m, NEW request, IsRequest32(request), NEW octets, NEW entries, entries # <<>>,
           request.index # NoIndex,
           IsFitList(<<request.object, request.property>>, entries), IsListReply(octets, m, request, entries)
    PROVE  IsHeard(octets, m, request, ListMeant(request, entries))
<1> DEFINE point == <<request.object, request.property>>
           index == request.index
           length == <<"Unsigned", Len(entries)>>
<1>1. point[2] = request.property
  OBVIOUS
<1> HIDE DEF point
<1>2. IsListOf(point, entries)
      /\ (point[2] \in {ObjectListId, PropertyListId} => Len(entries) \in Int32)
  BY DEF IsFitList, point
<1>3. entries \in Seq(Values) /\ \A i \in 1..Len(entries) : HasRoom(entries[i])
  BY <1>2, EntriesHaveRoom
<1>4. Len(entries) \in Int32
  <2>1. CASE point[2] = PriorityArrayId
    <3>1. Len(entries) = 16
      BY <1>2, <2>1, EntriesHaveRoom
    <3>2. 16 \in Int32
      BY DEF Int32
    <3>. QED BY <3>1, <3>2
  <2>2. CASE point[2] = DeviceAddressBindingId
    BY <1>2, <2>2, EntriesHaveRoom
  <2>. QED BY <1>2, <2>1, <2>2 DEF IsListOf
<1>5. index \in 0..Len(entries) /\ octets # <<>>
  BY DEF IsListReply
<1>6. CASE index = 0
  <2>1. IsListAck(octets, m, request, <<length>>)
    BY <1>6, ListAckTakes
  <2>2. length \in Values
    BY <1>4 DEF Values
  <2>3. HasRoom(length)
    <3>1. length[1] # "CharacterString"
      OBVIOUS
    <3> HIDE DEF length
    <3>. QED BY <3>1 DEF HasRoom
  <2>4. ListMeant(request, entries) = [heard |-> "Value", value |-> length]
    BY <1>6, Zenon DEF ListMeant
  <2> HIDE DEF length
  <2>5. EncodeAll(<<length>>) # <<>> /\ octets = Limited(ServerBuffer, 16, ReadAck(m, request, EncodeAll(<<length>>)))
    BY <2>1, Zenon DEF IsListAck
  <2>6. IsHeard(octets, m, request, [heard |-> "Value", value |-> length])
    BY <1>5, <2>2, <2>3, <2>5, OneIsHeard
  <2>. QED BY <2>4, <2>6
<1>7. CASE index # 0
  <2>1. index \in 1..Len(entries) /\ index \notin {NoIndex, 0} /\ index \in DOMAIN entries
    BY <1>3, <1>5, <1>7
  <2> DEFINE v == entries[index]
  <2>2. SubSeq(entries, index, index) = <<v>>
    BY <1>3, <2>1, SingleEntry
  <2>3. v \in Values /\ HasRoom(v)
    BY <1>3, <2>1
  <2>4. ListMeant(request, entries) = [heard |-> "Value", value |-> v]
    <3>1. request.index # 0 /\ request.index \in DOMAIN entries
      BY <1>7, <2>1
    <3>. QED BY <3>1, Zenon DEF ListMeant
  <2>5. IsListAck(octets, m, request, SubSeq(entries, index, index))
    BY <2>1, ListAckTakes
  <2>6. IsListAck(octets, m, request, <<v>>)
    BY <2>2, <2>5
  <2> HIDE DEF v
  <2>7. EncodeAll(<<v>>) # <<>> /\ octets = Limited(ServerBuffer, 16, ReadAck(m, request, EncodeAll(<<v>>)))
    BY <2>6, Zenon DEF IsListAck
  <2>8. IsHeard(octets, m, request, [heard |-> "Value", value |-> v])
    BY <1>5, <2>3, <2>7, OneIsHeard
  <2>. QED BY <2>4, <2>8
<1>. QED BY <1>6, <1>7

\* A whole list is heard as the server has it.
LEMMA WholeReplyHeard ==
    ASSUME SlotsInv, NEW m, NEW request, IsRequest32(request), NEW octets, NEW entries, entries # <<>>,
           request.index = NoIndex,
           IsFitList(<<request.object, request.property>>, entries), IsListReply(octets, m, request, entries)
    PROVE  IsHeard(octets, m, request, ListMeant(request, entries))
<1> DEFINE point == <<request.object, request.property>>
           contents == [i \in DOMAIN entries |-> entries[i][2]]
           property == request.property
<1>1. point[2] = property
  OBVIOUS
<1> HIDE DEF point
<1>2. IsListOf(point, entries)
      /\ (point[2] \in {ObjectListId, PropertyListId} => TextLength(entries) < MaxText)
  BY DEF IsFitList, point
<1>3. entries \in Seq(Values) /\ \A i \in 1..Len(entries) : HasRoom(entries[i])
  BY <1>2, EntriesHaveRoom
<1>4. EncodeAll(entries) # <<>> /\ octets = Limited(ServerBuffer, 16, ReadAck(m, request, EncodeAll(entries))) /\ octets # <<>>
  <2>1. IsListAck(octets, m, request, entries)
    BY ListAckTakes
  <2>2. octets # <<>>
    BY DEF IsListReply
  <2>. QED BY <2>1, <2>2, Zenon DEF IsListAck
<1>5. octets = ReadAck(m, request, EncodeAll(entries))
  BY <1>4, Zenon DEF Limited
<1>6. IsSequence(EncodeAll(entries))
  BY <1>3, EncodeAllIsSequence
<1>7. IsReadAck(octets, m, request, EncodeAll(entries))
  BY <1>5, <1>6, Zenon DEF IsReadAck, IsRequest32
<1>8. request.index # 0 /\ request.index \notin DOMAIN entries
  BY <1>3, NegativeIndex
<1>9. /\ ObjectListId # PropertyListId /\ PriorityArrayId # ObjectListId /\ PriorityArrayId # PropertyListId
  BY DEF ObjectListId, PropertyListId, PriorityArrayId
<1>10. /\ property = ObjectListId =>
             ListMeant(request, entries) = [heard |-> "Value", value |-> <<"ObjectIdentifierList", contents>>]
       /\ property = PropertyListId =>
             ListMeant(request, entries) = [heard |-> "Value", value |-> <<"PropertyIdentifierList", contents>>]
       /\ property = PriorityArrayId => ListMeant(request, entries) = [heard |-> "Slots", slots |-> entries]
  BY <1>8, <1>9, Zenon DEF ListMeant
<1>11. property \in {ObjectListId, PropertyListId, PriorityArrayId}
  <2>1. point[2] = DeviceAddressBindingId => entries = <<>>
    BY <1>2, EntriesHaveRoom
  <2>. QED BY <1>1, <1>2, <2>1 DEF IsListOf
<1> HIDE DEF contents
<1>12. ReadOutcome(octets, m, request) = ListMeant(request, entries)
  <2>1. CASE property = PriorityArrayId
    <3>1. Len(entries) = 16
      BY <1>1, <1>2, <2>1, EntriesHaveRoom
    <3>2. \A i \in 1..16 : HasRoom(entries[i])
      BY <1>3, <3>1
    <3>3. ReadOutcome(octets, m, request) = [heard |-> "Slots", slots |-> entries]
      BY <1>3, <1>4, <1>7, <2>1, <3>1, <3>2, SlotsAreHeard
    <3>. QED BY <1>10, <2>1, <3>3
  <2>2. CASE property \in {ObjectListId, PropertyListId}
    <3>1. TextFits(entries)
      <4>1. Len(entries) \in Nat /\ TextLength(entries) < MaxText
        BY <1>1, <1>2, <1>3, <2>2
      <4>. QED BY <4>1, TextHasRoom
    <3>2. /\ property = ObjectListId /\ entries \in Seq({"ObjectIdentifier"} \X ObjectIds) =>
                 ReadOutcome(octets, m, request) = [heard |-> "Value", value |-> <<"ObjectIdentifierList", contents>>]
          /\ property = PropertyListId /\ entries \in Seq({"Enumerated"} \X Int32) =>
                 ReadOutcome(octets, m, request) = [heard |-> "Value", value |-> <<"PropertyIdentifierList", contents>>]
      BY <1>4, <1>7, <3>1, ListIsHeard DEF contents
    <3>3. /\ property = ObjectListId => entries \in Seq({"ObjectIdentifier"} \X ObjectIds)
          /\ property = PropertyListId => entries \in Seq({"Enumerated"} \X Int32)
      BY <1>1, <1>2, EntriesHaveRoom
    <3>. QED BY <1>10, <2>2, <3>2, <3>3
  <2>. QED BY <1>11, <2>1, <2>2
<1>. QED BY <1>7, <1>12, AckIsHeard

\* What is answered to a read of a list is heard as it was meant.
LEMMA ListReplyHeard ==
    ASSUME SlotsInv, NEW m, NEW request, IsRequest32(request), NEW octets, NEW entries,
           IsFitList(<<request.object, request.property>>, entries), IsListReply(octets, m, request, entries)
    PROVE  IsHeard(octets, m, request, ListMeant(request, entries))
<1>1. CASE entries = <<>>
  BY <1>1, EmptyReplyHeard
<1>2. CASE entries # <<>> /\ request.index # NoIndex
  BY <1>2, EntryReplyHeard
<1>3. CASE entries # <<>> /\ request.index = NoIndex
  BY <1>3, WholeReplyHeard
<1>. QED BY <1>1, <1>2, <1>3

\* The client has room for what the properties say.
HeldFits == \A point \in DOMAIN held : Fits(point[2], held[point])
\* A value for which there is room, if it can be sent at all.
IsSendableFit(v) == Encode(v) # <<>> => HasRoom(v)

\* There is room for the value of a slot.
LEMMA SlotHasRoom == \A v \in Slot : HasRoom(v)
<1>1. \A v \in Slot : v[1] # "CharacterString"
  BY DEF Slot, Null
<1>. QED BY <1>1 DEF HasRoom

\* There is room for the present value.
LEMMA EffectiveFits ==
    ASSUME HeldInv, SlotsInv, HeldFits
    PROVE  IsSendableFit(Effective)
<1> DEFINE occupied == {p \in 1..16 : slots[p] # Null}
<1>1. CASE occupied = {}
  <2> DEFINE point == <<Output, RelinquishDefaultId>>
             v == held[point]
  <2>1. point \in DOMAIN Contents
    BY ExchangeAssumption DEF ExchangeAssumption
  <2>2. point[2] = RelinquishDefaultId
    OBVIOUS
  <2> HIDE DEF point
  <2>3. Fits(RelinquishDefaultId, v) /\ IsContentOf(RelinquishDefaultId, v)
    BY <2>1, <2>2, Zenon DEF HeldFits, HeldInv
  <2>4. RelinquishDefaultId \notin {ObjectListId, PropertyListId, DeviceAddressBindingId}
    BY DEF RelinquishDefaultId, ObjectListId, PropertyListId, DeviceAddressBindingId
  <2>5. v \in Values
    BY <2>3, <2>4, Zenon DEF IsContentOf
  <2>6. ~IsList(v)
    BY <2>5, ValueIsNoList
  <2>7. IsSendableFit(v)
    BY <2>3, <2>6, Zenon DEF Fits, IsSendableFit
  <2>8. Effective = v
    BY <1>1, Zenon DEF Effective, point
  <2>. QED BY <2>7, <2>8
<1>2. CASE occupied # {}
  <2>1. occupied \in SUBSET Nat
    OBVIOUS
  <2>2. PICK p \in occupied : \A q \in occupied : p <= q
    <3> HIDE DEF occupied
    <3>. QED BY <1>2, <2>1, LeastFound
  <2> DEFINE first == CHOOSE x \in occupied : \A q \in occupied : x <= q
  <2>3. first \in occupied
    <3> HIDE DEF occupied
    <3>. QED BY <2>2, Zenon
  <2>4. slots[first] \in Slot
    <3>1. first \in 1..16
      BY <2>3, Zenon
    <3> HIDE DEF first
    <3>. QED BY <3>1, SlotsAreValues, Zenon
  <2>5. Effective = slots[first]
    BY <1>2, Zenon DEF Effective
  <2>. QED BY <2>4, <2>5, SlotHasRoom DEF IsSendableFit
<1>. QED BY <1>1, <1>2

\* There is room for whatever a read finds.
LEMMA ContentFits ==
    ASSUME HeldInv, SlotsInv, HeldFits, NEW point \in Points
    PROVE  /\ IsList(Content(point)) => IsFitList(point, Content(point)[2])
           /\ ~IsList(Content(point)) => IsSendableFit(Content(point))
<1>0. /\ PresentValueId \notin {ObjectListId, PropertyListId, DeviceAddressBindingId, PriorityArrayId}
      /\ PriorityArrayId \notin {ObjectListId, PropertyListId}
      /\ DeviceAddressBindingId \notin {ObjectListId, PropertyListId}
  BY DEF PresentValueId, ObjectListId, PropertyListId, DeviceAddressBindingId, PriorityArrayId
<1>a. IF IsList(Content(point)) THEN IsListOf(point, Content(point)[2])
      ELSE /\ Content(point) \in Values
           /\ point[2] \notin {ObjectListId, PropertyListId, DeviceAddressBindingId, PriorityArrayId}
  BY ContentTyped
<1>1. CASE point = <<Output, PresentValueId>>
  <2>1. <<Output, PresentValueId>> # <<Output, PriorityArrayId>>
    BY <1>0
  <2>3. Content(point) = Effective
    BY <1>1, <2>1, Zenon DEF Content
  <2>. QED BY <2>3, EffectiveFits, EffectiveIsValue, ValueIsNoList
<1>2. CASE point = <<Output, PriorityArrayId>>
  <2>1. point[2] = PriorityArrayId
    BY <1>2
  <2>2. point # <<Output, PresentValueId>>
    <3>1. <<Output, PresentValueId>>[2] = PresentValueId
      OBVIOUS
    <3>. QED BY <2>1, <3>1, <1>0
  <2>3. Content(point) = <<"List", slots>>
    BY <1>2, <2>2, Zenon DEF Content
  <2>4. Content(point)[1] = "List"
    BY <2>3
  <2>5. IsList(Content(point))
    BY <2>4, Zenon DEF IsList
  <2>. QED BY <1>0, <1>a, <2>1, <2>5, Zenon DEF IsFitList
<1>3. CASE point \notin {<<Output, PresentValueId>>, <<Output, PriorityArrayId>>}
  <2>1. Content(point) = held[point]
    BY <1>3, Zenon DEF Content
  <2>2. point \in DOMAIN held
    BY <1>3, Zenon DEF Points
  <2>3. Fits(point[2], Content(point))
    BY <2>1, <2>2, Zenon DEF HeldFits
  <2> DEFINE content == Content(point)
             property == point[2]
  <2> HIDE DEF content, property
  <2>4. Fits(property, content)
    BY <2>3 DEF content, property
  <2>5. IsList(content) => (property \in {ObjectListId, PropertyListId} =>
            content[2] # <<>> /\ Len(content[2]) \in Int32 /\ TextLength(content[2]) < MaxText)
    BY <1>0, <2>4, Zenon DEF Fits
  <2>6. ~IsList(content) => IsSendableFit(content)
    BY <2>4, Zenon DEF Fits, IsSendableFit
  <2>7. IsList(content) => IsFitList(point, content[2])
    BY <1>a, <2>5, Zenon DEF IsFitList, property, content
  <2>. QED BY <2>6, <2>7 DEF content
<1>. QED BY <1>1, <1>2, <1>3

\* What the server answers to a read -- an error, a value, a list, its length
\* or an entry -- is what the poll for that read hears.
LEMMA ReadReplyHeard ==
    ASSUME HeldInv, SlotsInv, HeldFits, NEW m, NEW request, IsRequest32(request), ReadReply(m, request).octets # <<>>
    PROVE  IsHeard(ReadReply(m, request).octets, m, request, ReadReply(m, request).outcome)
<1> DEFINE point == <<request.object, request.property>>
           content == Content(point)
           reply == ReadReply(m, request)
<1>0. \A outcome, octets : Reply(outcome, octets).octets = octets /\ Reply(outcome, octets).outcome = outcome
  BY DEF Reply
<1>1. ASSUME NEW class \in 0..255, NEW code \in 0..255, reply = ReplyError(m, ReadProperty, class, code)
      PROVE  IsHeard(reply.octets, m, request, reply.outcome)
  <2>1. reply.octets # <<>>
    OBVIOUS
  <2> HIDE DEF reply
  <2>. QED BY <1>1, <2>1, ReadErrorHeard
<1>e. /\ reply = ReplyError(m, ReadProperty, 1, 31) => IsHeard(reply.octets, m, request, reply.outcome)
      /\ reply = ReplyError(m, ReadProperty, 2, 42) => IsHeard(reply.octets, m, request, reply.outcome)
      /\ reply = ReplyError(m, ReadProperty, 2, 32) => IsHeard(reply.octets, m, request, reply.outcome)
  <2>1. 1 \in 0..255 /\ 2 \in 0..255 /\ 31 \in 0..255 /\ 42 \in 0..255 /\ 32 \in 0..255
    OBVIOUS
  <2> HIDE DEF reply
  <2>. QED BY <1>1, <2>1
<1>2. CASE point \in Points /\ IsList(content)
  <2> DEFINE entries == content[2]
             octets == IF entries = <<>> THEN BuildEmptyListAck(ServerBuffer, m, request)
                       ELSE BuildListAck(ServerBuffer, m, request, entries)
  <2>1. IsFitList(point, entries)
    <3> HIDE DEF point
    <3>. QED BY <1>2, ContentFits
  <2>2. reply =
            IF request.object \notin Objects THEN ReplyError(m, ReadProperty, 1, 31)
            ELSE IF request.index \notin {NoIndex} \union 0..Len(entries)
                    \/ (entries = <<>> /\ request.index # NoIndex)
            THEN ReplyError(m, ReadProperty, 2, 42)
            ELSE Reply(ListMeant(request, entries), octets)
    BY <1>2, Zenon DEF ReadReply
  <2>3. reply.octets # <<>>
    OBVIOUS
  <2> HIDE DEF content, entries, reply, octets
  <2>4. ASSUME request.index \in {NoIndex} \union 0..Len(entries), entries = <<>> => request.index = NoIndex,
               reply = Reply(ListMeant(request, entries), octets)
        PROVE  IsHeard(reply.octets, m, request, reply.outcome)
    <3>1. reply.octets = octets /\ reply.outcome = ListMeant(request, entries)
      BY <1>0, <2>4
    <3>2. IsListReply(octets, m, request, entries)
      BY <2>3, <2>4, <3>1, Zenon DEF IsListReply, octets
    <3>3. IsFitList(<<request.object, request.property>>, entries)
      BY <2>1
    <3>4. IsHeard(octets, m, request, ListMeant(request, entries))
      <4> HIDE DEF point
      <4>. QED BY <3>2, <3>3, ListReplyHeard
    <3>. QED BY <3>1, <3>4
  <2>5. IsHeard(reply.octets, m, request, reply.outcome)
    BY <1>e, <2>2, <2>4
  <2>. QED BY <2>5 DEF reply
<1>3. CASE ~(point \in Points /\ IsList(content))
  <2> DEFINE octets == BuildReadAck(ServerBuffer, m, request, content)
             value == [heard |-> "Value", value |-> content]
  <2>1. reply =
            IF request.object \notin Objects THEN ReplyError(m, ReadProperty, 1, 31)
            ELSE IF request.index # NoIndex THEN ReplyError(m, ReadProperty, 2, 42)
            ELSE IF point \notin Points THEN ReplyError(m, ReadProperty, 2, 32)
            ELSE Reply(value, octets)
    BY <1>3, Zenon DEF ReadReply
  <2>2. reply.octets # <<>>
    OBVIOUS
  <2>3. ASSUME point \in Points, reply = Reply(value, octets)
        PROVE  IsHeard(reply.octets, m, request, reply.outcome)
    <3>1. content \in Values /\ IsSendableFit(content)
          /\ point[2] \notin {ObjectListId, PropertyListId, DeviceAddressBindingId, PriorityArrayId}
      <4> HIDE DEF point
      <4>. QED BY <1>3, <2>3, ContentTyped, ContentFits
    <3>2. request.property \notin {ObjectListId, PropertyListId, PriorityArrayId}
      BY <3>1
    <3> HIDE DEF value, octets, reply, content, point
    <3>3. reply.octets = octets /\ reply.outcome = value
      BY <1>0, <2>3
    <3>4. octets # <<>> /\ octets = BuildReadAck(ServerBuffer, m, request, content)
      BY <2>2, <3>3 DEF octets
    <3>5. Encode(content) # <<>> => HasRoom(content)
      BY <3>1 DEF IsSendableFit
    <3>6. IsHeard(octets, m, request, [heard |-> "Value", value |-> content])
      BY <3>1, <3>2, <3>4, <3>5, ValueReplyHeard
    <3>. QED BY <3>3, <3>6 DEF value
  <2> HIDE DEF reply, value, octets, point
  <2>4. IsHeard(reply.octets, m, request, reply.outcome)
    BY <1>e, <2>1, <2>3
  <2>. QED BY <2>4 DEF reply
<1>. QED BY <1>2, <1>3

-----------------------------------------------------------------------------
\* What the answers mean.

\* What the server answers to the request of number m means what it says.
LEMMA ReadReplyMeant ==
    ASSUME HeldInv, SlotsInv, HeldFits, NEW requests, NEW m \in 1..Len(requests), requests[m].kind = "Read",
           IsRequest32(requests[m].request), NEW reply, reply = ReadReply(m, requests[m].request), reply.octets # <<>>,
           NEW answers, <<m, reply.outcome>> \in answers
    PROVE  Meant(reply.octets, requests, answers)
<1> DEFINE r == requests[m]
           octets == reply.octets
           outcome == reply.outcome
<1>1. IsHeard(octets, m, r.request, outcome)
  BY ReadReplyHeard
<1>2. r.kind = "Read" /\ <<m, outcome>> \in answers
  OBVIOUS
<1> HIDE DEF octets, outcome, r
<1>3. PICK pdu, rest : IsAnswerTo(octets, m, pdu, rest)
  BY <1>1 DEF IsHeard
<1>4. Outcome(octets, m, r) = outcome
  <2>1. Outcome(octets, m, r) = ReadOutcome(octets, m, r.request)
    BY <1>2 DEF Outcome
  <2>. QED BY <1>1, <2>1 DEF IsHeard
<1>5. Told(r, outcome, TRUE) = outcome
  BY <1>2 DEF Told
<1>6. Outcome(octets, m, requests[m]) \in {Unheard, Told(requests[m], outcome, TRUE)}
  BY <1>4, <1>5 DEF r
<1>. QED BY <1>2, <1>3, <1>6, AnswerIsMeant DEF octets

\* The acknowledgement of a write or of a registration means what it says.
LEMMA AckMeant ==
    ASSUME NEW requests, NEW m \in 1..Len(requests), requests[m].kind \in {"Write", "Subscribe"},
           NEW octets, octets = BuildSimpleAck(ServerBuffer, m, ServiceOf(requests[m])), octets # <<>>,
           NEW answers, <<m, [heard |-> "Ack"]>> \in answers
    PROVE  Meant(octets, requests, answers)
<1> DEFINE r == requests[m]
           ack == [heard |-> "Ack"]
           service == ServiceOf(r)
<1>1. r.kind \in {"Write", "Subscribe"} /\ <<m, ack>> \in answers
      /\ octets = BuildSimpleAck(ServerBuffer, m, service)
  OBVIOUS
<1>2. ack.heard # "Error"
  OBVIOUS
<1> HIDE DEF r, service
<1>3. /\ IsAnswerTo(octets, m, SimpleAck, <<service>> \o <<>>)
      /\ service = WriteProperty => WriteOutcome(octets, m) = ack
      /\ \A subscription :
            service = (IF subscription.ofProperty THEN SubscribeCovProperty ELSE SubscribeCov) =>
                SubscribeOutcome(octets, m, subscription) = ack
  BY <1>1, AckHeard
<1> HIDE DEF ack
<1>4. Outcome(octets, m, r) = ack
  <2>1. CASE r.kind = "Write"
    <3>1. service = WriteProperty
      BY <2>1 DEF service, ServiceOf
    <3>2. Outcome(octets, m, r) = WriteOutcome(octets, m)
      BY <2>1 DEF Outcome
    <3>. QED BY <1>3, <3>1, <3>2
  <2>2. CASE r.kind = "Subscribe"
    <3> DEFINE s == r.subscription
    <3>1. service = (IF s.ofProperty THEN SubscribeCovProperty ELSE SubscribeCov)
      BY <2>2 DEF service, ServiceOf
    <3>2. Outcome(octets, m, r) = SubscribeOutcome(octets, m, s)
      BY <2>2 DEF Outcome
    <3> HIDE DEF s
    <3>. QED BY <1>3, <3>1, <3>2
  <2>. QED BY <1>1, <2>1, <2>2
<1>5. Told(r, ack, TRUE) = ack
  BY <1>2, Zenon DEF Told
<1>6. Outcome(octets, m, requests[m]) \in {Unheard, Told(requests[m], ack, TRUE)}
  BY <1>4, <1>5 DEF r
<1>. QED BY <1>1, <1>3, <1>6, AnswerIsMeant

\* The refusal of a write or of a registration means what it says, as far as
\* the client tells errors apart.
LEMMA ErrorMeant ==
    ASSUME NEW requests, NEW m \in 1..Len(requests), requests[m].kind \in {"Write", "Subscribe"},
           NEW class \in 0..255, NEW code \in 0..255,
           NEW octets, octets = BuildError(ServerBuffer, m, ServiceOf(requests[m]), class, code), octets # <<>>,
           NEW answers, <<m, [heard |-> "Error", class |-> class, code |-> code]>> \in answers
    PROVE  Meant(octets, requests, answers)
<1> DEFINE r == requests[m]
           error == [heard |-> "Error", class |-> class, code |-> code]
           service == ServiceOf(r)
<1>1. r.kind \in {"Write", "Subscribe"} /\ <<m, error>> \in answers
      /\ octets = BuildError(ServerBuffer, m, service, class, code)
  OBVIOUS
<1>2. error.heard = "Error" /\ error.class = class /\ error.code = code
  OBVIOUS
<1> HIDE DEF r, service, error
<1>3. IsErrorHeard(octets, m, service, class, code)
  BY <1>1, ErrorHeard
<1>4. PICK rest : IsAnswerTo(octets, m, ErrorPdu, rest)
  BY <1>3 DEF IsErrorHeard
<1>5. Outcome(octets, m, r) = Told(r, error, TRUE)
  <2>1. CASE r.kind = "Write"
    <3>1. service = WriteProperty
      BY <2>1 DEF service, ServiceOf
    <3>2. Outcome(octets, m, r) = WriteOutcome(octets, m)
      BY <2>1 DEF Outcome
    <3>3. WriteOutcome(octets, m) = [heard |-> IF class = 2 /\ code = 40 THEN "NotCommandable" ELSE "Refused"]
      BY <1>3, <3>1, Zenon DEF IsErrorHeard
    <3>4. Told(r, error, TRUE) = [heard |-> IF class = 2 /\ code = 40 THEN "NotCommandable" ELSE "Refused"]
      BY <1>2, <2>1 DEF Told
    <3>. QED BY <3>2, <3>3, <3>4
  <2>2. CASE r.kind = "Subscribe"
    <3> DEFINE s == r.subscription
    <3>1. service = (IF s.ofProperty THEN SubscribeCovProperty ELSE SubscribeCov)
      BY <2>2 DEF service, ServiceOf
    <3>2. Outcome(octets, m, r) = SubscribeOutcome(octets, m, s)
      BY <2>2 DEF Outcome
    <3> HIDE DEF s
    <3>3. SubscribeOutcome(octets, m, s) = [heard |-> "Refused"]
      BY <1>3, <3>1, Zenon DEF IsErrorHeard
    <3>4. Told(r, error, TRUE) = [heard |-> "Refused"]
      BY <1>2, <2>2 DEF Told
    <3>. QED BY <3>2, <3>3, <3>4
  <2>. QED BY <1>1, <2>1, <2>2
<1>6. Outcome(octets, m, requests[m]) \in {Unheard, Told(requests[m], error, TRUE)}
  BY <1>5 DEF r
<1>. QED BY <1>1, <1>4, <1>6, AnswerIsMeant

\* A reject goes to another program's request, and no poll of this client
\* hears it.
LEMMA RejectMeant ==
    ASSUME NEW requests, NEW m \in 1..Len(requests), requests[m].kind = "Other",
           NEW octets, octets = BuildReject(9, m, 9), octets # <<>>, NEW answers
    PROVE  Meant(octets, requests, answers)
<1>1. octets = Answer(RejectPdu, m, <<9>>)
  BY DEF BuildReject, Limited
<1>2. IsAnswerTo(octets, m, RejectPdu, <<9>>)
  <2>1. IsSequence(<<9>>)
    BY TupleIsSequence
  <2>2. RejectPdu \in {SimpleAck, ComplexAck, ErrorPdu, RejectPdu, AbortPdu}
    OBVIOUS
  <2>. QED BY <1>1, <2>1, <2>2 DEF IsAnswerTo
<1>3. ASSUME NEW n \in 1..MaxRequests, NEW r \in Requests, n \in 1..Len(requests) => r = requests[n]
      PROVE  Outcome(octets, n, r) = Unheard
  <2>1. n # m \/ r.kind \notin {"Read", "Write", "Subscribe"}
    BY <1>3
  <2>. QED BY <1>2, <2>1, AnswerUnrelated
<1>. QED BY <1>3 DEF Meant, IsMeant

\* An I-Am is heard by whoever asked Who-Is, and by nobody else.
LEMMA IAmMeant ==
    ASSUME NEW octets, octets = BuildIAm(26, Device), octets # <<>>, NEW m, NEW requests,
           NEW answers, <<m, [heard |-> "IAm", device |-> Device]>> \in answers
    PROVE  Meant(octets, requests, answers)
<1> DEFINE iAm == [heard |-> "IAm", device |-> Device]
           a == <<m, iAm>>
<1>1. a \in answers /\ a[2] = iAm /\ iAm.heard = "IAm"
  OBVIOUS
<1>2. ParseIAm(octets) = iAm /\ \A n, request : request.kind # "Discover" => Outcome(octets, n, request) = Unheard
  BY IAmRead
<1>3. iAm.heard # "Error"
  BY <1>1
<1> HIDE DEF a, iAm
<1>4. ASSUME NEW n \in 1..MaxRequests, NEW r \in Requests PROVE IsMeant(Outcome(octets, n, r), n, r, answers)
  <2>1. CASE r.kind = "Discover"
    <3>1. Outcome(octets, n, r) = iAm
      BY <1>2, <2>1 DEF Outcome
    <3>2. Told(r, iAm, TRUE) = iAm
      BY <1>3, Zenon DEF Told
    <3>. QED BY <1>1, <3>1, <3>2 DEF IsMeant
  <2>2. CASE r.kind # "Discover"
    <3>1. Outcome(octets, n, r) = Unheard
      BY <1>2, <2>2
    <3>. QED BY <3>1 DEF IsMeant
  <2>. QED BY <2>1, <2>2
<1>. QED BY <1>4 DEF Meant

-----------------------------------------------------------------------------
\* Which request the server answers.

\* A request that the server finds arrived whole.
LEMMA RequestArrives ==
    ASSUME SentInv, NEW d \in network, NEW size \in Nat, ConfirmedHeader(Arrived(d, size)).status = "Confirmed"
    PROVE  Arrived(d, size) = d.octets
<1>1. IsPlain(d.octets)
  BY DEF SentInv, IsSent
<1>2. Arrived(d, size) = d.octets \/ HasNoApdu(Arrived(d, size))
  BY <1>1, ArrivedWhole
<1>3. ASSUME HasNoApdu(Arrived(d, size)) PROVE FALSE
  <2>1. Apdu(Arrived(d, size), {Unicast}, 4) = <<>>
    BY <1>3 DEF HasNoApdu
  <2>2. ConfirmedHeader(Arrived(d, size)) = [status |-> "Malformed"]
    BY <2>1, Zenon DEF ConfirmedHeader
  <2>3. ConfirmedHeader(Arrived(d, size)).status # "Confirmed"
    BY <2>2
  <2>. QED BY <2>3
<1>. QED BY <1>2, <1>3

\* The request that a datagram is.
IsAsking(d) ==
    /\ d.number \in 1..Len(asked) /\ asked[d.number] \in Requests /\ asked[d.number].kind # "Discover"
    /\ d.octets = Requested(asked[d.number], d.number) /\ d.octets # <<>>
    /\ ConfirmedHeader(d.octets).invoke = d.number
    /\ ConfirmedHeader(d.octets).service = ServiceOf(asked[d.number])

\* A request that the server finds is the one of its number, under the invoke
\* id that is the number.
LEMMA ServerFinds ==
    ASSUME ExchangeInv, NEW d \in network, d.to = "Server",
           ConfirmedHeader(Arrived(d, ServerBuffer)).status = "Confirmed"
    PROVE  Arrived(d, ServerBuffer) = d.octets /\ IsAsking(d)
<1>1. Arrived(d, ServerBuffer) = d.octets
  <2>1. ServerBuffer \in Nat
    BY ExchangeAssumption
  <2>. QED BY <2>1, RequestArrives DEF ExchangeInv
<1>2. IsSent(d, asked)
  BY DEF ExchangeInv, SentInv
<1>. QED BY <1>1, <1>2, RequestWasAsked DEF ExchangeInv, IsAsking

\* A read that the server hears is the request of its number, with the
\* object, the property and the index asked.
LEMMA ServerReads ==
    ASSUME ExchangeInv, NEW d \in network, d.to = "Server",
           ParseReadRequest(Arrived(d, ServerBuffer)) # Unheard
    PROVE  /\ IsAsking(d) /\ asked[d.number].kind = "Read" /\ IsRequest32(asked[d.number].request)
           /\ ParseReadRequest(Arrived(d, ServerBuffer)).invoke = d.number
           /\ ParseReadRequest(Arrived(d, ServerBuffer)).request = asked[d.number].request
<1> DEFINE os == Arrived(d, ServerBuffer)
           request == asked[d.number]
<1>1. ConfirmedHeader(os).status = "Confirmed" /\ ConfirmedHeader(os).service = ReadProperty
  <2>1. IsRequest(os, {ReadProperty})
    BY Zenon DEF ParseReadRequest
  <2>. QED BY <2>1, Zenon DEF IsRequest
<1>2. os = d.octets /\ IsAsking(d)
  BY <1>1, ServerFinds
<1>3. request \in Requests /\ request.kind = "Read"
  BY <1>1, <1>2, KindOfService DEF IsAsking
<1>4. IsReadRequest(os, d.number, request.request)
  <2>1. request.request \in Asked
    BY <1>3, SendableRequests
  <2>2. Requested(request, d.number) = BuildReadRequest(25, d.number, request.request)
    BY <1>3 DEF Requested
  <2>. QED BY <1>2, <2>1, <2>2 DEF IsReadRequest, IsAsking
<1> HIDE DEF os, request
<1>5. /\ request.request.object \in ObjectIds /\ request.request.property \in Int32 /\ request.request.index \in Int32
      /\ ParseReadRequest(os) = [heard |-> "ReadProperty", invoke |-> d.number, request |-> request.request]
  BY <1>4, ReadRequestRead
<1>6. IsRequest32(request.request)
  BY <1>5 DEF IsRequest32
<1>7. ParseReadRequest(os).invoke = d.number /\ ParseReadRequest(os).request = request.request
  BY <1>5
<1>. QED BY <1>2, <1>3, <1>6, <1>7 DEF os, request

\* A write that the server hears is the request of its number.
LEMMA ServerWrites ==
    ASSUME ExchangeInv, NEW d \in network, d.to = "Server",
           ParseWriteRequest(Arrived(d, ServerBuffer)) # Unheard
    PROVE  /\ IsAsking(d) /\ asked[d.number].kind = "Write" /\ ServiceOf(asked[d.number]) = WriteProperty
           /\ ParseWriteRequest(Arrived(d, ServerBuffer)).invoke = d.number
<1> DEFINE os == Arrived(d, ServerBuffer)
           request == asked[d.number]
<1>1. ConfirmedHeader(os).status = "Confirmed" /\ ConfirmedHeader(os).service = WriteProperty
  <2>1. IsRequest(os, {WriteProperty})
    BY Zenon DEF ParseWriteRequest
  <2>. QED BY <2>1, Zenon DEF IsRequest
<1>2. os = d.octets /\ IsAsking(d)
  BY <1>1, ServerFinds
<1>3. request \in Requests /\ request.kind = "Write" /\ ServiceOf(request) = WriteProperty
  BY <1>1, <1>2, KindOfService DEF IsAsking
<1>4. IsWrite(os, d.number, request.request, request.value, request.priority)
  <2>1. request.request \in Asked /\ request.value \in Values /\ request.priority \in -1..255
    BY <1>3, SendableRequests
  <2>2. Requested(request, d.number)
            = BuildWriteRequest(544, d.number, request.request, request.value, request.priority)
    BY <1>3 DEF Requested
  <2>3. os = BuildWriteRequest(544, d.number, request.request, request.value, request.priority) /\ os # <<>>
    BY <1>2, <2>2 DEF IsAsking
  <2>. QED BY <2>1, <2>3, Zenon DEF IsWrite
<1> HIDE DEF os, request
<1>5. ParseWriteRequest(os).invoke = d.number
  <2>1. ParseWriteRequest(os) # Unheard
    BY DEF os
  <2>. QED BY <1>4, <2>1, WriteRead
<1>. QED BY <1>2, <1>3, <1>5 DEF os, request

\* What is heard of a registration says by which service it was asked.
LEMMA SubscribeSays ==
    ASSUME NEW d, ParseSubscribe(d) # Unheard
    PROVE  /\ ConfirmedHeader(d).status = "Confirmed"
           /\ ConfirmedHeader(d).service \in {SubscribeCov, SubscribeCovProperty}
           /\ ParseSubscribe(d).invoke = ConfirmedHeader(d).invoke
           /\ (IF ParseSubscribe(d).subscription.ofProperty THEN SubscribeCovProperty ELSE SubscribeCov)
                  = ConfirmedHeader(d).service
<1> DEFINE header == ConfirmedHeader(d)
           ofProperty == header.service = SubscribeCovProperty
           one == ReadParams(header.rest, <<Param(0), ObjectParam(1), Optional(2, 0), Optional(3, 0)>>)
           other == ReadParams(header.rest, <<Param(0), ObjectParam(1), Octet(46), Param(0), Optional(1, NoIndex), Octet(47),
                          Optional(3, 0), Optional(4, 0), RealAtEnd(5)>>)
           s(v) == [ofProperty |-> ofProperty, processId |-> v[1], object |-> v[2], property |-> PresentValueId,
                    index |-> NoIndex, confirmed |-> v[3] = 1, lifetime |-> v[4], increment |-> Null]
           t(v) == [ofProperty |-> ofProperty, processId |-> v[1], object |-> v[2], property |-> v[4],
                    index |-> v[5], confirmed |-> v[7] = 1, lifetime |-> v[8], increment |-> v[9]]
           says(q) == [heard |-> "Subscribe", invoke |-> header.invoke, subscription |-> q]
<1>0. IsRequest(d, {SubscribeCov, SubscribeCovProperty})
  BY Zenon DEF ParseSubscribe
<1>4. header.status = "Confirmed" /\ header.service \in {SubscribeCov, SubscribeCovProperty}
  BY <1>0, Zenon DEF IsRequest
<1> HIDE DEF header
<1>1. ParseSubscribe(d) = SubscriptionIn(header)
  BY Zenon DEF ParseSubscribe, header
<1>2. CASE ofProperty
  <2> HIDE DEF other
  <2>1. Heard(Where(other, LAMBDA v : v[7] \in {0, 1} /\ (v[9] # Null => ~IsNegative(v[9][2]))),
              LAMBDA v : says(t(v))) = SubscriptionIn(header)
    BY <1>2, Zenon DEF SubscriptionIn, other
  <2>2. \E v : ParseSubscribe(d) = says(t(v))
    BY <1>1, <2>1, Zenon DEF Heard
  <2>3. PICK v : ParseSubscribe(d) = says(t(v))
    BY <2>2
  <2>4. says(t(v)).subscription.ofProperty /\ says(t(v)).invoke = header.invoke
    BY <1>2
  <2>. QED BY <1>2, <1>4, <2>3, <2>4, Zenon DEF header
<1>3. CASE ~ofProperty
  <2> HIDE DEF one
  <2>1. Heard(Where(one, LAMBDA v : v[3] \in {0, 1}), LAMBDA v : says(s(v))) = SubscriptionIn(header)
    BY <1>3, Zenon DEF SubscriptionIn, one
  <2>2. \E v : ParseSubscribe(d) = says(s(v))
    BY <1>1, <2>1, Zenon DEF Heard
  <2>3. PICK v : ParseSubscribe(d) = says(s(v))
    BY <2>2
  <2>4. ~says(s(v)).subscription.ofProperty /\ says(s(v)).invoke = header.invoke
    BY <1>3
  <2>5. header.service = SubscribeCov
    BY <1>3, <1>4
  <2>. QED BY <1>4, <2>3, <2>4, <2>5, Zenon DEF header
<1>. QED BY <1>2, <1>3

\* A registration that the server hears is the request of its number, by the
\* service it was asked by.
LEMMA ServerSubscribes ==
    ASSUME ExchangeInv, NEW d \in network, d.to = "Server",
           ParseSubscribe(Arrived(d, ServerBuffer)) # Unheard
    PROVE  /\ IsAsking(d) /\ asked[d.number].kind = "Subscribe"
           /\ ParseSubscribe(Arrived(d, ServerBuffer)).invoke = d.number
           /\ (IF ParseSubscribe(Arrived(d, ServerBuffer)).subscription.ofProperty
               THEN SubscribeCovProperty ELSE SubscribeCov) = ServiceOf(asked[d.number])
<1> DEFINE os == Arrived(d, ServerBuffer)
           request == asked[d.number]
           heard == ParseSubscribe(os)
           service == IF heard.subscription.ofProperty THEN SubscribeCovProperty ELSE SubscribeCov
<1>1. /\ ConfirmedHeader(os).status = "Confirmed"
      /\ ConfirmedHeader(os).service \in {SubscribeCov, SubscribeCovProperty}
      /\ heard.invoke = ConfirmedHeader(os).invoke /\ service = ConfirmedHeader(os).service
  <2> HIDE DEF os
  <2>1. ParseSubscribe(os) # Unheard
    BY DEF os
  <2>. QED BY <2>1, SubscribeSays
<1>2. os = d.octets /\ IsAsking(d)
  BY <1>1, ServerFinds
<1>3. request \in Requests /\ request.kind = "Subscribe"
  BY <1>1, <1>2, KindOfService DEF IsAsking
<1> HIDE DEF service, heard
<1>4. heard.invoke = d.number /\ service = ServiceOf(request)
  BY <1>1, <1>2 DEF IsAsking
<1>. QED BY <1>2, <1>3, <1>4 DEF service, heard

-----------------------------------------------------------------------------
\* The invariant of what the answers on their way mean.

\* An outcome that the server gave to the n-th request, or an I-Am to anyone.
IsAnswered(outcome, n, request, answers) ==
    \E a \in answers : /\ outcome = Told(request, a[2], TRUE)
                       /\ a[1] = n \/ outcome.heard = "IAm"
\* There are no more requests than invoke ids, and one at least while the
\* client polls.
CountInv == Len(asked) <= MaxRequests /\ (pending => asked # <<>>)
\* Every datagram on its way to the client means what it says.
NetworkMeant == \A d \in network : d.to # "Server" => Meant(d.octets, asked, answered)
\* Every request that was concluded was concluded by an answer of the server
\* to it.
ConcludedMeant ==
    \A c \in concluded : c[1] \in 1..Len(asked) /\ IsAnswered(c[2], c[1], asked[c[1]], answered)
\* The invariant by which AnswersAreMeant holds.
MeantInv == HeldFits /\ CountInv /\ NetworkMeant /\ ConcludedMeant

\* It holds at first.
LEMMA InitMeant == ContentsFit /\ Init => MeantInv
<1>. SUFFICES ASSUME ContentsFit, Init PROVE MeantInv
  OBVIOUS
<1>1. /\ asked = <<>> /\ ~pending /\ network = {} /\ concluded = {} /\ held = Contents
  BY DEF Init
<1>2. HeldFits
  BY <1>1 DEF ContentsFit, HeldFits
<1>3. CountInv
  <2>1. MaxRequests \in Nat
    BY ExchangeAssumption
  <2>. QED BY <1>1, <2>1 DEF CountInv
<1>. QED BY <1>1, <1>2, <1>3 DEF MeantInv, NetworkMeant, ConcludedMeant

\* It says what AnswersAreMeant says.
LEMMA MeantImplies == MeantInv => AnswersAreMeant
  BY DEF MeantInv, ConcludedMeant, IsAnswered, AnswersAreMeant

\* More answers change nothing of what one means.
LEMMA MeantStays ==
    ASSUME NEW octets, NEW requests, NEW answers, Meant(octets, requests, answers),
           NEW more, answers \subseteq more
    PROVE  Meant(octets, requests, more)
<1>1. \A outcome, n, r : IsMeant(outcome, n, r, answers) => IsMeant(outcome, n, r, more)
  BY Zenon DEF IsMeant
<1>. QED BY <1>1, Zenon DEF Meant

\* Nor does another request: an answer was already unheard by whatever would
\* be asked.
LEMMA MeantGrows ==
    ASSUME NEW octets, NEW requests \in Seq(Requests), NEW answers, Meant(octets, requests, answers),
           NEW request
    PROVE  Meant(octets, Append(requests, request), answers)
<1> DEFINE longer == Append(requests, request)
<1>1. /\ 1..Len(requests) \subseteq 1..Len(longer)
      /\ \A n \in 1..Len(requests) : longer[n] = requests[n]
  OBVIOUS
<1> HIDE DEF longer
<1>2. \A n, r : (n \in 1..Len(longer) => r = longer[n]) => (n \in 1..Len(requests) => r = requests[n])
  BY <1>1
<1>3. Meant(octets, longer, answers)
  BY <1>2, Zenon DEF Meant
<1>. QED BY <1>3 DEF longer

\* What is on its way after a step that asks nothing.
Sends(taken, sent) ==
    /\ Exchanged(taken, sent) /\ UNCHANGED asked /\ answered \subseteq answered'
    /\ \A d \in sent : d.to # "Server" => Meant(d.octets, asked, answered')

\* The network after such a step.
LEMMA NetworkStaysMeant ==
    ASSUME NetworkMeant, NEW taken, NEW sent, Sends(taken, sent)
    PROVE  NetworkMeant'
<1>1. network' \subseteq network \union sent /\ asked' = asked
  BY DEF Sends, Exchanged
<1>2. \A d \in network : d.to # "Server" => Meant(d.octets, asked, answered')
  <2> SUFFICES ASSUME NEW d \in network, d.to # "Server" PROVE Meant(d.octets, asked, answered')
    OBVIOUS
  <2>1. Meant(d.octets, asked, answered) /\ answered \subseteq answered'
    BY DEF NetworkMeant, Sends
  <2>. QED BY <2>1, MeantStays
<1>3. \A d \in network \union sent : d.to # "Server" => Meant(d.octets, asked, answered')
  BY <1>2 DEF Sends
<1>. QED BY <1>1, <1>3 DEF NetworkMeant

\* What was answered stays answered.
LEMMA AnsweredStays ==
    ASSUME NEW outcome, NEW n, NEW request, NEW answers, NEW more, answers \subseteq more,
           IsAnswered(outcome, n, request, answers)
    PROVE  IsAnswered(outcome, n, request, more)
  BY Zenon DEF IsAnswered

\* What was concluded stays so.
LEMMA ConcludedStays ==
    ASSUME ConcludedMeant, UNCHANGED <<asked, concluded>>, answered \subseteq answered'
    PROVE  ConcludedMeant'
<1> SUFFICES ASSUME NEW c \in concluded
             PROVE  c[1] \in 1..Len(asked) /\ IsAnswered(c[2], c[1], asked[c[1]], answered')
  BY DEF ConcludedMeant
<1>1. c[1] \in 1..Len(asked) /\ IsAnswered(c[2], c[1], asked[c[1]], answered)
  BY DEF ConcludedMeant
<1>. QED BY <1>1, AnsweredStays

\* A step that sends what means what it says keeps the invariant.
LEMMA SendingKeeps ==
    ASSUME MeantInv, NEW taken, NEW sent, Sends(taken, sent), UNCHANGED <<pending, concluded>>, HeldFits'
    PROVE  MeantInv'
<1>1. UNCHANGED asked /\ answered \subseteq answered'
  BY DEF Sends
<1>2. CountInv'
  BY <1>1 DEF MeantInv, CountInv
<1>3. NetworkMeant'
  BY NetworkStaysMeant DEF MeantInv
<1>4. ConcludedMeant'
  BY <1>1, ConcludedStays DEF MeantInv
<1>. QED BY <1>2, <1>3, <1>4 DEF MeantInv

\* A step that leaves the properties leaves room for them.
LEMMA FitsStay ==
    ASSUME HeldFits, UNCHANGED held
    PROVE  HeldFits'
  BY DEF HeldFits

\* So does an answer that means what it says.
LEMMA RespondKeeps ==
    ASSUME MeantInv, NEW d, NEW taken, NEW reply, Respond(d, taken, reply),
           UNCHANGED <<asked, pending, concluded>>, HeldFits',
           \A answers : reply.octets # <<>> /\ <<d.number, reply.outcome>> \in answers =>
               Meant(reply.octets, asked, answers)
    PROVE  MeantInv'
<1> DEFINE said == [heard |-> "Answer", number |-> d.number,
                    request |-> asked[d.number], outcome |-> reply.outcome]
           sent == Message("Client", d.number, reply.octets, said)
<1>1. Exchanged(taken, sent) /\ answered' = answered \union {<<d.number, reply.outcome>>}
  BY DEF Respond
<1> HIDE DEF said
<1>2. \A e \in sent : e.octets = reply.octets /\ reply.octets # <<>>
  BY DEF Message
<1>3. <<d.number, reply.outcome>> \in answered' /\ answered \subseteq answered'
  BY <1>1
<1> HIDE DEF sent
<1>4. \A e \in sent : Meant(e.octets, asked, answered')
  <2> SUFFICES ASSUME NEW e \in sent PROVE Meant(e.octets, asked, answered')
    OBVIOUS
  <2>1. Meant(reply.octets, asked, answered')
    BY <1>2, <1>3
  <2>. QED BY <1>2, <2>1
<1>5. Sends(taken, sent)
  BY <1>1, <1>3, <1>4 DEF Sends
<1>. QED BY <1>5, SendingKeeps

-----------------------------------------------------------------------------
\* A step of each kind.

\* The client asks: nothing on its way is an answer to the new request.
LEMMA AskMeans ==
    ASSUME ExchangeInv, MeantInv, NEW request \in Requests, Ask(request)
    PROVE  MeantInv'
<1> DEFINE n == Len(asked) + 1
           sent == Message("Server", n, Requested(request, n), RequestMeant(request, n))
<1>1. /\ n <= MaxRequests /\ asked' = Append(asked, request) /\ Exchanged({}, sent)
      /\ UNCHANGED <<held, concluded, answered>>
  BY DEF Ask, serverVars
<1>2. asked \in Seq(Requests)
  BY DEF ExchangeInv, AskedInv
<1>3. /\ Len(asked') = n /\ asked' # <<>> /\ 1..Len(asked) \subseteq 1..Len(asked')
      /\ \A k \in 1..Len(asked) : asked'[k] = asked[k]
  BY <1>1, <1>2
<1>4. HeldFits'
  BY <1>1, FitsStay DEF MeantInv
<1>5. CountInv'
  BY <1>1, <1>3 DEF CountInv
<1>6. NetworkMeant'
  <2>1. \A d \in sent : d.to = "Server"
    BY DEF Message
  <2>2. network' \subseteq network \union sent
    BY <1>1 DEF Exchanged
  <2> HIDE DEF sent
  <2> SUFFICES ASSUME NEW d \in network', d.to # "Server" PROVE Meant(d.octets, asked', answered')
    BY DEF NetworkMeant
  <2>3. d \in network
    BY <2>1, <2>2
  <2>4. Meant(d.octets, asked, answered)
    BY <2>3 DEF MeantInv, NetworkMeant
  <2>5. Meant(d.octets, Append(asked, request), answered)
    BY <1>2, <2>4, MeantGrows
  <2>. QED BY <1>1, <2>5
<1>7. ConcludedMeant'
  <2> SUFFICES ASSUME NEW c \in concluded
               PROVE  c[1] \in 1..Len(asked') /\ IsAnswered(c[2], c[1], asked'[c[1]], answered)
    BY <1>1 DEF ConcludedMeant
  <2>1. c[1] \in 1..Len(asked) /\ IsAnswered(c[2], c[1], asked[c[1]], answered)
    BY DEF MeantInv, ConcludedMeant
  <2>. QED BY <1>3, <2>1
<1>. QED BY <1>4, <1>5, <1>6, <1>7 DEF MeantInv

\* What only takes datagrams from the network, or sends to the server.
LEMMA NothingMeans ==
    ASSUME MeantInv, UNCHANGED <<asked, concluded, answered>>, pending' => pending, HeldFits',
           NEW sent, network' \subseteq network \union sent, \A d \in sent : d.to = "Server"
    PROVE  MeantInv'
<1>1. CountInv'
  BY DEF MeantInv, CountInv
<1>2. NetworkMeant'
  BY DEF MeantInv, NetworkMeant
<1>3. ConcludedMeant'
  BY ConcludedStays DEF MeantInv
<1>. QED BY <1>1, <1>2, <1>3 DEF MeantInv

\* The client's acknowledgements go to the server.
LEMMA AcknowledgementGoes ==
    \A notification : \A d \in Acknowledgement(notification) : d.to = "Server"
  BY DEF Acknowledgement, Message

\* A notification answers no request.
LEMMA NotifyMeans ==
    ASSUME ExchangeInv, MeantInv, Notify
    PROVE  MeantInv'
<1>1. PICK octets, invoke, said : Notifies(octets, invoke, said)
  BY NotifySends
<1> DEFINE sent == Message("Client", 0, octets, said)
<1>2. /\ IsNotificationOf(octets, invoke) /\ Exchanged({}, sent)
      /\ UNCHANGED <<held, asked, pending, concluded, answered>>
  BY <1>1 DEF Notifies
<1>3. \A d \in sent : d.octets = octets /\ octets # <<>>
  BY DEF Message
<1> HIDE DEF sent
<1>4. \A d \in sent : Meant(d.octets, asked, answered')
  <2> SUFFICES ASSUME NEW d \in sent PROVE Meant(octets, asked, answered')
    BY <1>3
  <2>1. octets # <<>>
    BY <1>3
  <2>. QED BY <1>2, <2>1, NotificationConcludesNothing
<1>5. Sends({}, sent)
  BY <1>2, <1>4 DEF Sends
<1>6. HeldFits'
  BY <1>2, FitsStay DEF MeantInv
<1>. QED BY <1>2, <1>5, <1>6, SendingKeeps

\* The application changes a property to what the client has room for.
LEMMA ChangeMeans ==
    ASSUME ContentsFit, ExchangeInv, MeantInv, NEW change \in Changes, ChangeContent(change)
    PROVE  MeantInv'
<1>1. /\ held' = [held EXCEPT ![change.point] = change.content]
      /\ UNCHANGED <<asked, pending, network, concluded, answered>>
  BY DEF ChangeContent, clientVars
<1>2. Fits(change.point[2], change.content)
  BY DEF ContentsFit
<1>3. HeldFits'
  BY <1>1, <1>2 DEF MeantInv, HeldFits
<1> DEFINE sent == {}
<1>4. network' \subseteq network \union sent /\ \A d \in sent : d.to = "Server"
  BY <1>1
<1> HIDE DEF sent
<1>. QED BY <1>1, <1>3, <1>4, NothingMeans

\* An I-Am says the device.
LEMMA AnswerWhoIsMeans ==
    ASSUME ExchangeInv, MeantInv, NEW d, NEW taken, AnswerWhoIs(d, taken)
    PROVE  MeantInv'
<1> DEFINE iAm == [heard |-> "IAm", device |-> Device]
           octets == BuildIAm(26, Device)
           sent == Message("Client", d.number, octets, iAm)
<1>1. /\ Exchanged(taken, sent) /\ answered' = answered \union {<<d.number, iAm>>}
      /\ UNCHANGED <<held, asked, pending, concluded>>
  BY DEF AnswerWhoIs, serverVars, clientVars
<1>2. \A e \in sent : e.octets = octets /\ octets # <<>>
  BY DEF Message
<1>3. <<d.number, iAm>> \in answered' /\ answered \subseteq answered'
  BY <1>1
<1>4. octets # <<>> => Meant(octets, asked, answered')
  BY <1>3, IAmMeant
<1> HIDE DEF sent, octets
<1>5. Sends(taken, sent)
  BY <1>1, <1>2, <1>3, <1>4 DEF Sends
<1>6. HeldFits'
  BY <1>1, FitsStay DEF MeantInv
<1>. QED BY <1>1, <1>5, <1>6, SendingKeeps

\* The answer to a read goes to the request that was read, under its invoke
\* id, with what it found.
LEMMA AnswerReadMeans ==
    ASSUME ExchangeInv, MeantInv, NEW d \in network, d.to = "Server", NEW taken, AnswerRead(d, taken)
    PROVE  MeantInv'
<1> DEFINE read == ParseReadRequest(Arrived(d, ServerBuffer))
           m == d.number
<1>1. /\ read # Unheard /\ Respond(d, taken, ReadReply(read.invoke, read.request))
      /\ UNCHANGED <<held, slots, asked, pending, concluded>>
  BY DEF AnswerRead, serverVars, clientVars
<1>2. /\ IsAsking(d) /\ asked[m].kind = "Read" /\ IsRequest32(asked[m].request)
      /\ read.invoke = m /\ read.request = asked[m].request
  BY <1>1, ServerReads
<1> HIDE DEF read
<1> DEFINE reply == ReadReply(m, asked[m].request)
<1>3. Respond(d, taken, reply)
  BY <1>1, <1>2
<1>4. m \in 1..Len(asked)
  BY <1>2 DEF IsAsking
<1>5. HeldInv /\ SlotsInv /\ HeldFits
  BY DEF ExchangeInv, TableInv, MeantInv
<1>6. ASSUME NEW answers, reply.octets # <<>>, <<m, reply.outcome>> \in answers
      PROVE  Meant(reply.octets, asked, answers)
  <2>1. reply = ReadReply(m, asked[m].request)
    OBVIOUS
  <2> HIDE DEF reply
  <2>. QED BY <1>2, <1>4, <1>5, <1>6, <2>1, ReadReplyMeant
<1>7. HeldFits'
  BY <1>1, FitsStay DEF MeantInv
<1> HIDE DEF reply
<1>. QED BY <1>1, <1>3, <1>6, <1>7, RespondKeeps

\* A refusal under the number and the service of the request means what it
\* says.
LEMMA RefusalMeans ==
    ASSUME NEW d, IsAsking(d), asked[d.number].kind \in {"Write", "Subscribe"},
           NEW service, service = ServiceOf(asked[d.number]),
           NEW class \in 0..255, NEW code \in 0..255, NEW reply, reply = ReplyError(d.number, service, class, code),
           NEW answers, reply.octets # <<>>, <<d.number, reply.outcome>> \in answers
    PROVE  Meant(reply.octets, asked, answers)
<1>1. d.number \in 1..Len(asked)
  BY DEF IsAsking
<1>2. /\ reply.octets = BuildError(ServerBuffer, d.number, service, class, code)
      /\ reply.outcome = [heard |-> "Error", class |-> class, code |-> code]
  BY DEF ReplyError, Reply
<1> DEFINE octets == reply.octets
<1>3. octets = BuildError(ServerBuffer, d.number, ServiceOf(asked[d.number]), class, code) /\ octets # <<>>
  BY <1>2
<1>4. <<d.number, [heard |-> "Error", class |-> class, code |-> code]>> \in answers
  BY <1>2
<1> HIDE DEF octets
<1>5. Meant(octets, asked, answers)
  BY <1>1, <1>3, <1>4, ErrorMeant
<1>. QED BY <1>5 DEF octets

\* So does an acknowledgement.
LEMMA AcknowledgementMeans ==
    ASSUME NEW d, IsAsking(d), asked[d.number].kind \in {"Write", "Subscribe"},
           NEW service, service = ServiceOf(asked[d.number]), NEW reply, reply = ReplyAck(d.number, service),
           NEW answers, reply.octets # <<>>, <<d.number, reply.outcome>> \in answers
    PROVE  Meant(reply.octets, asked, answers)
<1>1. d.number \in 1..Len(asked)
  BY DEF IsAsking
<1>2. reply.octets = BuildSimpleAck(ServerBuffer, d.number, service) /\ reply.outcome = [heard |-> "Ack"]
  BY DEF ReplyAck, Reply
<1> DEFINE octets == reply.octets
<1>3. octets = BuildSimpleAck(ServerBuffer, d.number, ServiceOf(asked[d.number])) /\ octets # <<>>
  BY <1>2
<1>4. <<d.number, [heard |-> "Ack"]>> \in answers
  BY <1>2
<1> HIDE DEF octets
<1>5. Meant(octets, asked, answers)
  BY <1>1, <1>3, <1>4, AckMeant
<1>. QED BY <1>5 DEF octets

\* A reject goes to a request of another program.
LEMMA RejectOtherMeans ==
    ASSUME ExchangeInv, MeantInv, NEW d \in network, d.to = "Server", NEW taken, RejectOther(d, taken)
    PROVE  MeantInv'
<1> DEFINE header == ConfirmedHeader(Arrived(d, ServerBuffer))
           m == d.number
<1>1. /\ header.status = "Confirmed" /\ header.service \notin Served
      /\ Respond(d, taken, Reply([heard |-> "Reject"], BuildReject(9, header.invoke, 9)))
      /\ UNCHANGED <<held, asked, pending, concluded>>
  BY DEF RejectOther, serverVars, clientVars
<1>2. Arrived(d, ServerBuffer) = d.octets /\ IsAsking(d)
  BY <1>1, ServerFinds
<1>3. header.invoke = m /\ header.service = ServiceOf(asked[m])
  BY <1>2 DEF IsAsking
<1>4. m \in 1..Len(asked) /\ asked[m].kind = "Other"
  BY <1>1, <1>2, <1>3, KindOfService DEF IsAsking
<1> HIDE DEF header
<1> DEFINE reply == Reply([heard |-> "Reject"], BuildReject(9, m, 9))
<1>5. Respond(d, taken, reply)
  BY <1>1, <1>3
<1>6. \A answers : reply.octets # <<>> => Meant(reply.octets, asked, answers)
  <2> DEFINE octets == BuildReject(9, m, 9)
  <2>1. reply.octets = octets
    BY DEF Reply
  <2>2. \A answers : octets # <<>> => Meant(octets, asked, answers)
    BY <1>4, RejectMeant
  <2>. QED BY <2>1, <2>2
<1>7. HeldFits'
  BY <1>1, FitsStay DEF MeantInv
<1> HIDE DEF reply
<1>. QED BY <1>1, <1>5, <1>6, <1>7, RespondKeeps

\* What a write may put aside from the priority array is a Boolean.
LEMMA WrittenOutOfService ==
    ASSUME NEW write, WriteError(write) = <<>>, write.request.property # PresentValueId
    PROVE  write.value[1] = "Boolean"
<1>1. <<1, 31>> # <<>> /\ <<2, 42>> # <<>> /\ <<2, 37>> # <<>> /\ <<2, 9>> # <<>> /\ <<2, 40>> # <<>>
  OBVIOUS
<1>2. write.request.object = Output /\ write.request.index = NoIndex
  BY <1>1 DEF WriteError
<1>3. CASE write.request.property = OutOfServiceId
  BY <1>1, <1>2, <1>3 DEF WriteError
<1>4. CASE write.request.property # OutOfServiceId
  <2>1. WriteError(write) = <<2, 40>>
    BY <1>2, <1>4 DEF WriteError
  <2>. QED BY <1>1, <2>1
<1>. QED BY <1>3, <1>4

\* The errors of a write are octets.
LEMMA WriteErrors ==
    ASSUME NEW write, WriteError(write) # <<>>
    PROVE  WriteError(write)[1] \in 0..255 /\ WriteError(write)[2] \in 0..255
<1>1. WriteError(write) \in {<<1, 31>>, <<2, 42>>, <<2, 37>>, <<2, 9>>, <<2, 40>>, <<>>}
  BY DEF WriteError
<1>. QED BY <1>1

\* So are those of a registration.
LEMMA SubscribeErrors ==
    ASSUME NEW subscription, SubscribeError(subscription) # <<>>
    PROVE  SubscribeError(subscription)[1] \in 0..255 /\ SubscribeError(subscription)[2] \in 0..255
<1>1. SubscribeError(subscription) \in {<<2, 32>>, <<2, 37>>, <<2, 18>>, <<>>}
  BY Zenon DEF SubscribeError
<1>. QED BY <1>1

\* The answer to a write goes to the request that wrote, and what it wrote
\* the client has room for.
LEMMA AnswerWriteMeans ==
    ASSUME ExchangeInv, MeantInv, NEW d \in network, d.to = "Server", NEW taken, AnswerWrite(d, taken)
    PROVE  MeantInv'
<1> DEFINE write == ParseWriteRequest(Arrived(d, ServerBuffer))
           error == WriteError(write)
           m == d.number
           refusal == ReplyError(m, WriteProperty, error[1], error[2])
           ack == ReplyAck(m, WriteProperty)
<1>1. write # Unheard /\ UNCHANGED <<asked, pending, concluded>>
  BY DEF AnswerWrite, clientVars
<1>2. /\ IsAsking(d) /\ asked[m].kind = "Write" /\ ServiceOf(asked[m]) = WriteProperty
      /\ write.invoke = m
  BY <1>1, ServerWrites
<1>3. \/ error # <<>> /\ Respond(d, taken, refusal) /\ UNCHANGED <<held, slots>>
      \/ /\ error = <<>> /\ Respond(d, taken, ack)
         /\ IF write.request.property = PresentValueId
            THEN UNCHANGED held
            ELSE held' = [held EXCEPT ![<<Output, OutOfServiceId>>] = write.value]
  BY <1>2 DEF AnswerWrite
<1>4. error # <<>> => error[1] \in 0..255 /\ error[2] \in 0..255
  BY WriteErrors
<1>5. error = <<>> /\ write.request.property # PresentValueId => write.value[1] = "Boolean"
  BY WrittenOutOfService
<1> HIDE DEF write, error
<1>6. CASE error # <<>>
  <2>1. ASSUME NEW answers, refusal.octets # <<>>, <<m, refusal.outcome>> \in answers
        PROVE  Meant(refusal.octets, asked, answers)
    <3> DEFINE class == error[1]
               code == error[2]
    <3>1. class \in 0..255 /\ code \in 0..255 /\ refusal = ReplyError(m, WriteProperty, class, code)
      BY <1>4, <1>6
    <3> HIDE DEF class, code, refusal
    <3>. QED BY <1>2, <2>1, <3>1, RefusalMeans
  <2>2. HeldFits'
    BY <1>3, <1>6, FitsStay DEF MeantInv
  <2>3. Respond(d, taken, refusal)
    BY <1>3, <1>6
  <2> HIDE DEF refusal
  <2>. QED BY <1>1, <2>1, <2>2, <2>3, RespondKeeps
<1>7. CASE error = <<>>
  <2>1. ASSUME NEW answers, ack.octets # <<>>, <<m, ack.outcome>> \in answers
        PROVE  Meant(ack.octets, asked, answers)
    <3>1. ack = ReplyAck(m, WriteProperty)
      OBVIOUS
    <3> HIDE DEF ack
    <3>. QED BY <1>2, <2>1, <3>1, AcknowledgementMeans
  <2>2. HeldFits'
    <3> DEFINE point == <<Output, OutOfServiceId>>
               v == write.value
    <3>1. v[1] = "Boolean" => Fits(OutOfServiceId, v)
      BY DEF Fits, IsList, HasRoom
    <3>2. point[2] = OutOfServiceId
      OBVIOUS
    <3> HIDE DEF point, v
    <3>3. UNCHANGED held \/ (v[1] = "Boolean" /\ held' = [held EXCEPT ![point] = v])
      BY <1>3, <1>5, <1>7 DEF point, v
    <3>. QED BY <3>1, <3>2, <3>3 DEF MeantInv, HeldFits
  <2>3. Respond(d, taken, ack)
    BY <1>3, <1>7
  <2> HIDE DEF ack
  <2>. QED BY <1>1, <2>1, <2>2, <2>3, RespondKeeps
<1>. QED BY <1>6, <1>7

\* The answer to a registration goes to the request that asked for it, by the
\* service it was asked by.
LEMMA AnswerSubscribeMeans ==
    ASSUME ExchangeInv, MeantInv, NEW d \in network, d.to = "Server", NEW taken, AnswerSubscribe(d, taken)
    PROVE  MeantInv'
<1> DEFINE heard == ParseSubscribe(Arrived(d, ServerBuffer))
           error == SubscribeError(heard.subscription)
           service == IF heard.subscription.ofProperty THEN SubscribeCovProperty ELSE SubscribeCov
           m == d.number
           refusal == ReplyError(m, service, error[1], error[2])
           ack == ReplyAck(m, service)
<1>1. heard # Unheard /\ UNCHANGED <<held, asked, pending, concluded>>
  BY DEF AnswerSubscribe, clientVars
<1>2. /\ IsAsking(d) /\ asked[m].kind = "Subscribe" /\ heard.invoke = m
      /\ service = ServiceOf(asked[m])
  BY <1>1, ServerSubscribes
<1>3. \/ error # <<>> /\ Respond(d, taken, refusal)
      \/ error = <<>> /\ Respond(d, taken, ack)
  BY <1>2 DEF AnswerSubscribe
<1>4. error # <<>> => error[1] \in 0..255 /\ error[2] \in 0..255
  BY SubscribeErrors
<1>5. HeldFits'
  BY <1>1, FitsStay DEF MeantInv
<1> HIDE DEF heard, error, service
<1>6. CASE error # <<>>
  <2>1. ASSUME NEW answers, refusal.octets # <<>>, <<m, refusal.outcome>> \in answers
        PROVE  Meant(refusal.octets, asked, answers)
    <3> DEFINE class == error[1]
               code == error[2]
    <3>1. class \in 0..255 /\ code \in 0..255 /\ refusal = ReplyError(m, service, class, code)
      BY <1>4, <1>6
    <3> HIDE DEF class, code, refusal
    <3>. QED BY <1>2, <2>1, <3>1, RefusalMeans
  <2>2. Respond(d, taken, refusal)
    BY <1>3, <1>6
  <2> HIDE DEF refusal
  <2>. QED BY <1>1, <1>5, <2>1, <2>2, RespondKeeps
<1>7. CASE error = <<>>
  <2>1. ASSUME NEW answers, ack.octets # <<>>, <<m, ack.outcome>> \in answers
        PROVE  Meant(ack.octets, asked, answers)
    <3>1. ack = ReplyAck(m, service)
      OBVIOUS
    <3> HIDE DEF ack
    <3>. QED BY <1>2, <2>1, <3>1, AcknowledgementMeans
  <2>2. Respond(d, taken, ack)
    BY <1>3, <1>7
  <2> HIDE DEF ack
  <2>. QED BY <1>1, <1>5, <2>1, <2>2, RespondKeeps
<1>. QED BY <1>6, <1>7

\* What the poll for the last request makes of a datagram, whole or cut off,
\* is an answer to that request, or nothing.
LEMMA PollRequestMeans ==
    ASSUME ExchangeInv, MeantInv, NEW d \in network, d.to # "Server", NEW taken, PollRequest(d, taken)
    PROVE  MeantInv'
<1> DEFINE n == Len(asked)
           octets == Arrived(d, ClientBuffer)
           outcome == Outcome(octets, n, asked[n])
<1>1. PICK keeps, heard :
          /\ heard = (IF keeps THEN Unheard ELSE outcome)
          /\ concluded' = IF heard = Unheard THEN concluded ELSE concluded \union {<<n, heard>>}
  BY DEF PollRequest
<1>2. pending /\ Exchanged(taken, {}) /\ UNCHANGED <<held, asked, answered>>
  BY DEF PollRequest, serverVars
<1>3. asked \in Seq(Requests) /\ asked # <<>> /\ n <= MaxRequests /\ MaxRequests \in Nat
  BY <1>2, ExchangeAssumption DEF ExchangeInv, AskedInv, MeantInv, CountInv
<1>4. n \in 1..Len(asked) /\ n \in 1..MaxRequests /\ asked[n] \in Requests
  BY <1>3
<1>5. IsMeant(outcome, n, asked[n], answered)
  <2>1. octets = d.octets \/ HasNoApdu(octets)
    <3>1. IsPlain(d.octets) /\ ClientBuffer \in Nat
      BY ExchangeAssumption DEF ExchangeInv, SentInv, IsSent
    <3>. QED BY <3>1, ArrivedWhole
  <2>2. CASE octets = d.octets
    <3>1. Meant(d.octets, asked, answered)
      BY DEF MeantInv, NetworkMeant
    <3> HIDE DEF n, octets
    <3>. QED BY <1>4, <2>2, <3>1, Zenon DEF Meant
  <2>3. CASE HasNoApdu(octets)
    <3> HIDE DEF octets, n
    <3>1. outcome = Unheard
      BY <2>3, NoApduIsUnheard
    <3>. QED BY <3>1, Zenon DEF IsMeant
  <2>. QED BY <2>1, <2>2, <2>3
<1> HIDE DEF outcome, octets, n
<1>6. heard # Unheard => IsAnswered(heard, n, asked[n], answered)
  BY <1>1, <1>5, Zenon DEF IsMeant, IsAnswered
<1>7. ConcludedMeant'
  <2> SUFFICES ASSUME NEW c \in concluded'
               PROVE  c[1] \in 1..Len(asked) /\ IsAnswered(c[2], c[1], asked[c[1]], answered)
    BY <1>2 DEF ConcludedMeant
  <2>1. CASE c \in concluded
    BY <2>1 DEF MeantInv, ConcludedMeant
  <2>2. CASE c \notin concluded
    <3>1. c = <<n, heard>> /\ heard # Unheard
      BY <1>1, <2>2
    <3>2. c[1] = n /\ c[2] = heard
      BY <3>1
    <3>. QED BY <1>4, <1>6, <3>1, <3>2
  <2>. QED BY <2>1, <2>2
<1>8. NetworkMeant'
  BY <1>2 DEF MeantInv, NetworkMeant, Exchanged
<1>9. CountInv'
  BY <1>2, <1>3 DEF MeantInv, CountInv
<1>10. HeldFits'
  BY <1>2, FitsStay DEF MeantInv
<1>. QED BY <1>7, <1>8, <1>9, <1>10 DEF MeantInv

\* Every step keeps the invariant.
LEMMA NextMeant == ContentsFit /\ ExchangeInv /\ MeantInv /\ [Next]_vars => MeantInv'
<1>. SUFFICES ASSUME ContentsFit, ExchangeInv, MeantInv, [Next]_vars PROVE MeantInv'
  OBVIOUS
<1>0. /\ \A sent : Exchanged({}, sent) => network' \subseteq network \union sent
      /\ \A taken : Exchanged(taken, {}) => network' \subseteq network
  BY DEF Exchanged
<1>q. ASSUME UNCHANGED <<held, asked, concluded, answered>>, pending' => pending, network' \subseteq network
      PROVE  MeantInv'
  <2> DEFINE sent == {}
  <2>1. network' \subseteq network \union sent /\ \A d \in sent : d.to = "Server"
    BY <1>q
  <2>2. HeldFits'
    BY <1>q, FitsStay DEF MeantInv
  <2> HIDE DEF sent
  <2>. QED BY <1>q, <2>1, <2>2, NothingMeans
<1>1. ASSUME NEW request \in Requests, Ask(request) PROVE MeantInv'
  BY <1>1, AskMeans
<1>2. CASE GiveUp
  BY <1>2, <1>q DEF GiveUp, serverVars
<1>3. CASE Notify
  BY <1>3, NotifyMeans
<1>4. CASE PollQueued
  <2> DEFINE sent == Acknowledgement(Head(queued))
  <2>1. UNCHANGED <<held, asked, pending, concluded, answered>> /\ Exchanged({}, sent)
    BY <1>4 DEF PollQueued, serverVars
  <2>2. \A d \in sent : d.to = "Server"
    BY AcknowledgementGoes
  <2>3. HeldFits'
    BY <2>1, FitsStay DEF MeantInv
  <2> HIDE DEF sent
  <2>4. network' \subseteq network \union sent
    BY <1>0, <2>1
  <2>. QED BY <2>1, <2>2, <2>3, <2>4, NothingMeans
<1>5. ASSUME NEW change \in Changes, ChangeContent(change) PROVE MeantInv'
  BY <1>5, ChangeMeans
<1>6. ASSUME NEW d \in network, Lose(d) PROVE MeantInv'
  BY <1>6, <1>q DEF Lose, serverVars, clientVars
<1>7. ASSUME NEW d \in network, NEW taken, d.to = "Server", ServerPolls(d, taken) PROVE MeantInv'
  <2>1. CASE TakeNotificationAnswer(d, taken)
    <3>1. UNCHANGED <<held, asked, pending, concluded, answered>> /\ Exchanged(taken, {})
      BY <2>1 DEF TakeNotificationAnswer, clientVars
    <3>. QED BY <1>0, <1>q, <3>1
  <2>2. CASE AnswerWhoIs(d, taken)
    BY <2>2, AnswerWhoIsMeans
  <2>3. CASE AnswerRead(d, taken)
    BY <1>7, <2>3, AnswerReadMeans
  <2>4. CASE AnswerWrite(d, taken)
    BY <1>7, <2>4, AnswerWriteMeans
  <2>5. CASE AnswerSubscribe(d, taken)
    BY <1>7, <2>5, AnswerSubscribeMeans
  <2>6. CASE RejectOther(d, taken)
    BY <1>7, <2>6, RejectOtherMeans
  <2>7. CASE ServerDrops(d, taken)
    <3>1. UNCHANGED <<held, asked, pending, concluded, answered>> /\ Exchanged(taken, {})
      BY <2>7 DEF ServerDrops, serverVars, clientVars
    <3>. QED BY <1>0, <1>q, <3>1
  <2>. QED BY <1>7, <2>1, <2>2, <2>3, <2>4, <2>5, <2>6, <2>7 DEF ServerPolls
<1>8. ASSUME NEW d \in network, NEW taken, d.to # "Server", ClientPolls(d, taken) PROVE MeantInv'
  <2>1. CASE PollRequest(d, taken)
    BY <1>8, <2>1, PollRequestMeans
  <2>2. CASE PollNotification(d, taken)
    <3> DEFINE notification == ParseCovNotification(Arrived(d, ClientBuffer), MaxProperties)
               sent == IF notification = Unheard THEN {} ELSE Acknowledgement(notification)
    <3>1. /\ UNCHANGED <<held, asked, pending, concluded, answered>>
          /\ Exchanged(taken, sent)
      BY <2>2 DEF PollNotification, serverVars, clientVars
    <3> HIDE DEF notification
    <3>2. \A e \in sent : e.to = "Server"
      BY AcknowledgementGoes
    <3> HIDE DEF sent
    <3>3. network' \subseteq network \union sent
      BY <3>1 DEF Exchanged
    <3>4. HeldFits'
      BY <3>1, FitsStay DEF MeantInv
    <3>. QED BY <3>1, <3>2, <3>3, <3>4, NothingMeans
  <2>. QED BY <1>8, <2>1, <2>2 DEF ClientPolls
<1>9. CASE UNCHANGED vars
  BY <1>9, <1>q DEF vars, serverVars, clientVars
<1>. QED BY <1>1, <1>2, <1>3, <1>4, <1>5, <1>6, <1>7, <1>8, <1>9 DEF Next

\* However late, often or out of order answers arrive, a poll of the client
\* takes only an answer to its own request, and hears in it what the server
\* answered: the same value, error, acknowledgement or list.  The client must
\* have room for what the properties say; the text that an Object_List is
\* read into is not always large enough, and then what is heard is a part of
\* it.
THEOREM AnswersMeant == ContentsFit => (Spec => []AnswersAreMeant)
<1>. SUFFICES ASSUME ContentsFit PROVE Spec => []AnswersAreMeant
  OBVIOUS
<1>1. Init => ExchangeInv /\ MeantInv
  BY InitExchange, InitMeant
<1>2. ExchangeInv /\ MeantInv /\ [Next]_vars => (ExchangeInv /\ MeantInv)'
  BY NextExchange, NextMeant
<1>3. ExchangeInv /\ MeantInv => AnswersAreMeant
  BY MeantImplies
<1>. QED BY <1>1, <1>2, <1>3, PTL DEF Spec
===============================================================================
