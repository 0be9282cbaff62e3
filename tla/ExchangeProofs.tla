---------------------------- MODULE ExchangeProofs ----------------------------
(***************************************************************************)
(* What is sent is whole, and what is cut off is unheard: proofs about     *)
(* Exchange and the codec it talks in.                                     *)
(*                                                                         *)
(* The first parts are about the codec: numbers, tags, values and requests *)
(* are read back as they were written, and the parsers find in a datagram  *)
(* what its builder put there.  They give the inductive invariant          *)
(* ExchangeInv: every datagram on its way is whole, those to the server    *)
(* are requests that were asked, and the server's tables hold what can be  *)
(* encoded.  A write goes through the octets, so that this depends on the  *)
(* values being read back.  CutIsUnheard follows from the first part of    *)
(* the invariant.                                                          *)
(*                                                                         *)
(* A lemma whose premise is an equation of octets names it by a predicate  *)
(* (IsTagged, IsValueIn, ...), so that the provers instantiate it.         *)
(***************************************************************************)
EXTENDS Exchange, SequenceTheorems, NaturalsInduction, WellFoundedInduction, TLAPS

-----------------------------------------------------------------------------
\* Reading one parameter after the other.

\* A set of naturals has a least element.
LEMMA LeastFound ==
    ASSUME NEW T \in SUBSET Nat, T # {}
    PROVE  \E p \in T : \A x \in T : p <= x
<1>1. PICK p \in T : \A q \in T : ~(<<q, p>> \in OpToRel(<, Nat))
  BY NatLessThanWellFounded, WFMin
<1>2. \A q \in T : ~(q < p)
  BY <1>1 DEF OpToRel
<1>. QED BY <1>2

\* The states of readParameters at each parameter: f[k] is what is left after
\* the first k of them.
IsReading(f, os, params, n) ==
    f = [k \in 0..n |-> IF k = 0 THEN Read(<<>>, os) ELSE Then(f[k - 1], params[k])]

\* The fold over the parameters of a request has its intermediate states.
LEMMA ReadingExists ==
    ASSUME NEW os, NEW params, NEW n \in Nat
    PROVE  \E f : IsReading(f, os, params, n)
<1> DEFINE T == {m \in Nat : ~(\E g : IsReading(g, os, params, m))}
<1>. SUFFICES ASSUME T # {} PROVE FALSE
  OBVIOUS
<1>1. PICK p \in T : \A x \in T : p <= x
  BY LeastFound
<1>2. p # 0
  <2>1. IsReading([k \in 0..0 |-> Read(<<>>, os)], os, params, 0)
    BY DEF IsReading
  <2>. QED BY <1>1, <2>1
<1>3. PICK g : IsReading(g, os, params, p - 1)
  BY <1>1, <1>2
<1> DEFINE h == [k \in 0..p |-> IF k = p THEN Then(g[p - 1], params[p]) ELSE g[k]]
<1>4. h = [k \in 0..p |-> IF k = 0 THEN Read(<<>>, os) ELSE Then(h[k - 1], params[k])]
  <2>1. ASSUME NEW k \in 0..p
        PROVE  h[k] = IF k = 0 THEN Read(<<>>, os) ELSE Then(h[k - 1], params[k])
    <3>1. CASE k = p
      BY <3>1, <1>2
    <3>2. CASE k # p
      <4>1. g[k] = IF k = 0 THEN Read(<<>>, os) ELSE Then(g[k - 1], params[k])
        BY <1>3, <3>2 DEF IsReading
      <4>. QED BY <4>1, <3>2
    <3>. QED BY <3>1, <3>2
  <2>. QED BY <2>1
<1>5. IsReading(h, os, params, p)
  BY <1>4 DEF IsReading
<1>. QED BY <1>1, <1>5

\* The parameters of a request are read in their order, each from what the
\* one before it left.
LEMMA ParamsRead ==
    ASSUME NEW os, NEW params, Len(params) \in Nat
    PROVE  \E f : /\ f[0] = Read(<<>>, os)
                  /\ \A k \in 1..Len(params) : f[k] = Then(f[k - 1], params[k])
                  /\ ReadParams(os, params) = f[Len(params)]
<1> DEFINE F == CHOOSE f : IsReading(f, os, params, Len(params))
<1>1. IsReading(F, os, params, Len(params))
  BY ReadingExists
<1>2. ReadParams(os, params) = F[Len(params)]
  BY DEF ReadParams, Iterated, IsReading
<1> HIDE DEF F
<1>. QED BY <1>1, <1>2 DEF IsReading

-----------------------------------------------------------------------------
\* Sequences of octets.

\* A sequence, of whatever elements.
IsSequence(s) == \E S : s \in Seq(S)

\* The length of a sequence is a natural number, and its places are 1 to
\* that.
LEMMA SequenceLength == ASSUME NEW s, IsSequence(s) PROVE Len(s) \in Nat /\ DOMAIN s = 1..Len(s)
  BY DEF IsSequence

\* What is written after something else stands where the first ends.
LEMMA SequencesJoin ==
    ASSUME NEW s, NEW t, IsSequence(s), IsSequence(t)
    PROVE  /\ IsSequence(s \o t)
           /\ Len(s \o t) = Len(s) + Len(t)
           /\ \A i \in 1..Len(s) : (s \o t)[i] = s[i]
           /\ \A i \in 1..Len(t) : (s \o t)[Len(s) + i] = t[i]
<1>1. PICK S : s \in Seq(S)
  BY DEF IsSequence
<1>2. PICK T : t \in Seq(T)
  BY DEF IsSequence
<1>3. s \in Seq(S \union T) /\ t \in Seq(S \union T)
  BY <1>1, <1>2
<1>4. s \o t \in Seq(S \union T)
  BY <1>3
<1>5. IsSequence(s \o t)
  BY <1>4 DEF IsSequence
<1>. QED BY <1>3, <1>5

\* Tuples of the sizes that headers have are sequences.
LEMMA TupleIsSequence ==
    /\ IsSequence(<<>>)
    /\ \A a : IsSequence(<<a>>)
    /\ \A a, b : IsSequence(<<a, b>>)
    /\ \A a, b, c : IsSequence(<<a, b, c>>)
    /\ \A a, b, c, e : IsSequence(<<a, b, c, e>>)
    /\ \A a, b, c, e, f, g : IsSequence(<<a, b, c, e, f, g>>)
<1>1. IsSequence(<<>>)
  <2>1. <<>> \in Seq({})
    OBVIOUS
  <2>. QED BY <2>1 DEF IsSequence
<1>2. ASSUME NEW a PROVE IsSequence(<<a>>)
  <2>1. <<a>> \in Seq({a})
    OBVIOUS
  <2>. QED BY <2>1 DEF IsSequence
<1>3. ASSUME NEW a, NEW b PROVE IsSequence(<<a, b>>)
  <2>1. <<a, b>> \in Seq({a, b})
    OBVIOUS
  <2>. QED BY <2>1 DEF IsSequence
<1>4. ASSUME NEW a, NEW b, NEW c PROVE IsSequence(<<a, b, c>>)
  <2>1. <<a, b, c>> \in Seq({a, b, c})
    OBVIOUS
  <2>. QED BY <2>1 DEF IsSequence
<1>5. ASSUME NEW a, NEW b, NEW c, NEW e PROVE IsSequence(<<a, b, c, e>>)
  <2>1. <<a, b, c, e>> \in Seq({a, b, c, e})
    OBVIOUS
  <2>. QED BY <2>1 DEF IsSequence
<1>6. ASSUME NEW a, NEW b, NEW c, NEW e, NEW f, NEW g PROVE IsSequence(<<a, b, c, e, f, g>>)
  <2>1. <<a, b, c, e, f, g>> \in Seq({a, b, c, e, f, g})
    OBVIOUS
  <2>. QED BY <2>1 DEF IsSequence
<1>. QED BY <1>1, <1>2, <1>3, <1>4, <1>5, <1>6

\* A number written in so many octets takes so many octets.
LEMMA OctetsLength ==
    ASSUME NEW n, NEW length \in Nat
    PROVE  IsSequence(Octets(n, length)) /\ Len(Octets(n, length)) = length
<1> DEFINE os == Octets(n, length)
<1>1. os = [i \in 1..length |-> os[i]]
  BY DEF Octets
<1> HIDE DEF os
<1>2. os \in Seq({os[i] : i \in 1..length}) /\ Len(os) = length
  BY <1>1
<1>. QED BY <1>2 DEF IsSequence, os

\* The writers of numbers choose between one and four octets.
LEMMA LengthsOfNumbers ==
    ASSUME NEW n
    PROVE  UnsignedLength(n) \in 1..4 /\ SignedLength(n) \in 1..4 /\ ContextLength(n) \in {1, 2, 4}
<1>1. UnsignedLength(n) \in 1..4
  BY SMT DEF UnsignedLength
<1>2. SignedLength(n) \in 1..4
  BY SMT DEF SignedLength
<1>. QED BY <1>1, <1>2, SMT DEF ContextLength

\* A tag with its contents is a sequence of octets.
LEMMA TaggedIsSequence ==
    ASSUME NEW tag, NEW class, NEW octets, IsSequence(octets)
    PROVE  IsSequence(Tagged(tag, class, octets))
  BY TupleIsSequence, SequencesJoin DEF Tagged

\* Every parameter that the builders write is a sequence of octets.
LEMMA ParametersAreSequences ==
    /\ \A tag, n : IsSequence(ContextUnsigned(tag, n))
    /\ \A tag, b : IsSequence(ContextBoolean(tag, b))
    /\ \A tag, object : IsSequence(ContextObject(tag, object))
    /\ \A tag, index : IsSequence(OptionalIndex(tag, index))
    /\ \A tag : IsSequence(Opening(tag)) /\ IsSequence(Closing(tag))
    /\ \A tag, n : IsSequence(Context(tag, Octets(n, 4)))
<1>1. ASSUME NEW tag, NEW n PROVE IsSequence(ContextUnsigned(tag, n))
  <2>1. IsSequence(Octets(n, ContextLength(n)))
    BY LengthsOfNumbers, OctetsLength
  <2>. QED BY <2>1, TaggedIsSequence DEF ContextUnsigned, Context
<1>2. ASSUME NEW tag, NEW b PROVE IsSequence(ContextBoolean(tag, b))
  BY TaggedIsSequence, TupleIsSequence DEF ContextBoolean, Context
<1>3. ASSUME NEW tag, NEW object PROVE IsSequence(ContextObject(tag, object))
  <2>1. IsSequence(Octets(object.instance, 2))
    BY OctetsLength
  <2>2. IsSequence(ObjectOctets(object))
    BY <2>1, TupleIsSequence, SequencesJoin DEF ObjectOctets
  <2>. QED BY <2>2, TaggedIsSequence DEF ContextObject, Context
<1>4. ASSUME NEW tag, NEW index PROVE IsSequence(OptionalIndex(tag, index))
  BY <1>1, TupleIsSequence DEF OptionalIndex
<1>5. ASSUME NEW tag PROVE IsSequence(Opening(tag)) /\ IsSequence(Closing(tag))
  BY TupleIsSequence DEF Opening, Closing
<1>6. ASSUME NEW tag, NEW n PROVE IsSequence(Context(tag, Octets(n, 4)))
  BY OctetsLength, TaggedIsSequence DEF Context
<1>. QED BY <1>1, <1>2, <1>3, <1>4, <1>5, <1>6

\* A value whose text, if it is one, is a text.
IsSendable(value) == value[1] = "CharacterString" => IsSequence(value[2])

\* A value that is encoded is a sequence of octets, or the empty one when it
\* does not fit.
LEMMA EncodedIsSequence ==
    ASSUME NEW value, IsSendable(value)
    PROVE  IsSequence(Encode(value))
<1> DEFINE content == value[2]
<1>1. IsSequence(Application(2, Octets(content, UnsignedLength(content))))
  BY LengthsOfNumbers, OctetsLength, TaggedIsSequence DEF Application
<1>2. IsSequence(Application(3, Octets(content, SignedLength(content))))
  BY LengthsOfNumbers, OctetsLength, TaggedIsSequence DEF Application
<1>3. IsSequence(Application(4, Octets(content, 4)))
  BY LengthsOfNumbers, OctetsLength, TaggedIsSequence DEF Application
<1>4. IsSequence(content) => IsSequence(Application(7, <<0>> \o content))
  BY TupleIsSequence, SequencesJoin, TaggedIsSequence DEF Application
<1>5. IsSequence(content) => IsSequence(<<16 * 7 + 5, Len(content) + 1, 0>> \o content)
  BY TupleIsSequence, SequencesJoin
<1>6. Len(content) \in 1..24 => IsSequence(Application(8, BitOctets(content)))
  <2> DEFINE count == (Len(content) + 7) \div 8
             bit(k) == IF k <= Len(content) /\ content[k] THEN 1 ELSE 0
             octet(i) == LET at(j) == bit(8 * (i - 1) + j) IN
                128 * at(1) + 64 * at(2) + 32 * at(3) + 16 * at(4) + 8 * at(5) + 4 * at(6) + 2 * at(7) + at(8)
             bits == [i \in 1..count |-> octet(i)]
  <2>. SUFFICES ASSUME Len(content) \in 1..24
                PROVE  IsSequence(Application(8, BitOctets(content)))
    OBVIOUS
  <2>1. BitOctets(content) = <<8 * count - Len(content)>> \o bits
    BY DEF BitOctets
  <2>2. count \in Nat
    <3>1. \A l \in 1..24 : (l + 7) \div 8 \in Nat
      OBVIOUS
    <3>. QED BY <3>1
  <2> HIDE DEF count, octet
  <2>3. bits \in Seq({octet(i) : i \in 1..count})
    BY <2>2
  <2>4. IsSequence(bits)
    BY <2>3 DEF IsSequence
  <2>. QED BY <2>1, <2>4, TupleIsSequence, SequencesJoin, TaggedIsSequence DEF Application
<1>7. IsSequence(Application(9, Octets(content, UnsignedLength(content))))
  BY LengthsOfNumbers, OctetsLength, TaggedIsSequence DEF Application
<1>8. IsSequence(Application(12, ObjectOctets(content)))
  <2>1. IsSequence(Octets(content.instance, 2))
    BY OctetsLength
  <2>2. IsSequence(ObjectOctets(content))
    BY <2>1, TupleIsSequence, SequencesJoin DEF ObjectOctets
  <2>. QED BY <2>2, TaggedIsSequence DEF Application
<1> HIDE DEF content
<1>. QED
  BY <1>1, <1>2, <1>3, <1>4, <1>5, <1>6, <1>7, <1>8, TupleIsSequence DEF Encode, IsSendable, content

-----------------------------------------------------------------------------
\* A datagram that is cut off.

\* A datagram with the header that its sender writes, its length included.
IsPlain(d) == \E function, control, apdu : IsSequence(apdu) /\ d = Datagram(function, control, apdu)
\* Two sequences joined begin with the first.
IsHeadOf(s, t) ==
    /\ IsSequence(s \o t) /\ Len(s \o t) = Len(s) + Len(t)
    /\ \A i \in 1..Len(s) : (s \o t)[i] = s[i]

\* As all sequences do.
LEMMA HeadIsRead ==
    ASSUME NEW s, NEW t, IsSequence(s), IsSequence(t)
    PROVE  IsHeadOf(s, t)
BY SequencesJoin DEF IsHeadOf

\* The header of a datagram says how long it is.
LEMMA PlainIsSized ==
    ASSUME NEW d, IsPlain(d)
    PROVE  IsSequence(d) /\ Len(d) \in Nat /\ Len(d) >= 6 /\ 256 * d[3] + d[4] = Len(d)
<1>1. PICK function, control, apdu : IsSequence(apdu) /\ d = Datagram(function, control, apdu)
  BY DEF IsPlain
<1> DEFINE length == Len(apdu) + 6
           header == <<129, function, length \div 256, length % 256, 1, control>>
<1>2. d = header \o apdu
  BY <1>1 DEF Datagram
<1>3. IsSequence(header) /\ Len(header) = 6 /\ header[3] = length \div 256 /\ header[4] = length % 256
  BY TupleIsSequence
<1>4. Len(apdu) \in Nat
  BY <1>1, SequenceLength
<1>5. length \in Nat /\ 256 * (length \div 256) + (length % 256) = length
  BY <1>4
<1> HIDE DEF header, length
<1>j. IsSequence(apdu) /\ IsSequence(header)
  BY <1>1, <1>3
<1>8. IsHeadOf(header, apdu)
  BY <1>j, HeadIsRead
<1>7. /\ IsSequence(header \o apdu) /\ Len(header \o apdu) = 6 + Len(apdu)
      /\ \A i \in 1..6 : (header \o apdu)[i] = header[i]
  BY <1>8, <1>3 DEF IsHeadOf
<1>6. IsSequence(d) /\ Len(d) = 6 + Len(apdu) /\ d[3] = header[3] /\ d[4] = header[4]
  BY <1>2, <1>7
<1>. QED BY <1>3, <1>4, <1>5, <1>6 DEF length

\* Cut anywhere, a datagram is not as long as its header says, and every
\* parser gives up at it.
LEMMA CutHasNoApdu ==
    ASSUME NEW d, IsPlain(d), NEW k \in 1..(Len(d) - 1), NEW functions, NEW least \in 4..20
    PROVE  Apdu(SubSeq(d, 1, k), functions, least) = <<>>
<1> DEFINE cut == SubSeq(d, 1, k)
<1>1. PICK S : d \in Seq(S)
  BY PlainIsSized DEF IsSequence
<1>2. Len(d) \in Nat /\ 256 * d[3] + d[4] = Len(d)
  BY PlainIsSized
<1>3. Len(cut) = k /\ (k >= 4 => cut[3] = d[3] /\ cut[4] = d[4])
  BY <1>1, <1>2
<1>4. Len(cut) >= least => 256 * cut[3] + cut[4] # Len(cut)
  BY <1>2, <1>3
<1>. QED BY <1>4 DEF Apdu

\* Octets in which no parser finds an APDU.
HasNoApdu(octets) == \A functions, least : least \in 4..20 => Apdu(octets, functions, least) = <<>>

\* No APDU is no answer.
LEMMA EmptyIsNoAnswer ==
    \A invoke, service, positive : ClassifyAnswer(<<>>, invoke, service, positive) = "Unrelated"
  BY DEF ClassifyAnswer

\* Where no APDU is found, neither side hears anything: all parsers go
\* through that check first.
LEMMA NoApduIsUnheard ==
    ASSUME NEW octets, HasNoApdu(octets)
    PROVE  /\ AtServer(octets) = {} /\ ToAll(octets) = {}
           /\ \A n, request : Outcome(octets, n, request) = Unheard
<1>1. \A functions : /\ Apdu(octets, functions, 4) = <<>> /\ Apdu(octets, functions, 8) = <<>>
                     /\ Apdu(octets, functions, 13) = <<>> /\ Apdu(octets, functions, 14) = <<>>
                     /\ Apdu(octets, functions, 17) = <<>> /\ Apdu(octets, functions, 20) = <<>>
  BY DEF HasNoApdu
<1>2. ParseWhoIs(octets) = Unheard
  BY <1>1, SMT DEF ParseWhoIs, Heard, Where
<1>3. ConfirmedHeader(octets) = [status |-> "Malformed"]
  BY <1>1 DEF ConfirmedHeader
<1>4. \A services : ~IsRequest(octets, services)
  BY <1>3 DEF IsRequest
<1>5. ParseReadRequest(octets) = Unheard /\ ParseWriteRequest(octets) = Unheard
      /\ ParseSubscribe(octets) = Unheard
  BY <1>4 DEF ParseReadRequest, ParseWriteRequest, ParseSubscribe
<1>6. \A n : ClassifyNotificationAnswer(octets, n) = "Unrelated"
  BY <1>1, EmptyIsNoAnswer DEF ClassifyNotificationAnswer
<1>7. AtServer(octets) = {}
  BY <1>2, <1>4, <1>5, <1>6 DEF AtServer
<1>8. ParseIAm(octets) = Unheard
  <2>1. Apdu(octets, {Unicast, Broadcast}, 14) = <<>>
    BY <1>1
  <2>2. Len(Apdu(octets, {Unicast, Broadcast}, 14)) < 2
    BY <2>1
  <2>. QED BY <2>2, SMT DEF ParseIAm
<1>9. ParseCovNotification(octets, MaxProperties) = Unheard
  <2>1. Apdu(octets, {Unicast, Broadcast}, 20) = <<>>
    BY <1>1
  <2>2. ~(Len(Apdu(octets, {Unicast, Broadcast}, 20)) >= 2)
    BY <2>1
  <2>3. ~(Len(Apdu(octets, {Unicast, Broadcast}, 20)) >= 4)
    BY <2>1
  <2>. QED BY <2>2, <2>3, Zenon DEF ParseCovNotification
<1>10. ToAll(octets) = {}
  BY <1>8, <1>9 DEF ToAll
<1>11. ASSUME NEW n, NEW request PROVE ReadOutcome(octets, n, request) = Unheard
  <2>1. ClassifyRead(octets, n) = "Unrelated"
    BY <1>1, EmptyIsNoAnswer DEF ClassifyRead
  <2>. QED BY <2>1 DEF ReadOutcome, OutcomeOf
<1>12. ASSUME NEW n PROVE WriteOutcome(octets, n) = Unheard
  <2>1. ClassifyWrite(octets, n) = "Unrelated"
    BY <1>1, EmptyIsNoAnswer DEF ClassifyWrite
  <2>. QED BY <2>1 DEF WriteOutcome
<1>13. ASSUME NEW n, NEW subscription PROVE SubscribeOutcome(octets, n, subscription) = Unheard
  <2>1. \A service : ClassifySubscribe(octets, n, service) = "Unrelated"
    BY <1>1, EmptyIsNoAnswer DEF ClassifySubscribe
  <2>. QED BY <2>1 DEF SubscribeOutcome
<1>14. \A n, request : Outcome(octets, n, request) = Unheard
  BY <1>8, <1>11, <1>12, <1>13 DEF Outcome
<1>. QED BY <1>7, <1>10, <1>14

\* What a builder gives: a datagram, or nothing.
IsSound(octets) == octets = <<>> \/ IsPlain(octets)

\* A builder that runs out of its buffer gives nothing, never a part of a
\* datagram.
LEMMA LimitedIsSound ==
    ASSUME NEW size, NEW least, NEW function, NEW control, NEW apdu, IsSequence(apdu)
    PROVE  IsSound(Limited(size, least, Datagram(function, control, apdu)))
<1>1. IsPlain(Datagram(function, control, apdu))
  BY DEF IsPlain
<1>. QED BY <1>1 DEF Limited, IsSound

-----------------------------------------------------------------------------
\* What the builders give.

\* A confirmed request is a datagram, or nothing.
LEMMA RequestIsSound ==
    ASSUME NEW invoke, NEW service, NEW parameters, IsSequence(parameters), NEW size, NEW least
    PROVE  /\ IsSound(Limited(size, least, ConfirmedRequest(invoke, service, parameters)))
           /\ IsSound(ConfirmedRequest(invoke, service, parameters))
<1>1. IsSequence(<<16 * Confirmed, 5, invoke, service>> \o parameters)
  BY TupleIsSequence, SequencesJoin
<1>. QED BY <1>1, LimitedIsSound DEF ConfirmedRequest, IsSound, IsPlain

\* So is an answer.
LEMMA AnswerIsSound ==
    ASSUME NEW pdu, NEW invoke, NEW octets, IsSequence(octets), NEW size, NEW least
    PROVE  IsSound(Limited(size, least, Answer(pdu, invoke, octets)))
<1>1. IsSequence(<<16 * pdu, invoke>> \o octets)
  BY TupleIsSequence, SequencesJoin
<1>. QED BY <1>1, LimitedIsSound DEF Answer

\* What the client sends for a request is a datagram, or nothing.
LEMMA RequestedIsSound ==
    ASSUME NEW request, NEW n, request.kind = "Write" => IsSendable(request.value)
    PROVE  IsSound(Requested(request, n))
<1>1. CASE request.kind = "Discover"
  <2>1. IsSound(BuildWhoIs(8))
    BY TupleIsSequence, LimitedIsSound DEF BuildWhoIs
  <2>. QED BY <1>1, <2>1 DEF Requested
<1>2. CASE request.kind = "Read"
  <2>1. IsSound(BuildReadRequest(25, n, request.request))
    BY ParametersAreSequences, SequencesJoin, RequestIsSound DEF BuildReadRequest, IsSound
  <2>. QED BY <1>2, <2>1 DEF Requested
<1>3. CASE request.kind = "Write"
  <2>1. IsSequence(Encode(request.value))
    BY <1>3, EncodedIsSequence
  <2>2. IsSequence(IF request.priority \in {NoPriority, 0} THEN <<>> ELSE ContextUnsigned(4, request.priority))
    BY ParametersAreSequences, TupleIsSequence
  <2>3. IsSound(BuildWriteRequest(544, n, request.request, request.value, request.priority))
    BY <2>1, <2>2, ParametersAreSequences, SequencesJoin, RequestIsSound DEF BuildWriteRequest, IsSound
  <2>. QED BY <1>3, <2>3 DEF Requested
<1>4. CASE request.kind = "Subscribe"
  <2>1. IsSound(BuildSubscribeCov(40, n, request.subscription))
    BY ParametersAreSequences, SequencesJoin, RequestIsSound DEF BuildSubscribeCov, IsSound
  <2>2. IsSequence(IF request.subscription.increment = Null THEN <<>>
                   ELSE Context(5, Octets(request.subscription.increment[2], 4)))
    BY ParametersAreSequences, TupleIsSequence
  <2>3. IsSound(BuildSubscribeCovProperty(40, n, request.subscription))
    BY <2>2, ParametersAreSequences, SequencesJoin, RequestIsSound DEF BuildSubscribeCovProperty, IsSound
  <2>. QED BY <1>4, <2>1, <2>3 DEF Requested
<1>5. CASE request.kind \notin {"Discover", "Read", "Write", "Subscribe"}
  <2>1. IsSound(ConfirmedRequest(n, request.service, <<>>))
    BY TupleIsSequence, RequestIsSound
  <2>. QED BY <1>5, <2>1 DEF Requested
<1>. QED BY <1>1, <1>2, <1>3, <1>4, <1>5

\* So are acknowledgements, rejects and errors.
LEMMA ShortAnswersAreSound ==
    /\ \A size, invoke, service : IsSound(BuildSimpleAck(size, invoke, service))
    /\ \A size, invoke, reason : IsSound(BuildReject(size, invoke, reason))
    /\ \A size, invoke, service, class, code : IsSound(BuildError(size, invoke, service, class, code))
<1>1. ASSUME NEW size, NEW invoke, NEW service PROVE IsSound(BuildSimpleAck(size, invoke, service))
  BY TupleIsSequence, AnswerIsSound DEF BuildSimpleAck
<1>2. ASSUME NEW size, NEW invoke, NEW reason PROVE IsSound(BuildReject(size, invoke, reason))
  BY TupleIsSequence, AnswerIsSound DEF BuildReject
<1>3. ASSUME NEW size, NEW invoke, NEW service, NEW class, NEW code
      PROVE  IsSound(BuildError(size, invoke, service, class, code))
  <2>1. \A n : IsSequence(Encode(<<"Enumerated", n>>))
    BY EncodedIsSequence DEF IsSendable
  <2>. QED BY <2>1, TupleIsSequence, SequencesJoin, AnswerIsSound DEF BuildError
<1>. QED BY <1>1, <1>2, <1>3

\* And the I-Am of the device.
LEMMA IAmIsSound == \A size : IsSound(BuildIAm(size, Device))
<1>1. /\ IsSequence(Encode(<<"ObjectIdentifier", [type |-> DeviceType, instance |-> Device.instance]>>))
      /\ \A n : IsSequence(Encode(<<"Unsigned", n>>)) /\ IsSequence(Encode(<<"Enumerated", n>>))
  BY EncodedIsSequence DEF IsSendable
<1>. QED BY <1>1, TupleIsSequence, SequencesJoin, LimitedIsSound DEF BuildIAm, IsSound

\* The parts are joined from the last to the first.
Joining(os, parts, k) == parts[Len(parts) - k + 1] \o os
\* The sequences on the way: f[k] is made of the last k parts.
IsJoining(f, parts, n) ==
    f = [k \in 0..n |-> IF k = 0 THEN <<>> ELSE Joining(f[k - 1], parts, k)]

\* The fold over the parts has its intermediate states.
LEMMA JoiningExists ==
    ASSUME NEW parts, NEW n \in Nat
    PROVE  \E f : IsJoining(f, parts, n)
<1> DEFINE T == {m \in Nat : ~(\E g : IsJoining(g, parts, m))}
<1>. SUFFICES ASSUME T # {} PROVE FALSE
  OBVIOUS
<1>1. PICK p \in T : \A x \in T : p <= x
  BY LeastFound
<1>2. p # 0
  <2>1. IsJoining([k \in 0..0 |-> <<>>], parts, 0)
    BY DEF IsJoining
  <2>. QED BY <1>1, <2>1
<1>3. PICK g : IsJoining(g, parts, p - 1)
  BY <1>1, <1>2
<1> DEFINE h == [k \in 0..p |-> IF k = p THEN Joining(g[p - 1], parts, p) ELSE g[k]]
<1>4. h = [k \in 0..p |-> IF k = 0 THEN <<>> ELSE Joining(h[k - 1], parts, k)]
  <2>1. ASSUME NEW k \in 0..p
        PROVE  h[k] = IF k = 0 THEN <<>> ELSE Joining(h[k - 1], parts, k)
    <3>1. CASE k = p
      BY <3>1, <1>2
    <3>2. CASE k # p
      <4>1. g[k] = IF k = 0 THEN <<>> ELSE Joining(g[k - 1], parts, k)
        BY <1>3, <3>2 DEF IsJoining
      <4>. QED BY <4>1, <3>2
    <3>. QED BY <3>1, <3>2
  <2>. QED BY <2>1
<1>5. IsJoining(h, parts, p)
  BY <1>4 DEF IsJoining
<1>. QED BY <1>1, <1>5

\* Parts of octets are joined one before the other, from the last on.
LEMMA PartsJoin ==
    ASSUME NEW parts, Len(parts) \in Nat
    PROVE  \E f : /\ f[0] = <<>>
                  /\ \A k \in 1..Len(parts) : f[k] = parts[Len(parts) - k + 1] \o f[k - 1]
                  /\ Joined(parts) = f[Len(parts)]
<1> DEFINE F == CHOOSE f : IsJoining(f, parts, Len(parts))
<1>1. IsJoining(F, parts, Len(parts))
  BY JoiningExists
<1>2. Joined(parts) = F[Len(parts)]
  BY DEF Joined, Iterated, IsJoining, Joining
<1> HIDE DEF F
<1>3. F[0] = <<>> /\ \A k \in 1..Len(parts) : F[k] = Joining(F[k - 1], parts, k)
  BY <1>1 DEF IsJoining
<1>. QED BY <1>2, <1>3 DEF Joining

\* Parts that are sequences make one sequence.
LEMMA JoinedIsSequence ==
    ASSUME NEW parts, Len(parts) \in Nat, \A i \in 1..Len(parts) : IsSequence(parts[i])
    PROVE  IsSequence(Joined(parts))
<1>1. PICK f : /\ f[0] = <<>>
               /\ \A k \in 1..Len(parts) : f[k] = parts[Len(parts) - k + 1] \o f[k - 1]
               /\ Joined(parts) = f[Len(parts)]
  BY PartsJoin
<1> DEFINE T == {k \in 0..Len(parts) : ~IsSequence(f[k])}
<1>2. T = {}
  <2>. SUFFICES ASSUME T # {} PROVE FALSE
    OBVIOUS
  <2>0. T \in SUBSET Nat
    OBVIOUS
  <2>1. PICK p \in T : \A x \in T : p <= x
    BY <2>0, LeastFound
  <2>2. p # 0
    BY <2>1, <1>1, TupleIsSequence
  <2>3. IsSequence(f[p - 1])
    BY <2>1, <2>2
  <2>4. IsSequence(parts[Len(parts) - p + 1])
    BY <2>1, <2>2
  <2>5. f[p] = parts[Len(parts) - p + 1] \o f[p - 1]
    <3>1. p \in 1..Len(parts)
      BY <2>1, <2>2
    <3>. QED BY <3>1, <1>1
  <2>6. IsSequence(f[p])
    BY <2>3, <2>4, <2>5, SequencesJoin
  <2>. QED BY <2>1, <2>6
<1>. QED BY <1>1, <1>2

\* What an octet can be.
Byte == 0..255

-----------------------------------------------------------------------------
\* A datagram and what is found in it.

\* Two sequences joined come apart again where the first ends.
LEMMA Joins ==
    ASSUME NEW S, NEW s \in Seq(S), NEW t \in Seq(S)
    PROVE  /\ s \o t \in Seq(S)
           /\ From(s \o t, Len(s) + 1) = t
           /\ SubSeq(s \o t, 1, Len(s)) = s
<1>1. s \o t \in Seq(S) /\ Len(s \o t) = Len(s) + Len(t)
  OBVIOUS
<1>2. From(s \o t, Len(s) + 1) = t
  <2> DEFINE u == From(s \o t, Len(s) + 1)
  <2>1. u \in Seq(S) /\ Len(u) = Len(t)
    BY <1>1 DEF From
  <2>2. \A i \in 1..Len(t) : u[i] = t[i]
    BY <1>1 DEF From
  <2>. QED BY <2>1, <2>2
<1>3. SubSeq(s \o t, 1, Len(s)) = s
  <2> DEFINE u == SubSeq(s \o t, 1, Len(s))
  <2>1. u \in Seq(S) /\ Len(u) = Len(s)
    BY <1>1
  <2>2. \A i \in 1..Len(s) : u[i] = s[i]
    BY <1>1
  <2>. QED BY <2>1, <2>2
<1>. QED BY <1>1, <1>2, <1>3

\* Two sequences can be taken over the same elements.
LEMMA SequencesShare ==
    ASSUME NEW s, NEW t, IsSequence(s), IsSequence(t)
    PROVE  \E S : s \in Seq(S) /\ t \in Seq(S)
<1>1. PICK S : s \in Seq(S)
  BY DEF IsSequence
<1>2. PICK T : t \in Seq(T)
  BY DEF IsSequence
<1>3. s \in Seq(S \union T) /\ t \in Seq(S \union T)
  BY <1>1, <1>2
<1>. QED BY <1>3

\* So sequences of any elements come apart again.
LEMMA SequencesPart ==
    ASSUME NEW s, NEW t, IsSequence(s), IsSequence(t)
    PROVE  From(s \o t, Len(s) + 1) = t /\ SubSeq(s \o t, 1, Len(s)) = s
  BY SequencesShare, Joins

\* A datagram with its function, its control octet and its APDU.
IsDatagram(d, function, control, apdu) ==
    control \in {0, 4} /\ IsSequence(apdu) /\ d = Datagram(function, control, apdu)
\* A datagram in which the APDU is found, by a parser that takes its
\* function, when it is long enough.
Carries(d, function, apdu) ==
    \A functions, least : least \in Nat =>
        Apdu(d, functions, least) =
            IF Len(apdu) + 6 >= least /\ function \in functions THEN apdu ELSE <<>>

\* In a datagram as it is built, the parsers find the APDU that it was built
\* from.
LEMMA DatagramRead ==
    ASSUME NEW d, NEW function, NEW control, NEW apdu, IsDatagram(d, function, control, apdu)
    PROVE  Carries(d, function, apdu)
<1>0. control \in {0, 4} /\ IsSequence(apdu) /\ d = Datagram(function, control, apdu)
  BY Zenon DEF IsDatagram
<1> DEFINE length == Len(apdu) + 6
           link == <<129, function, length \div 256, length % 256>>
           header == <<1, control>>
<1>1. Len(apdu) \in Nat
  BY <1>0, SequenceLength
<1>2. IsSequence(link) /\ IsSequence(header) /\ Len(link) = 4 /\ Len(header) = 2
  BY TupleIsSequence
<1>3. d = link \o (header \o apdu)
  <2>1. PICK S : header \in Seq(S) /\ apdu \in Seq(S)
    BY <1>0, <1>2, SequencesShare
  <2>2. d = <<129, function, length \div 256, length % 256, 1, control>> \o apdu
    BY <1>0 DEF Datagram
  <2>3. link \in Seq(S \union {129, function, length \div 256, length % 256})
    OBVIOUS
  <2>. QED BY <2>1, <2>2, <2>3
<1>4. IsSequence(header \o apdu) /\ Len(header \o apdu) = 2 + Len(apdu)
      /\ (header \o apdu)[1] = 1 /\ (header \o apdu)[2] = control
  BY <1>0, <1>2, SequencesJoin
<1>5. /\ From(d, 5) = header \o apdu
      /\ Len(d) = length
      /\ d[1] = 129 /\ d[2] = function /\ d[3] = length \div 256 /\ d[4] = length % 256
  <2> DEFINE rest == header \o apdu
  <2>1. IsSequence(rest) /\ Len(rest) = 2 + Len(apdu)
    BY <1>4
  <2>2. link[1] = 129 /\ link[2] = function /\ link[3] = length \div 256 /\ link[4] = length % 256
    OBVIOUS
  <2>. HIDE DEF rest, link
  <2>3. /\ From(link \o rest, Len(link) + 1) = rest
        /\ Len(link \o rest) = Len(link) + Len(rest)
        /\ \A i \in 1..Len(link) : (link \o rest)[i] = link[i]
    BY <1>2, <2>1, SequencesPart, SequencesJoin
  <2>4. d = link \o rest
    BY <1>3 DEF rest
  <2>5. From(d, 5) = rest
    BY <2>3, <2>4, <1>2
  <2>6. Len(d) = length
    BY <2>3, <2>4, <1>2, <2>1, <1>1
  <2>7. \A i \in 1..4 : d[i] = link[i]
    BY <2>3, <2>4, <1>2
  <2>. QED BY <2>2, <2>5, <2>6, <2>7 DEF rest
<1>6. AfterHeader(header \o apdu).rest = apdu
  <2>1. From(header \o apdu, 3) = apdu
    <3>1. From(header \o apdu, Len(header) + 1) = apdu
      BY <1>0, <1>2, SequencesPart
    <3>. QED BY <3>1, <1>2
  <2>2. (control \div 8) % 2 # 1 /\ (control \div 32) % 2 # 1
    BY <1>0
  <2> HIDE DEF header
  <2>3. control \in {0, 4} /\ control < 128
    BY <1>0
  <2>. QED BY <1>1, <1>4, <2>1, <2>2, <2>3 DEF AfterHeader, Read
<1>7. 256 * (length \div 256) + (length % 256) = length
  BY <1>1
<1> HIDE DEF header, length
<1>8. ASSUME NEW functions, NEW least \in Nat
      PROVE  Apdu(d, functions, least) = IF length >= least /\ function \in functions THEN apdu ELSE <<>>
  BY <1>5, <1>6, <1>7 DEF Apdu
<1>. QED BY <1>8, Zenon DEF length, Carries

-----------------------------------------------------------------------------
\* Numbers in octets.

\* A number in one octet, the highest first.
LEMMA OneOctet == \A n \in Int : Octets(n, 1) = <<n % 256>>
  BY SMT DEF Octets, Weight

\* A number in two octets, the highest first.
LEMMA TwoOctets == \A n \in Int : Octets(n, 2) = <<(n \div 256) % 256, n % 256>>
  BY SMT DEF Octets, Weight

\* A number in three octets, the highest first.
LEMMA ThreeOctets == \A n \in Int : Octets(n, 3) = <<(n \div 65536) % 256, (n \div 256) % 256, n % 256>>
  BY SMT DEF Octets, Weight

\* A number in four octets, the highest first.
LEMMA FourOctets ==
    \A n \in Int : Octets(n, 4) = <<(n \div 16777216) % 256, (n \div 65536) % 256, (n \div 256) % 256, n % 256>>
  BY SMT DEF Octets, Weight

\* The number of 32 bits that four octets are; the highest has the sign.
Sum(a, b, c, e) == (IF a >= 128 THEN a - 256 ELSE a) * 16777216 + b * 65536 + c * 256 + e

\* One octet read back as a number.
LEMMA NumberOfOne == \A a \in Byte : Number(<<a>>) = a
  BY SMT DEF Number, Byte

\* Two octets read back as a number.
LEMMA NumberOfTwo == \A a \in Byte, b \in Byte : Number(<<a, b>>) = a * 256 + b
  BY SMT DEF Number, Byte

\* Three octets read back as a number.
LEMMA NumberOfThree ==
    \A a \in Byte, b \in Byte, c \in Byte : Number(<<a, b, c>>) = a * 65536 + b * 256 + c
  BY SMT DEF Number, Byte

\* Four octets read back as a number.
LEMMA NumberOfFour ==
    \A a \in Byte, b \in Byte, c \in Byte, e \in Byte : Number(<<a, b, c, e>>) = Sum(a, b, c, e)
  BY SMT DEF Number, Byte, Sum

\* Four octets are always a number of 32 bits.
LEMMA SumIsWord ==
    \A a \in Byte, b \in Byte, c \in Byte, e \in Byte : Sum(a, b, c, e) \in Int32
  BY SMT DEF Sum, Byte, Int32

\* A number is its lowest octet and the rest.
LEMMA Divided == \A n \in Int : n = (n \div 256) * 256 + (n % 256) /\ n % 256 \in Byte /\ n \div 256 \in Int
  BY SMT DEF Byte

\* Dividing by 256 step by step gives the higher octets.
LEMMA DividedAgain ==
    \A n \in Int : n \div 65536 = (n \div 256) \div 256 /\ n \div 16777216 = (n \div 65536) \div 256
  BY SMT

\* The highest octet of a number of 32 bits, with its sign.
LEMMA HighestOctet == \A n \in Int32 : n \div 16777216 \in -128..127
  BY SMT DEF Int32

\* An octet from 128 on stands for a negative one.
LEMMA SignOfOctet == \A m \in -128..127 : m = IF m % 256 >= 128 THEN (m % 256) - 256 ELSE m % 256
  BY SMT

\* The four octets of a number of 32 bits add up to it.
LEMMA SumOf ==
    ASSUME NEW n \in Int32
    PROVE  Sum((n \div 16777216) % 256, (n \div 65536) % 256, (n \div 256) % 256, n % 256) = n
<1>. DEFINE p == n \div 256
            q == n \div 65536
            r == n \div 16777216
<1>1. n \in Int
  BY SMT DEF Int32
<1>2. q = p \div 256 /\ r = q \div 256
  BY <1>1, DividedAgain, SMT
<1>3. n = p * 256 + (n % 256) /\ p \in Int
  BY <1>1, Divided
<1>4. p = q * 256 + (p % 256) /\ q \in Int
  BY <1>2, <1>3, Divided, SMT
<1>5. q = r * 256 + (q % 256) /\ r \in Int
  BY <1>2, <1>4, Divided, SMT
<1>6. r = IF r % 256 >= 128 THEN (r % 256) - 256 ELSE r % 256
  BY HighestOctet, SignOfOctet, SMT
<1>7. n % 256 \in Int /\ p % 256 \in Int /\ q % 256 \in Int
  BY <1>1, <1>3, <1>4
<1> HIDE DEF p, q, r
<1>8. Sum(r % 256, q % 256, p % 256, n % 256) = r * 16777216 + (q % 256) * 65536 + (p % 256) * 256 + (n % 256)
  BY <1>6, SMT DEF Sum
<1>9. Sum(r % 256, q % 256, p % 256, n % 256) = n
  BY <1>1, <1>3, <1>4, <1>5, <1>7, <1>8, SMT
<1>. QED BY <1>9, SMT DEF p, q, r

\* The numbers that so many octets have room for; four take the negative
\* ones.
Words(length) ==
    CASE length = 1 -> Below(256)
      [] length = 2 -> Below(65536)
      [] length = 3 -> Below(16777216)
      [] length = 4 -> Int32

\* A number written in as many octets as it needs is read back as itself.
LEMMA NumberOfOctets ==
    ASSUME NEW length \in 1..4, NEW n \in Words(length)
    PROVE  Number(Octets(n, length)) = n
<1>1. CASE length = 1
  <2>1. n \in 0..255
    BY <1>1, SMT DEF Words, Below
  <2>2. n % 256 = n /\ n \in Int
    BY <2>1
  <2>3. Octets(n, 1) = <<n>>
    <3>1. Octets(n, 1) = <<n % 256>>
      BY <2>2, OneOctet
    <3>. QED BY <2>2, <3>1, Zenon
  <2>4. Number(<<n>>) = n
    <3>1. n \in Byte
      BY <2>1 DEF Byte
    <3>. QED BY <3>1, NumberOfOne
  <2>. QED BY <1>1, <2>3, <2>4
<1>2. CASE length = 2
  <2>1. n \in Nat /\ n < 65536
    BY <1>2, SMT DEF Words, Below
  <2>2. n \in Int /\ n \div 256 \in Byte /\ n % 256 \in Byte /\ n = (n \div 256) * 256 + (n % 256)
    BY <2>1, SMT DEF Byte
  <2>3. (n \div 256) % 256 = n \div 256
    BY <2>2, SMT DEF Byte
  <2>4. Number(<<n \div 256, n % 256>>) = n
    BY <2>2, NumberOfTwo, SMT
  <2>5. Octets(n, 2) = <<n \div 256, n % 256>>
    <3>1. Octets(n, 2) = <<(n \div 256) % 256, n % 256>>
      BY <2>2, TwoOctets
    <3>. QED BY <2>3, <3>1, Zenon
  <2>. QED BY <1>2, <2>4, <2>5
<1>3. CASE length = 3
  <2>1. n \in Nat /\ n < 16777216
    BY <1>3, SMT DEF Words, Below
  <2>2. n \in Int /\ n \div 65536 \in Byte
    BY <2>1, SMT DEF Byte
  <2>3. (n \div 65536) % 256 = n \div 65536 /\ n \div 65536 = (n \div 256) \div 256
    BY <2>2, DividedAgain, SMT DEF Byte
  <2>4. /\ n = (n \div 256) * 256 + (n % 256) /\ n % 256 \in Byte /\ n \div 256 \in Int
        /\ n \div 256 = (n \div 65536) * 256 + ((n \div 256) % 256) /\ (n \div 256) % 256 \in Byte
    BY <2>2, <2>3, Divided, SMT
  <2>5. n = (n \div 65536) * 65536 + ((n \div 256) % 256) * 256 + (n % 256)
    BY <2>2, <2>4, SMT DEF Byte
  <2>6. Number(<<n \div 65536, (n \div 256) % 256, n % 256>>) = n
    BY <2>2, <2>4, <2>5, NumberOfThree, SMT
  <2>7. Octets(n, 3) = <<n \div 65536, (n \div 256) % 256, n % 256>>
    <3>1. Octets(n, 3) = <<(n \div 65536) % 256, (n \div 256) % 256, n % 256>>
      <4> HIDE DEF Words
      <4>1. n \in Int
        BY <2>2
      <4>. QED BY <4>1, ThreeOctets, SMT
    <3>. QED BY <2>3, <3>1, SMT
  <2>. QED BY <1>3, <2>6, <2>7
<1>4. CASE length = 4
  <2>1. n \in Int32
    BY <1>4, SMT DEF Words
  <2>2. n \in Int /\ n \div 16777216 \in Int /\ n \div 65536 \in Int /\ n \div 256 \in Int
    BY <2>1, SMT DEF Int32
  <2>. DEFINE a == (n \div 16777216) % 256
              b == (n \div 65536) % 256
              c == (n \div 256) % 256
              e == n % 256
  <2>3. a \in Byte /\ b \in Byte /\ c \in Byte /\ e \in Byte
    BY <2>2, Divided, SMT
  <2>4. Octets(n, 4) = <<a, b, c, e>> /\ Sum(a, b, c, e) = n
    BY <2>1, <2>2, FourOctets, SumOf, SMT
  <2> HIDE DEF a, b, c, e
  <2>. QED BY <1>4, <2>3, <2>4, NumberOfFour
<1>. QED BY <1>1, <1>2, <1>3, <1>4

-----------------------------------------------------------------------------
\* Tags.

\* Two sequences of the same length and the same elements are the same.
LEMMA SameSequence ==
    ASSUME NEW n \in Nat, NEW s, IsSequence(s), Len(s) = n, NEW t, IsSequence(t), Len(t) = n,
           \A i \in 1..n : s[i] = t[i]
    PROVE  s = t
<1>1. PICK S : s \in Seq(S) /\ t \in Seq(S)
  BY SequencesShare
<1>. QED BY <1>1

\* Two pairs of octets make four.
LEMMA PairsJoin == \A a, b, c, e : <<a, b>> \o <<c, e>> = <<a, b, c, e>>
<1> SUFFICES ASSUME NEW a, NEW b, NEW c, NEW e
             PROVE  <<a, b>> \o <<c, e>> = <<a, b, c, e>>
  OBVIOUS
<1> DEFINE p == <<a, b>>
           q == <<c, e>>
           s == p \o q
           t == <<a, b, c, e>>
<1>1. IsSequence(p) /\ IsSequence(q) /\ IsSequence(t)
  BY TupleIsSequence
<1>2. Len(p) = 2 /\ Len(q) = 2 /\ Len(t) = 4 /\ p[1] = a /\ p[2] = b /\ q[1] = c /\ q[2] = e
      /\ t[1] = a /\ t[2] = b /\ t[3] = c /\ t[4] = e
  OBVIOUS
<1> HIDE DEF p, q, t
<1>3. /\ IsSequence(s) /\ Len(s) = Len(p) + Len(q)
      /\ \A i \in 1..Len(p) : s[i] = p[i]
      /\ \A i \in 1..Len(q) : s[Len(p) + i] = q[i]
  BY <1>1, SequencesJoin
<1>4. s[1] = p[1] /\ s[2] = p[2]
  BY <1>2, <1>3
<1>5. s[2 + 1] = q[1] /\ s[2 + 2] = q[2]
  BY <1>2, <1>3
<1> HIDE DEF s
<1>6. \A i \in 1..4 : s[i] = t[i]
  BY <1>2, <1>4, <1>5
<1>7. s = t
  <2>1. Len(s) = 4
    BY <1>2, <1>3
  <2>2. 4 \in Nat
    OBVIOUS
  <2>. QED BY <1>1, <1>2, <1>3, <1>6, <2>1, <2>2, SameSequence
<1>. QED BY <1>7 DEF s, t, p, q

\* A sequence grows by one element at its end.
LEMMA AppendIsSequence ==
    ASSUME NEW s, IsSequence(s), NEW e
    PROVE  /\ IsSequence(Append(s, e)) /\ Len(Append(s, e)) = Len(s) + 1
           /\ Append(s, e)[Len(s) + 1] = e /\ \A i \in 1..Len(s) : Append(s, e)[i] = s[i]
<1>1. PICK S : s \in Seq(S)
  BY DEF IsSequence
<1>2. s \in Seq(S \union {e}) /\ e \in S \union {e}
  BY <1>1
<1>3. Append(s, e) \in Seq(S \union {e})
  BY <1>2
<1>. QED BY <1>2, <1>3 DEF IsSequence

\* t is s with e after it.
IsAppended(t, s, e) ==
    IsSequence(t) /\ Len(t) = Len(s) + 1 /\ t[Len(s) + 1] = e /\ \A i \in 1..Len(s) : t[i] = s[i]

\* That is what appending makes.
LEMMA Appended ==
    ASSUME NEW s, IsSequence(s), NEW e
    PROVE  IsAppended(Append(s, e), s, e)
BY AppendIsSequence DEF IsAppended

\* Parts of a datagram may be joined in any grouping.
LEMMA JoinsAssociate ==
    ASSUME NEW s, NEW t, NEW u, IsSequence(s), IsSequence(t), IsSequence(u)
    PROVE  (s \o t) \o u = s \o (t \o u)
<1>1. PICK S : s \in Seq(S)
  BY DEF IsSequence
<1>2. PICK T : t \in Seq(T)
  BY DEF IsSequence
<1>3. PICK U : u \in Seq(U)
  BY DEF IsSequence
<1>4. s \in Seq(S \union T \union U) /\ t \in Seq(S \union T \union U) /\ u \in Seq(S \union T \union U)
  BY <1>1, <1>2, <1>3
<1>. QED BY <1>4

\* The octet that a tag begins with holds its number, its class and its
\* length, and gives back each.
LEMMA TagOctet ==
    ASSUME NEW tag \in 0..15, NEW class \in {0, 8}, NEW length \in 0..7
    PROVE  /\ TagOf(16 * tag + class + length) = tag
           /\ IsContext(16 * tag + class + length) <=> class = 8
           /\ LengthOf(16 * tag + class + length) = length
           /\ 16 * tag + class + length \in Byte
  BY DEF TagOf, IsContext, LengthOf, Byte

\* A tag octet before its contents and the rest.
LEMMA LedJoin ==
    ASSUME NEW first, NEW octets, NEW rest, IsSequence(octets), IsSequence(rest),
           NEW os, os = (<<first>> \o octets) \o rest
    PROVE  /\ IsSequence(os) /\ Len(os) = 1 + Len(octets) + Len(rest) /\ os # <<>>
           /\ os[1] = first /\ os = <<first>> \o (octets \o rest)
<1>1. IsSequence(<<first>>) /\ Len(<<first>>) = 1 /\ <<first>>[1] = first
  BY TupleIsSequence
<1>3. os = <<first>> \o (octets \o rest)
  BY <1>1, JoinsAssociate
<1>4. IsSequence(octets \o rest) /\ Len(octets \o rest) = Len(octets) + Len(rest)
      /\ Len(octets) \in Nat /\ Len(rest) \in Nat
  BY SequencesJoin, SequenceLength
<1>5. IsSequence(os) /\ Len(os) = 1 + Len(octets) + Len(rest)
  BY <1>1, <1>3, <1>4, SequencesJoin
<1>6. os[1] = first
  BY <1>1, <1>3, <1>4, SequencesJoin
<1>7. os # <<>>
  BY <1>4, <1>5
<1>. QED BY <1>3, <1>5, <1>6, <1>7

\* Contents of one to four octets after their tag are read back, and the rest
\* is left.
LEMMA TaggedRead ==
    ASSUME NEW tag \in 0..15, NEW class \in {0, 8}, NEW octets, NEW rest,
           IsSequence(octets), IsSequence(rest), Len(octets) \in 1..4
    PROVE  ReadOctets(Tagged(tag, class, octets) \o rest, tag, class = 8) = Read(octets, rest)
<1> DEFINE first == 16 * tag + class + Len(octets)
           os == Tagged(tag, class, octets) \o rest
           tail == octets \o rest
<1>1. TagOf(first) = tag /\ (IsContext(first) <=> class = 8) /\ LengthOf(first) = Len(octets)
  <2>1. Len(octets) \in 0..7
    OBVIOUS
  <2>. QED BY <2>1, TagOctet
<1>2. os[1] = first /\ os # <<>> /\ Len(os) = 1 + Len(octets) + Len(rest) /\ os = <<first>> \o tail
  <2>1. os = (<<first>> \o octets) \o rest
    BY Zenon DEF Tagged
  <2> HIDE DEF os, first
  <2>. QED BY <2>1, LedJoin
<1>3. Len(rest) \in Nat
  BY SequenceLength
<1>4. PICK S : octets \in Seq(S) /\ rest \in Seq(S)
  BY SequencesShare
<1>5. SubSeq(os, 2, 1 + Len(octets)) = octets /\ From(os, 2 + Len(octets)) = rest
  <2> HIDE DEF first, os
  <2> DEFINE U == S \union {first}
  <2>1. octets \in Seq(U) /\ rest \in Seq(U) /\ <<first>> \in Seq(U)
    BY <1>4
  <2> HIDE DEF U
  <2>2. /\ (<<first>> \o octets) \in Seq(U) /\ Len(<<first>> \o octets) = 1 + Len(octets)
        /\ os = (<<first>> \o octets) \o rest
    BY <1>2, <2>1
  <2>3. From(os, 2 + Len(octets)) = rest
    <3>1. From((<<first>> \o octets) \o rest, Len(<<first>> \o octets) + 1) = rest
      BY <2>1, <2>2, Joins
    <3>2. Len(<<first>> \o octets) + 1 = 2 + Len(octets)
      BY <2>2
    <3>. QED BY <3>1, <3>2, <2>2, Zenon
  <2>4. SubSeq(os, 2, 1 + Len(octets)) = octets
    <3> DEFINE u == SubSeq(os, 2, 1 + Len(octets))
    <3>1. os \in Seq(U) /\ Len(os) = 1 + Len(octets) + Len(rest)
      BY <1>2, <2>1, <2>2
    <3>2. u \in Seq(U) /\ Len(u) = Len(octets)
      BY <3>1, <1>3
    <3>3. \A i \in 1..Len(octets) : u[i] = octets[i]
      BY <3>1, <1>3, <2>1, <2>2
    <3>. QED BY <3>2, <3>3, <2>1
  <2>. QED BY <2>3, <2>4
<1> HIDE DEF first, os
<1>6. LengthOf(os[1]) < Len(os)
  BY <1>1, <1>2, <1>3
<1>7. ReadOctets(os, tag, class = 8) = Read(octets, rest)
  <2>1. IsContext(os[1]) = (class = 8)
    <3>1. IsContext(os[1]) <=> class = 8
      BY <1>1, <1>2
    <3>2. IsContext(os[1]) \in BOOLEAN
      BY DEF IsContext
    <3>. QED BY <3>1, <3>2, Zenon
  <2>2. TagOf(os[1]) = tag /\ LengthOf(os[1]) = Len(octets)
    BY <1>1, <1>2
  <2>. QED BY <1>2, <1>5, <1>6, <2>1, <2>2, Zenon DEF ReadOctets
<1>. QED BY <1>7 DEF os

\* A number fits the octets that its writer chooses for it.
LEMMA LengthFits ==
    ASSUME NEW n \in Int32
    PROVE  n \in Words(UnsignedLength(n)) /\ n \in Words(ContextLength(n))
<1>1. CASE n \in Below(256)
  <2>1. UnsignedLength(n) = 1
    BY <1>1, SMT DEF UnsignedLength, Below
  <2>2. n \in Words(1)
    BY <1>1 DEF Words
  <2>. QED BY <2>1, <2>2 DEF ContextLength
<1>2. CASE n \in Below(65536) \ Below(256)
  <2>1. UnsignedLength(n) = 2
    BY <1>2, SMT DEF UnsignedLength, Below
  <2>2. n \in Words(2)
    BY <1>2, SMT DEF Words
  <2>. QED BY <2>1, <2>2 DEF ContextLength
<1>3. CASE n \in Below(16777216) \ Below(65536)
  <2>1. UnsignedLength(n) = 3
    BY <1>3, SMT DEF UnsignedLength, Below
  <2>2. n \in Words(3) /\ n \in Words(4)
    BY <1>3, SMT DEF Words
  <2>. QED BY <2>1, <2>2, SMT DEF ContextLength
<1>4. CASE n \notin Below(16777216)
  <2>1. UnsignedLength(n) = 4
    BY <1>4, SMT DEF UnsignedLength, Below
  <2>2. n \in Words(4)
    BY SMT DEF Words
  <2>. QED BY <2>1, <2>2, SMT DEF ContextLength
<1>. QED BY <1>1, <1>2, <1>3, <1>4, SMT

\* A number under a context tag is read back.
LEMMA ContextRead ==
    ASSUME NEW n \in Int32, NEW tag \in 0..15, NEW rest, IsSequence(rest)
    PROVE  ReadContext(ContextUnsigned(tag, n) \o rest, tag) = Read(n, rest)
<1> DEFINE octets == Octets(n, ContextLength(n))
<1>1. ContextLength(n) \in 1..4
  BY LengthsOfNumbers
<1>2. Number(octets) = n
  BY <1>1, LengthFits, NumberOfOctets
<1>3. IsSequence(octets) /\ Len(octets) \in 1..4
  <2>1. ContextLength(n) \in Nat
    BY <1>1
  <2>. QED BY <1>1, <2>1, OctetsLength
<1>4. ContextUnsigned(tag, n) = Tagged(tag, 8, octets)
  BY DEF ContextUnsigned, Context
<1> HIDE DEF octets
<1>5. ReadOctets(Tagged(tag, 8, octets) \o rest, tag, 8 = 8) = Read(octets, rest)
  BY <1>3, TaggedRead
<1> DEFINE r == ReadOctets(ContextUnsigned(tag, n) \o rest, tag, TRUE)
<1>6. r = Read(octets, rest)
  BY <1>4, <1>5
<1>7. r.ok /\ r.value = octets /\ r.rest = rest
  <2> HIDE DEF r
  <2>. QED BY <1>6 DEF Read
<1>. QED BY <1>2, <1>7, Zenon DEF ReadContext, Mapped

\* A number under an application tag is read back.
LEMMA ApplicationRead ==
    ASSUME NEW n \in Int32, NEW tag \in 0..15, NEW rest, IsSequence(rest)
    PROVE  ReadApplication(Application(tag, Octets(n, UnsignedLength(n))) \o rest, tag) = Read(n, rest)
<1> DEFINE octets == Octets(n, UnsignedLength(n))
<1>1. UnsignedLength(n) \in 1..4
  BY LengthsOfNumbers
<1>2. Number(octets) = n
  BY <1>1, LengthFits, NumberOfOctets
<1>3. IsSequence(octets) /\ Len(octets) \in 1..4
  <2>1. UnsignedLength(n) \in Nat
    BY <1>1
  <2>. QED BY <1>1, <2>1, OctetsLength
<1> HIDE DEF octets
<1>5. ReadOctets(Tagged(tag, 0, octets) \o rest, tag, 0 = 8) = Read(octets, rest)
  BY <1>3, TaggedRead
<1>6. ReadOctets(Application(tag, octets) \o rest, tag, FALSE) = Read(octets, rest)
  <2>1. (0 = 8) = FALSE
    OBVIOUS
  <2>. QED BY <1>5, <2>1, Zenon DEF Application
<1>7. ReadApplication(Application(tag, octets) \o rest, tag) = Read(n, rest)
  <2> DEFINE r == ReadOctets(Application(tag, octets) \o rest, tag, FALSE)
  <2>1. r.ok /\ r.value = octets /\ r.rest = rest
    <3>1. r = Read(octets, rest)
      BY <1>6
    <3> HIDE DEF r
    <3>. QED BY <3>1 DEF Read
  <2>. QED BY <1>2, <2>1, Zenon DEF ReadApplication, Mapped
<1>. QED BY <1>7 DEF octets

\* An object identifier goes through its four octets, type and instance,
\* unchanged.
LEMMA ObjectNumber ==
    ASSUME NEW object \in ObjectIds
    PROVE  /\ ObjectOctets(object) \in Seq(Byte) /\ Len(ObjectOctets(object)) = 4
           /\ Number(ObjectOctets(object)) \in Int32
           /\ ObjectFrom(Number(ObjectOctets(object))) = object
<1> DEFINE t == object.type
           n == object.instance
           a == (t \div 4) % 256
           b == (t % 4) * 64 + ((n \div 65536) % 64)
           c == (n \div 256) % 256
           e == n % 256
<1>1. t \in 0..1023 /\ n \in Nat /\ n < 4194304 /\ object = [type |-> t, instance |-> n]
  <2>1. t \in 0..1023 /\ n \in Instances /\ object = [type |-> t, instance |-> n]
    BY ZenonT(60) DEF ObjectIds
  <2>. QED BY <2>1, SMT DEF Below, Instances
<1>2. /\ t \div 4 \in 0..255 /\ t % 4 \in 0..3 /\ t = (t \div 4) * 4 + (t % 4) /\ a = t \div 4
  BY <1>1, SMT
<1>3. n \div 65536 \in 0..63 /\ (n \div 65536) % 64 = n \div 65536
  BY <1>1, SMT
<1>4. n \in Int /\ n \div 256 \in Int /\ n \div 65536 \in Int
  BY <1>1, SMT
<1>5. /\ n = (n \div 256) * 256 + e /\ e \in Byte
      /\ n \div 256 = (n \div 65536) * 256 + c /\ c \in Byte
  BY <1>4, Divided, DividedAgain, SMT
<1>6. a \in Byte /\ b \in Byte
  BY <1>2, <1>3, SMT DEF Byte
<1>7. ObjectOctets(object) = <<a, b, c, e>>
  <2>1. Octets(n, 2) = <<c, e>>
    BY <1>4, TwoOctets
  <2>2. ObjectOctets(object) = <<a, b>> \o Octets(n, 2)
    BY SMT DEF ObjectOctets
  <2> HIDE DEF a, b, c, e
  <2>3. <<a, b>> \o <<c, e>> = <<a, b, c, e>>
    BY PairsJoin
  <2>. QED BY <2>1, <2>2, <2>3, Zenon
<1>8. Number(ObjectOctets(object)) = Sum(a, b, c, e)
  <2> HIDE DEF a, b, c, e
  <2>. QED BY <1>5, <1>6, <1>7, NumberOfFour, SMT
<1> DEFINE m == IF t >= 512 THEN t - 1024 ELSE t
<1>9. Sum(a, b, c, e) = m * 4194304 + n
  <2> DEFINE u == t \div 4
             v == t % 4
             w == n \div 65536
             x == n \div 256
  <2>1. /\ u \in 0..255 /\ v \in 0..3 /\ w \in 0..63 /\ x \in Int /\ c \in Int /\ e \in Int /\ n \in Int
        /\ t = u * 4 + v /\ x = w * 256 + c /\ n = x * 256 + e
        /\ a = u /\ b = v * 64 + w
    <3>1. u \in 0..255 /\ v \in 0..3 /\ t = u * 4 + v /\ a = u
      BY <1>2, Zenon
    <3>2. w \in 0..63 /\ b = v * 64 + w
      BY <1>3
    <3>3. x \in Int /\ n \in Int /\ x = w * 256 + c /\ n = x * 256 + e
      BY <1>4, <1>5
    <3>4. c \in Int /\ e \in Int
      BY <1>5, SMT DEF Byte
    <3> HIDE DEF a, b, c, e, u, v, w, x
    <3>. QED BY <3>1, <3>2, <3>3, <3>4
  <2> HIDE DEF a, b, c, e, u, v, w, x
  <2>2. m = (IF u >= 128 THEN u - 256 ELSE u) * 4 + v
    BY <2>1, SMT
  <2> HIDE DEF t, n, m
  <2>. QED BY <2>1, <2>2, SMT DEF Sum
<1>10. (m * 4194304 + n) \div 4194304 = m /\ (m * 4194304 + n) % 4194304 = n
  <2>1. m \in Int
    BY <1>1, SMT
  <2> HIDE DEF m, n, t
  <2>. QED BY <1>1, <2>1, SMT
<1>11. m % 1024 = t
  BY <1>1, SMT
<1>12. ObjectFrom(Number(ObjectOctets(object))) = object
  <2>1. ObjectFrom(m * 4194304 + n) = [type |-> m % 1024, instance |-> n]
    BY <1>10, SMT DEF ObjectFrom
  <2>. QED BY <2>1, <1>8, <1>9, <1>11, <1>1, SMT
<1>13. Sum(a, b, c, e) \in Int32
  <2> HIDE DEF a, b, c, e
  <2>. QED BY <1>5, <1>6, SumIsWord
<1>14. <<a, b, c, e>> \in Seq(Byte) /\ Len(<<a, b, c, e>>) = 4
  <2> HIDE DEF a, b, c, e
  <2>. QED BY <1>5, <1>6
<1>. QED BY <1>7, <1>8, <1>12, <1>13, <1>14, SMT

-----------------------------------------------------------------------------
\* What the server's properties say.

\* The contents of properties stay what the server holds at first, each of
\* its kind.
HeldInv ==
    /\ DOMAIN held = DOMAIN Contents
    /\ \A point \in DOMAIN held : IsContentOf(point[2], held[point])
\* What a priority slot of an Analog Output holds.
Slot == {Null} \union ({"Real"} \X Int32)
\* There are sixteen slots, each empty or a Real.
SlotsInv == slots \in [1..16 -> Slot]

\* A single value is no list and can be sent.
LEMMA ValueIsNoList ==
    ASSUME NEW v \in Values
    PROVE  ~IsList(v) /\ IsSendable(v)
<1>1. v[1] # "List"
  BY SMT DEF Values, Null
<1>2. CASE v[1] = "CharacterString"
  <2>1. v \in {"CharacterString"} \X Seq(0..255)
    BY <1>2, SMT DEF Values, Null
  <2>2. v[2] \in Seq(0..255)
    BY <2>1
  <2>. QED BY <1>1, <2>2, Zenon DEF IsList, IsSendable, IsSequence
<1>3. CASE v[1] # "CharacterString"
  BY <1>1, <1>3, Zenon DEF IsList, IsSendable
<1>. QED BY <1>2, <1>3

\* The entries of a list property, by the property it is.
IsListOf(point, entries) ==
    \/ point[2] = ObjectListId /\ entries \in Seq({"ObjectIdentifier"} \X ObjectIds)
    \/ point[2] = PropertyListId /\ entries \in Seq({"Enumerated"} \X Int32)
    \/ point[2] = DeviceAddressBindingId /\ entries = <<>>
    \/ point[2] = PriorityArrayId /\ entries = slots

\* A content is a value, or the entries of a list.
LEMMA ContentIsOf ==
    ASSUME NEW property, NEW content, IsContentOf(property, content)
    PROVE  \/ content \in Values /\ property \notin {ObjectListId, PropertyListId, DeviceAddressBindingId}
           \/ /\ content[1] = "List" 
              /\ property # PriorityArrayId /\ IsListOf(<<0, property>>, content[2])
<1>1. ObjectListId # PropertyListId /\ ObjectListId # DeviceAddressBindingId
      /\ PropertyListId # DeviceAddressBindingId /\ PriorityArrayId # ObjectListId
      /\ PriorityArrayId # PropertyListId /\ PriorityArrayId # DeviceAddressBindingId
  BY DEF ObjectListId, PropertyListId, DeviceAddressBindingId, PriorityArrayId
<1>2. CASE property = ObjectListId
  <2>1. content \in {"List"} \X Seq({"ObjectIdentifier"} \X ObjectIds)
    BY <1>1, <1>2, Zenon DEF IsContentOf
  <2>2. content[1] = "List" /\ content[2] \in Seq({"ObjectIdentifier"} \X ObjectIds)
    BY <2>1, Zenon
  <2>3. <<0, property>>[2] = ObjectListId
    BY <1>2
  <2>. QED BY <1>1, <1>2, <2>2, <2>3, Zenon DEF IsListOf
<1>3. CASE property = PropertyListId
  <2>1. content \in {"List"} \X Seq({"Enumerated"} \X Int32)
    BY <1>1, <1>3, Zenon DEF IsContentOf
  <2>2. content[1] = "List" /\ content[2] \in Seq({"Enumerated"} \X Int32)
    BY <2>1, Zenon
  <2>3. <<0, property>>[2] = PropertyListId
    BY <1>3
  <2>. QED BY <1>1, <1>3, <2>2, <2>3, Zenon DEF IsListOf
<1>4. CASE property = DeviceAddressBindingId
  <2>1. content = <<"List", <<>>>>
    BY <1>1, <1>4, Zenon DEF IsContentOf
  <2>2. content[1] = "List" /\ content[2] = <<>>
    BY <2>1
  <2>3. <<0, property>>[2] = DeviceAddressBindingId
    BY <1>4
  <2>. QED BY <1>1, <1>4, <2>2, <2>3, Zenon DEF IsListOf
<1>5. CASE property \notin {ObjectListId, PropertyListId, DeviceAddressBindingId}
  <2>1. content \in Values
    BY <1>5, Zenon DEF IsContentOf
  <2>. QED BY <1>5, <2>1
<1>. QED BY <1>2, <1>3, <1>4, <1>5

\* The priority array is a list of sixteen values.
LEMMA SlotsAreValues ==
    ASSUME SlotsInv
    PROVE  /\ slots \in Seq(Slot) /\ Len(slots) = 16
           /\ \A p \in 1..16 : slots[p] \in Slot
           /\ \A v \in Slot : v \in Values
<1> HIDE DEF Slot
<1>0. slots = [p \in 1..16 |-> slots[p]] /\ \A p \in 1..16 : slots[p] \in Slot
  BY DEF SlotsInv
<1>1. slots \in Seq(Slot) /\ Len(slots) = 16 /\ \A p \in 1..16 : slots[p] \in Slot
  BY <1>0
<1>2. \A v \in Slot : v \in Values
  BY Zenon DEF Slot, Values
<1>. QED BY <1>1, <1>2

\* The present value is one: the slot of the highest priority, or the
\* relinquish default.
LEMMA EffectiveIsValue ==
    ASSUME HeldInv, SlotsInv
    PROVE  Effective \in Values
<1> DEFINE occupied == {p \in 1..16 : slots[p] # Null}
<1>1. CASE occupied = {}
  <2> DEFINE point == <<Output, RelinquishDefaultId>>
  <2>0. point \in DOMAIN Contents
    BY ExchangeAssumption DEF ExchangeAssumption
  <2>1. point \in DOMAIN held
    BY <2>0, Zenon DEF HeldInv
  <2>2. point[2] = RelinquishDefaultId
    OBVIOUS
  <2>3. IsContentOf(RelinquishDefaultId, held[point])
    <3> HIDE DEF point
    <3>. QED BY <2>1, <2>2, Zenon DEF HeldInv
  <2>4. RelinquishDefaultId \notin {ObjectListId, PropertyListId, DeviceAddressBindingId}
    BY DEF RelinquishDefaultId, ObjectListId, PropertyListId, DeviceAddressBindingId
  <2>5. held[point] \in Values
    <3> HIDE DEF point
    <3>. QED BY <2>3, <2>4, Zenon DEF IsContentOf
  <2>. QED BY <1>1, <2>5, Zenon DEF Effective
<1>2. CASE occupied # {}
  <2>1. occupied \in SUBSET Nat
    OBVIOUS
  <2>2. PICK p \in occupied : \A q \in occupied : p <= q
    <3> HIDE DEF occupied
    <3>. QED BY <1>2, <2>1, LeastFound
  <2> DEFINE first == CHOOSE x \in occupied : \A q \in occupied : x <= q
  <2>3. first \in occupied
    <3> HIDE DEF occupied
    <3>. QED BY <2>2, Zenon
  <2>4. slots[first] \in Values
    <3>1. first \in 1..16
      BY <2>3, Zenon
    <3> HIDE DEF first
    <3>. QED BY <3>1, SlotsAreValues, Zenon
  <2>5. Effective = slots[first]
    BY <1>2, Zenon DEF Effective
  <2>. QED BY <2>4, <2>5
<1>. QED BY <1>1, <1>2

\* What a read finds is a list for a list property, a value for another.
LEMMA ContentTyped ==
    ASSUME HeldInv, SlotsInv, NEW point \in Points
    PROVE  IF IsList(Content(point)) THEN IsListOf(point, Content(point)[2])
           ELSE /\ Content(point) \in Values
                /\ point[2] \notin {ObjectListId, PropertyListId, DeviceAddressBindingId, PriorityArrayId}
<1>1. CASE point = <<Output, PresentValueId>>
  <2>1. point[2] = PresentValueId
    BY <1>1
  <2>2. PresentValueId \notin {ObjectListId, PropertyListId, DeviceAddressBindingId, PriorityArrayId}
    BY DEF PresentValueId, ObjectListId, PropertyListId, DeviceAddressBindingId, PriorityArrayId
  <2>4. point # <<Output, PriorityArrayId>>
    <3>1. <<Output, PriorityArrayId>>[2] = PriorityArrayId
      OBVIOUS
    <3>. QED BY <2>1, <2>2, <3>1
  <2>3. Content(point) = Effective
    BY <1>1, <2>4, Zenon DEF Content
  <2>. QED BY <2>1, <2>2, <2>3, EffectiveIsValue, ValueIsNoList
<1>2. CASE point = <<Output, PriorityArrayId>>
  <2>1. point[2] = PriorityArrayId
    BY <1>2
  <2>2. point # <<Output, PresentValueId>>
    <3>1. <<Output, PresentValueId>>[2] = PresentValueId
      OBVIOUS
    <3>. QED BY <2>1, <3>1 DEF PresentValueId, PriorityArrayId
  <2>3. Content(point) = <<"List", slots>>
    BY <1>2, <2>2, Zenon DEF Content
  <2>4. Content(point)[1] = "List" /\ Content(point)[2] = slots
    BY <2>3
  <2>. QED BY <2>1, <2>4, Zenon DEF IsList, IsListOf
<1>3. CASE point \notin {<<Output, PresentValueId>>, <<Output, PriorityArrayId>>}
  <2>1. Content(point) = held[point]
    BY <1>3, Zenon DEF Content
  <2>2. point \in DOMAIN held
    BY <1>3, Zenon DEF Points
  <2>3. IsContentOf(point[2], Content(point))
    BY <2>1, <2>2, Zenon DEF HeldInv
  <2>4. PriorityArrayId # ObjectListId /\ PriorityArrayId # PropertyListId
        /\ PriorityArrayId # DeviceAddressBindingId
    BY DEF ObjectListId, PropertyListId, DeviceAddressBindingId, PriorityArrayId
  <2>6. point[2] # PriorityArrayId
    BY <2>3, <2>4, Zenon DEF IsContentOf
  <2>7. CASE Content(point) \in Values /\ point[2] \notin {ObjectListId, PropertyListId, DeviceAddressBindingId}
    BY <2>6, <2>7, ValueIsNoList
  <2>8. CASE Content(point)[1] = "List" /\ IsListOf(<<0, point[2]>>, Content(point)[2])
    <3>1. <<0, point[2]>>[2] = point[2]
      OBVIOUS
    <3>2. IsListOf(point, Content(point)[2])
      BY <2>8, <3>1, Zenon DEF IsListOf
    <3>. QED BY <2>8, <3>2, Zenon DEF IsList
  <2>. QED BY <2>3, <2>7, <2>8, ContentIsOf
<1>. QED BY <1>1, <1>2, <1>3

\* The entries of a list are values that can be sent.
LEMMA EntriesTyped ==
    ASSUME SlotsInv, NEW point, NEW entries, IsListOf(point, entries)
    PROVE  entries \in Seq(Values)
<1>1. {"ObjectIdentifier"} \X ObjectIds \subseteq Values /\ {"Enumerated"} \X Int32 \subseteq Values
  BY Zenon DEF Values
<1>2. Slot \subseteq Values
  BY SlotsAreValues
<1> HIDE DEF Slot
<1>3. slots \in Seq(Values)
  BY <1>2, SlotsAreValues
<1>4. ASSUME NEW S \in SUBSET Values, NEW s \in Seq(S) PROVE s \in Seq(Values)
  OBVIOUS
<1>5. CASE entries \in Seq({"ObjectIdentifier"} \X ObjectIds)
  BY <1>1, <1>4, <1>5, Zenon
<1>6. CASE entries \in Seq({"Enumerated"} \X Int32)
  BY <1>1, <1>4, <1>6, Zenon
<1>7. CASE entries = <<>>
  BY <1>7
<1>. QED BY <1>3, <1>5, <1>6, <1>7, Zenon DEF IsListOf

\* A list that is encoded is a sequence of octets, or the empty one when an
\* entry does not fit.
LEMMA EncodeAllIsSequence ==
    ASSUME NEW entries \in Seq(Values)
    PROVE  IsSequence(EncodeAll(entries))
<1> DEFINE parts == [i \in DOMAIN entries |-> Encode(entries[i])]
<1>1. Len(entries) \in Nat /\ DOMAIN entries = 1..Len(entries)
  OBVIOUS
<1>2. Len(parts) = Len(entries)
  BY <1>1
<1>3. ASSUME NEW i \in 1..Len(entries) PROVE IsSequence(parts[i])
  <2>1. entries[i] \in Values
    OBVIOUS
  <2>. QED BY <1>1, <2>1, ValueIsNoList, EncodedIsSequence
<1> HIDE DEF parts
<1>4. IsSequence(Joined(parts))
  BY <1>1, <1>2, <1>3, JoinedIsSequence
<1>. QED BY <1>4, TupleIsSequence, Zenon DEF EncodeAll, parts

\* The acknowledgement of a read is a datagram, or nothing.
LEMMA ReadAckIsSound ==
    ASSUME NEW octets, IsSequence(octets), NEW size, NEW least, NEW invoke, NEW request
    PROVE  IsSound(Limited(size, least, ReadAck(invoke, request, octets)))
<1>1. IsSequence(<<ReadProperty>> \o ContextObject(0, request.object) \o ContextUnsigned(1, request.property)
        \o OptionalIndex(2, request.index) \o Opening(3) \o octets \o Closing(3))
  BY TupleIsSequence, ParametersAreSequences, SequencesJoin
<1>. QED BY <1>1, AnswerIsSound DEF ReadAck

\* So it is for a list, as a whole, its length or an entry.
LEMMA ListAckIsSound ==
    ASSUME NEW entries \in Seq(Values), NEW invoke, NEW request,
           request.index \in {NoIndex} \union 0..Len(entries)
    PROVE  /\ IsSound(BuildListAck(ServerBuffer, invoke, request, entries))
           /\ IsSound(BuildEmptyListAck(ServerBuffer, invoke, request))
<1> DEFINE some == CASE request.index = NoIndex -> entries
                      [] request.index = 0 -> <<<<"Unsigned", Len(entries)>>>>
                      [] OTHER -> SubSeq(entries, request.index, request.index)
<1>1. IsSequence(EncodeAll(some))
  <2>1. CASE request.index = NoIndex
    <3>1. some = entries
      BY <2>1 DEF NoIndex
    <3> HIDE DEF some
    <3>. QED BY <3>1, EncodeAllIsSequence
  <2>2. CASE request.index = 0
    <3>1. some = <<<<"Unsigned", Len(entries)>>>>
      BY <2>2 DEF NoIndex
    <3>2. IsSequence(EncodeAll(<<<<"Unsigned", Len(entries)>>>>))
      <4> DEFINE s == <<<<"Unsigned", Len(entries)>>>>
                 parts == [i \in DOMAIN s |-> Encode(s[i])]
      <4>1. Len(s) = 1 /\ DOMAIN s = 1..1 /\ s[1] = <<"Unsigned", Len(entries)>>
        OBVIOUS
      <4>2. IsSendable(<<"Unsigned", Len(entries)>>)
        BY DEF IsSendable
      <4> HIDE DEF s
      <4>3. IsSequence(Encode(s[1]))
        BY <4>1, <4>2, EncodedIsSequence
      <4>4. Len(parts) = 1 /\ \A i \in 1..1 : IsSequence(parts[i])
        BY <4>1, <4>3
      <4> HIDE DEF parts
      <4>5. IsSequence(Joined(parts))
        <5>1. Len(parts) \in Nat
          BY <4>4
        <5>. QED BY <5>1, <4>4, JoinedIsSequence
      <4>6. IsSequence(EncodeAll(s))
        BY <4>5, TupleIsSequence, Zenon DEF EncodeAll, parts
      <4>. QED BY <4>6 DEF s
    <3> HIDE DEF some
    <3>. QED BY <3>1, <3>2
  <2>3. CASE request.index \in 1..Len(entries)
    <3>1. some = SubSeq(entries, request.index, request.index)
      BY <2>3, SMTT(30) DEF NoIndex
    <3>2. SubSeq(entries, request.index, request.index) \in Seq(Values)
      BY <2>3
    <3> HIDE DEF some
    <3>. QED BY <3>1, <3>2, EncodeAllIsSequence
  <2>4. request.index = NoIndex \/ request.index = 0 \/ request.index \in 1..Len(entries)
    OBVIOUS
  <2> HIDE DEF some
  <2>. QED BY <2>1, <2>2, <2>3, <2>4
<1>2. IsSound(Limited(ServerBuffer, 16, ReadAck(invoke, request, EncodeAll(some))))
  <2> HIDE DEF some
  <2>. QED BY <1>1, ReadAckIsSound
<1>3. IsSound(BuildListAck(ServerBuffer, invoke, request, entries))
  <2>1. BuildListAck(ServerBuffer, invoke, request, entries) =
            IF EncodeAll(some) = <<>> THEN <<>>
            ELSE Limited(ServerBuffer, 16, ReadAck(invoke, request, EncodeAll(some)))
    BY Zenon DEF BuildListAck
  <2> HIDE DEF some
  <2>. QED BY <1>2, <2>1, Zenon DEF IsSound
<1>4. IsSound(BuildEmptyListAck(ServerBuffer, invoke, request))
  BY TupleIsSequence, ReadAckIsSound, Zenon DEF BuildEmptyListAck, IsSound
<1>. QED BY <1>3, <1>4

\* Whatever a read asks, the server answers with a datagram, or with nothing.
LEMMA ReadReplyIsSound ==
    ASSUME HeldInv, SlotsInv, NEW invoke, NEW request
    PROVE  IsSound(ReadReply(invoke, request).octets)
<1> DEFINE point == <<request.object, request.property>>
           content == Content(point)
<1>1. \A service, class, code : IsSound(ReplyError(invoke, service, class, code).octets)
  BY ShortAnswersAreSound DEF ReplyError, Reply
<1>2. CASE point \in Points /\ IsList(content)
  <2> DEFINE entries == content[2]
  <2>1. entries \in Seq(Values)
    <3>1. IsListOf(point, entries)
      <4> HIDE DEF point
      <4>. QED BY <1>2, ContentTyped
    <3> HIDE DEF point, content
    <3>. QED BY <3>1, EntriesTyped
  <2>2. request.index \in {NoIndex} \union 0..Len(entries) =>
           /\ IsSound(BuildListAck(ServerBuffer, invoke, request, entries))
           /\ IsSound(BuildEmptyListAck(ServerBuffer, invoke, request))
    <3> HIDE DEF content
    <3>. QED BY <2>1, ListAckIsSound
  <2>3. \A outcome, octets : Reply(outcome, octets).octets = octets
    BY DEF Reply
  <2>4. ReadReply(invoke, request) =
            IF request.object \notin Objects THEN ReplyError(invoke, ReadProperty, 1, 31)
            ELSE IF request.index \notin {NoIndex} \union 0..Len(entries)
                    \/ (entries = <<>> /\ request.index # NoIndex)
            THEN ReplyError(invoke, ReadProperty, 2, 42)
            ELSE Reply(ListMeant(request, entries),
                       IF entries = <<>> THEN BuildEmptyListAck(ServerBuffer, invoke, request)
                       ELSE BuildListAck(ServerBuffer, invoke, request, entries))
    BY <1>2, Zenon DEF ReadReply
  <2> HIDE DEF point, content, entries
  <2>. QED BY <1>1, <2>2, <2>3, <2>4
<1>3. CASE ~(point \in Points /\ IsList(content))
  <2>1. ReadReply(invoke, request) =
            IF request.object \notin Objects THEN ReplyError(invoke, ReadProperty, 1, 31)
            ELSE IF request.index # NoIndex THEN ReplyError(invoke, ReadProperty, 2, 42)
            ELSE IF point \notin Points THEN ReplyError(invoke, ReadProperty, 2, 32)
            ELSE Reply([heard |-> "Value", value |-> content],
                       BuildReadAck(ServerBuffer, invoke, request, content))
    BY <1>3, Zenon DEF ReadReply
  <2>2. point \in Points => IsSound(BuildReadAck(ServerBuffer, invoke, request, content))
    <3>. SUFFICES ASSUME point \in Points PROVE IsSound(BuildReadAck(ServerBuffer, invoke, request, content))
      OBVIOUS
    <3>1. content \in Values
      <4> HIDE DEF point
      <4>. QED BY <1>3, ContentTyped
    <3> HIDE DEF content
    <3>2. IsSequence(Encode(content))
      BY <3>1, ValueIsNoList, EncodedIsSequence
    <3>3. IsSound(Limited(ServerBuffer, 20, ReadAck(invoke, request, Encode(content))))
      BY <3>2, ReadAckIsSound
    <3>. QED BY <3>3, Zenon DEF BuildReadAck, IsSound
  <2>3. \A outcome, octets : Reply(outcome, octets).octets = octets
    BY DEF Reply
  <2> HIDE DEF point, content
  <2>. QED BY <1>1, <2>1, <2>2, <2>3
<1>. QED BY <1>2, <1>3

\* A notification, confirmed or not.
IsNotificationOf(octets, invoke) ==
    \E parameters : /\ IsSequence(parameters)
                    /\ octets \in {<<>>, ConfirmedRequest(invoke, ConfirmedCovNotification, parameters),
                                    Datagram(Unicast, 0, <<16 * Unconfirmed, UnconfirmedCovNotification>> \o parameters)}

\* What is built of values that can be sent is one.
LEMMA NotificationBuilt ==
    ASSUME NEW values, Len(values) \in Nat, DOMAIN values = 1..Len(values),
           \A i \in 1..Len(values) : IsSendable(values[i].value), NEW invoke, NEW notification,
           notification.values = values
    PROVE  IsNotificationOf(BuildCovNotification(ServerBuffer, invoke, notification), invoke)
<1> DEFINE part(v) == ContextUnsigned(0, v.property) \o OptionalIndex(1, v.index)
                      \o Opening(2) \o Encode(v.value) \o Closing(2)
           parts == [i \in DOMAIN values |-> part(values[i])]
<1>1. ASSUME NEW i \in 1..Len(values) PROVE IsSequence(part(values[i]))
  <2>1. IsSequence(Encode(values[i].value))
    BY EncodedIsSequence
  <2>. QED BY <2>1, ParametersAreSequences, SequencesJoin
<1>2. Len(parts) = Len(values) /\ \A i \in 1..Len(values) : parts[i] = part(values[i])
  <2> HIDE DEF part
  <2>. QED OBVIOUS
<1>3. IsSequence(Joined(parts))
  <2> HIDE DEF parts, part
  <2>. QED BY <1>1, <1>2, JoinedIsSequence
<1>4. PropertyValues(values) = Joined(parts)
  BY Zenon DEF PropertyValues
<1> HIDE DEF parts, part
<1> DEFINE parameters ==
            ContextUnsigned(0, notification.processId)
            \o ContextObject(1, [type |-> DeviceType, instance |-> notification.device])
            \o ContextObject(2, notification.object) \o ContextUnsigned(3, notification.remaining)
            \o Opening(4) \o PropertyValues(notification.values) \o Closing(4)
<1>5. IsSequence(parameters)
  BY <1>3, <1>4, ParametersAreSequences, SequencesJoin
<1> HIDE DEF parameters
<1>6. BuildCovNotification(ServerBuffer, invoke, notification) \in
          {<<>>, ConfirmedRequest(invoke, ConfirmedCovNotification, parameters),
           Datagram(Unicast, 0, <<16 * Unconfirmed, UnconfirmedCovNotification>> \o parameters)}
  BY Zenon DEF BuildCovNotification, Limited, parameters
<1>. QED BY <1>5, <1>6, Zenon DEF IsNotificationOf

\* So it is a datagram, or nothing.
LEMMA NotificationIsSound ==
    ASSUME NEW octets, NEW invoke, IsNotificationOf(octets, invoke)
    PROVE  IsSound(octets)
<1> PICK parameters : /\ IsSequence(parameters)
                      /\ octets \in {<<>>, ConfirmedRequest(invoke, ConfirmedCovNotification, parameters),
                                    Datagram(Unicast, 0, <<16 * Unconfirmed, UnconfirmedCovNotification>> \o parameters)}
  BY Zenon DEF IsNotificationOf
<1>1. IsSequence(<<16 * Unconfirmed, UnconfirmedCovNotification>> \o parameters)
  BY TupleIsSequence, SequencesJoin
<1>2. IsSound(Datagram(Unicast, 0, <<16 * Unconfirmed, UnconfirmedCovNotification>> \o parameters))
  BY <1>1, Zenon DEF IsSound, IsPlain
<1>3. IsSound(ConfirmedRequest(invoke, ConfirmedCovNotification, parameters))
  BY RequestIsSound
<1>4. IsSound(<<>>)
  BY Zenon DEF IsSound
<1>. QED BY <1>2, <1>3, <1>4

-----------------------------------------------------------------------------
\* Values and what is read of them.

\* Octets in three parts.
AreParts(os, s, t, u) == IsSequence(s) /\ IsSequence(t) /\ IsSequence(u) /\ os = (s \o t) \o u
\* Where the parts stand.
HasParts(os, s, t, u) ==
    /\ IsSequence(os) /\ Len(os) = Len(s) + Len(t) + Len(u)
    /\ \A i \in 1..Len(s) : os[i] = s[i]
    /\ SubSeq(os, Len(s) + 1, Len(s) + Len(t)) = t
    /\ From(os, Len(s) + Len(t) + 1) = u

\* Octets joined of three parts have them one after the other.
LEMMA PartsOf ==
    ASSUME NEW s, NEW t, NEW u, NEW os, AreParts(os, s, t, u)
    PROVE  HasParts(os, s, t, u)
<1>0. IsSequence(s) /\ IsSequence(t) /\ IsSequence(u) /\ os = (s \o t) \o u
  BY DEF AreParts
<1>1. /\ IsSequence(s \o t) /\ Len(s \o t) = Len(s) + Len(t)
      /\ \A i \in 1..Len(s) : (s \o t)[i] = s[i]
      /\ \A i \in 1..Len(t) : (s \o t)[Len(s) + i] = t[i]
  BY <1>0, SequencesJoin
<1>2. Len(s) \in Nat /\ Len(t) \in Nat /\ Len(u) \in Nat
  BY <1>0, SequenceLength
<1> DEFINE st == s \o t
<1>3. /\ IsSequence(os) /\ Len(os) = Len(st) + Len(u)
      /\ \A i \in 1..Len(st) : os[i] = st[i]
      /\ From(os, Len(st) + 1) = u
  <2>1. IsSequence(st) /\ os = st \o u
    BY <1>0, <1>1
  <2> HIDE DEF st
  <2>. QED BY <1>0, <2>1, SequencesJoin, SequencesPart
<1>4. \A i \in 1..Len(s) : os[i] = s[i]
  BY <1>1, <1>2, <1>3
<1> DEFINE m == SubSeq(os, Len(s) + 1, Len(s) + Len(t))
<1>5. m = t
  <2>1. PICK S : os \in Seq(S)
    BY <1>3 DEF IsSequence
  <2>2. m \in Seq(S) /\ Len(m) = Len(t) /\ \A i \in 1..Len(t) : m[i] = os[Len(s) + i]
    BY <2>1, <1>1, <1>2, <1>3
  <2>3. \A i \in 1..Len(t) : os[Len(s) + i] = st[Len(s) + i]
    BY <1>1, <1>2, <1>3
  <2>4. \A i \in 1..Len(t) : m[i] = t[i]
    BY <2>2, <2>3, <1>1
  <2>5. IsSequence(m)
    BY <2>2 DEF IsSequence
  <2> HIDE DEF m, st
  <2>. QED BY <1>0, <2>2, <2>4, <2>5, <1>2, SameSequence
<1>6. Len(st) = Len(s) + Len(t)
  BY <1>1
<1> HIDE DEF st
<1>. QED BY <1>3, <1>4, <1>5, <1>6 DEF HasParts

\* Contents under an application tag, and the rest.
IsTagged(os, tag, octets, rest) ==
    tag \in 0..15 /\ IsSequence(octets) /\ IsSequence(rest) /\ os = Application(tag, octets) \o rest

\* What the first octet of tagged contents says: its tag, that it is no
\* context tag, and the length.
LEMMA FirstOctet ==
    ASSUME NEW tag, NEW octets, NEW rest, NEW os, IsTagged(os, tag, octets, rest), Len(octets) \in 0..7
    PROVE  /\ IsSequence(os) /\ os # <<>> /\ TagOf(os[1]) = tag /\ ~IsContext(os[1]) /\ LengthOf(os[1]) = Len(octets)
           /\ os[1] = 16 * tag + Len(octets) /\ Len(os) = 1 + Len(octets) + Len(rest)
<1> DEFINE first == 16 * tag + 0 + Len(octets)
<1>0. tag \in 0..15 /\ IsSequence(octets) /\ IsSequence(rest)
  BY DEF IsTagged
<1>1. os = (<<first>> \o octets) \o rest
  BY DEF Application, Tagged, IsTagged
<1>2. TagOf(first) = tag /\ ~IsContext(first) /\ LengthOf(first) = Len(octets) /\ first = 16 * tag + Len(octets)
  <2>1. Len(octets) \in 0..7 /\ 0 \in {0, 8}
    BY <1>0
  <2>2. first = 16 * tag + Len(octets)
    BY <1>0
  <2>3. TagOf(first) = tag /\ (IsContext(first) <=> 0 = 8) /\ LengthOf(first) = Len(octets)
    BY <1>0, <2>1, TagOctet
  <2> HIDE DEF first
  <2>. QED BY <2>2, <2>3
<1> HIDE DEF first
<1>3. /\ IsSequence(os) /\ Len(os) = 1 + Len(octets) + Len(rest) /\ os # <<>>
      /\ os[1] = first
  <2> DEFINE s == <<first>>
  <2>1. IsSequence(s) /\ Len(s) = 1 /\ s[1] = first
    BY TupleIsSequence
  <2>2. os = (s \o octets) \o rest
    BY <1>1
  <2> HIDE DEF s
  <2>3. AreParts(os, s, octets, rest)
    BY <1>0, <2>1, <2>2, Zenon DEF AreParts
  <2>4. IsSequence(os) /\ Len(os) = Len(s) + Len(octets) + Len(rest) /\ \A i \in 1..Len(s) : os[i] = s[i]
    BY <2>3, PartsOf DEF HasParts
  <2>5. Len(os) >= 1
    BY <1>0, <2>1, <2>4, SequenceLength
  <2>. QED BY <2>1, <2>4, <2>5
<1>. QED BY <1>2, <1>3

\* Contents of up to four octets are read by the length in their tag.
LEMMA SizedRead ==
    ASSUME NEW tag, NEW octets, NEW rest, NEW os, IsTagged(os, tag, octets, rest), Len(octets) \in 0..4
    PROVE  ReadSized(os, tag) = Read(octets, rest)
<1>0. tag \in 0..15 /\ IsSequence(octets) /\ IsSequence(rest)
  BY DEF IsTagged
<1>1. /\ TagOf(os[1]) = tag /\ ~IsContext(os[1]) /\ LengthOf(os[1]) = Len(octets)
      /\ Len(os) = 1 + Len(octets) + Len(rest)
  <2>1. Len(octets) \in 0..7
    OBVIOUS
  <2>2. /\ IsSequence(os) /\ os # <<>> /\ TagOf(os[1]) = tag /\ ~IsContext(os[1]) /\ LengthOf(os[1]) = Len(octets)
        /\ os[1] = 16 * tag + Len(octets) /\ Len(os) = 1 + Len(octets) + Len(rest)
    BY <2>1, FirstOctet
  <2>. QED BY <2>2
<1> DEFINE first == <<16 * tag + 0 + Len(octets)>>
<1>2. IsSequence(first) /\ Len(first) = 1
  BY TupleIsSequence
<1>3. AreParts(os, first, octets, rest)
  BY <1>0, <1>2 DEF Application, Tagged, IsTagged, AreParts
<1> HIDE DEF first
<1>4. SubSeq(os, 1 + 1, 1 + Len(octets)) = octets /\ From(os, 1 + Len(octets) + 1) = rest
  <2>1. /\ SubSeq(os, Len(first) + 1, Len(first) + Len(octets)) = octets
        /\ From(os, Len(first) + Len(octets) + 1) = rest
    <3>1. HasParts(os, first, octets, rest)
      BY <1>3, PartsOf
    <3>. QED BY <3>1 DEF HasParts
  <2>. QED BY <2>1, <1>2
<1>5. ~(1 + Len(octets) > Len(os))
  <2>1. Len(rest) \in Nat
    BY <1>0, SequenceLength
  <2>. QED BY <1>1, <2>1
<1>6. LengthOf(os[1]) # 5 /\ ~(LengthOf(os[1]) > 5)
  <2>1. Len(octets) # 5 /\ ~(Len(octets) > 5)
    OBVIOUS
  <2>. QED BY <1>1, <2>1
<1>7. ~(TagOf(os[1]) # tag \/ IsContext(os[1]) \/ LengthOf(os[1]) > 5)
  BY <1>1, <1>6
<1> DEFINE header == IF LengthOf(os[1]) = 5 THEN 2 ELSE 1
           length == IF header = 2 THEN os[2] ELSE LengthOf(os[1])
<1>8. header = 1 /\ length = Len(octets)
  BY <1>1, <1>6
<1>9. ReadSized(os, tag) = IF header + length > Len(os) THEN Unread
         ELSE Read(SubSeq(os, header + 1, header + length), From(os, header + length + 1))
  BY <1>6, <1>7, Zenon DEF ReadSized
<1> HIDE DEF header, length
<1>. QED BY <1>4, <1>5, <1>8, <1>9, Zenon

\* Contents whose length has an octet of its own.
IsLong(os, tag, octets, rest) ==
    /\ tag \in 0..15 /\ IsSequence(octets) /\ IsSequence(rest)
    /\ os = (<<16 * tag + 5, Len(octets)>> \o octets) \o rest

\* Longer contents are read by the length in the octet after their tag.
LEMMA LongRead ==
    ASSUME NEW tag, NEW octets, NEW rest, NEW os, IsLong(os, tag, octets, rest)
    PROVE  ReadSized(os, tag) = Read(octets, rest) /\ TagOf(os[1]) = tag /\ os # <<>>
<1>0. /\ tag \in 0..15 /\ IsSequence(octets) /\ IsSequence(rest)
      /\ os = (<<16 * tag + 5, Len(octets)>> \o octets) \o rest
  BY DEF IsLong
<1> DEFINE first == <<16 * tag + 5, Len(octets)>>
<1>2. IsSequence(first) /\ Len(first) = 2 /\ first[1] = 16 * tag + 0 + 5 /\ first[2] = Len(octets)
  BY <1>0, TupleIsSequence
<1>3. AreParts(os, first, octets, rest)
  BY <1>0, <1>2 DEF AreParts
<1> HIDE DEF first
<1>4. /\ SubSeq(os, 2 + 1, 2 + Len(octets)) = octets /\ From(os, 2 + Len(octets) + 1) = rest
      /\ Len(os) = 2 + Len(octets) + Len(rest)
      /\ \A i \in 1..2 : os[i] = first[i]
  <2>1. /\ SubSeq(os, Len(first) + 1, Len(first) + Len(octets)) = octets
        /\ From(os, Len(first) + Len(octets) + 1) = rest
        /\ Len(os) = Len(first) + Len(octets) + Len(rest)
        /\ \A i \in 1..Len(first) : os[i] = first[i]
    <3>1. HasParts(os, first, octets, rest)
      BY <1>3, PartsOf
    <3>. QED BY <3>1 DEF HasParts
  <2>. QED BY <2>1, <1>2
<1>5. TagOf(first[1]) = tag /\ ~IsContext(first[1]) /\ LengthOf(first[1]) = 5
  <2>1. 0 \in {0, 8} /\ 5 \in 0..7
    OBVIOUS
  <2>2. /\ TagOf(16 * tag + 0 + 5) = tag /\ (IsContext(16 * tag + 0 + 5) <=> 0 = 8)
        /\ LengthOf(16 * tag + 0 + 5) = 5
    BY <1>0, <2>1, TagOctet
  <2>. QED BY <2>2, <1>2
<1>6. TagOf(os[1]) = tag /\ ~IsContext(os[1]) /\ LengthOf(os[1]) = 5 /\ os[2] = Len(octets)
  BY <1>2, <1>4, <1>5
<1>7. Len(rest) \in Nat /\ Len(octets) \in Nat
  BY <1>0, SequenceLength
<1>8. ~(2 + os[2] > Len(os)) /\ ~(Len(os) < 2) /\ ~(LengthOf(os[1]) > 5) /\ os # <<>>
  BY <1>4, <1>6, <1>7
<1>. QED BY <1>4, <1>6, <1>8, Zenon DEF ReadSized

\* The octets of a value, and the rest.
IsValueIn(os, v, rest) == v \in Values /\ Encode(v) # <<>> /\ IsSequence(rest) /\ os = Encode(v) \o rest

\* What has been read says what it read and what it left.
LEMMA ReadSays == \A v, rest : Read(v, rest).ok /\ Read(v, rest).value = v /\ Read(v, rest).rest = rest
  BY DEF Read

\* A value that has been read has its type before it.
LEMMA TypedSays == \A type, v, rest : Typed(type, Read(v, rest)) = Read(<<type, v>>, rest)
  BY ReadSays, Zenon DEF Typed, Mapped

\* parseReadPropertyAckValue decides by the tag number what it reads.
LEMMA ScalarOf ==
    ASSUME NEW os
    PROVE  /\ TagOf(os[1]) = 0 => ReadScalar(os) = ReadNull(os)
           /\ TagOf(os[1]) = 1 => ReadScalar(os) = ReadBoolean(os)
           /\ TagOf(os[1]) = 2 => ReadScalar(os) = ReadUnsigned(os, 2)
           /\ TagOf(os[1]) = 9 => ReadScalar(os) = ReadUnsigned(os, 9)
           /\ TagOf(os[1]) = 3 => ReadScalar(os) = ReadSigned(os)
           /\ TagOf(os[1]) = 4 => ReadScalar(os) = ReadReal(os)
           /\ TagOf(os[1]) = 7 => ReadScalar(os) = ReadCharacterString(os)
           /\ TagOf(os[1]) = 8 => ReadScalar(os) = ReadBitString(os)
           /\ TagOf(os[1]) = 12 => ReadScalar(os) = ReadObjectIdentifier(os)
  BY DEF ReadScalar

\* Null is read back.
LEMMA NullRead ==
    ASSUME NEW os, NEW rest, IsValueIn(os, Null, rest)
    PROVE  ReadScalar(os) = Read(Null, rest)
<1>1. Encode(Null) = Application(0, <<>>)
  <2>1. Encode(Null) = <<0>>
    BY DEF Encode, Null
  <2>2. Application(0, <<>>) = <<0>>
    BY DEF Application, Tagged
  <2>. QED BY <2>1, <2>2
<1>2. IsTagged(os, 0, <<>>, rest)
  <2>1. os = Application(0, <<>>) \o rest /\ IsSequence(rest)
    BY <1>1, Zenon DEF IsValueIn
  <2>2. 0 \in 0..15
    OBVIOUS
  <2>. QED BY <2>1, <2>2, TupleIsSequence, Zenon DEF IsTagged
<1>3. ReadSized(os, 0) = Read(<<>>, rest) /\ TagOf(os[1]) = 0
  <2>1. Len(<<>>) \in 0..4 /\ Len(<<>>) \in 0..7
    OBVIOUS
  <2>. QED BY <1>2, <2>1, SizedRead, FirstOctet
<1>4. ReadNull(os) = Read(Null, rest)
  <2> DEFINE r == ReadSized(os, 0)
  <2>1. r.ok /\ r.value = <<>> /\ r.rest = rest
    BY <1>3, ReadSays
  <2>. QED BY <2>1, Zenon DEF ReadNull, Where, Mapped
<1>. QED BY <1>3, <1>4, ScalarOf

\* A Boolean, which has its value in its tag, is read back.
LEMMA BooleanRead ==
    ASSUME NEW b \in BOOLEAN, NEW os, NEW rest, IsValueIn(os, <<"Boolean", b>>, rest)
    PROVE  ReadScalar(os) = Read(<<"Boolean", b>>, rest)
<1> DEFINE first == IF b THEN 17 ELSE 16
<1>1. Encode(<<"Boolean", b>>) = <<first>>
  BY SMT DEF Encode
<1>2. TagOf(first) = 1 /\ ~IsContext(first) /\ (LengthOf(first) # 0) = b
  BY SMT DEF TagOf, IsContext, LengthOf
<1>3. os[1] = first /\ Tail(os) = rest
  <2> DEFINE s == <<first>>
  <2>1. IsSequence(s) /\ IsSequence(rest) /\ os = s \o rest /\ Len(s) = 1 /\ s[1] = first
    BY <1>1, TupleIsSequence DEF IsValueIn
  <2> HIDE DEF s
  <2>2. From(os, Len(s) + 1) = rest /\ os[1] = first /\ Len(os) = Len(s) + Len(rest) /\ IsSequence(os)
    <3>1. From(os, Len(s) + 1) = rest
      BY <2>1, SequencesPart
    <3>2. IsHeadOf(s, rest)
      BY <2>1, HeadIsRead
    <3>3. /\ IsSequence(os) /\ Len(os) = Len(s) + Len(rest) /\ \A i \in 1..Len(s) : os[i] = s[i]
      BY <2>1, <3>2 DEF IsHeadOf
    <3>. QED BY <2>1, <3>1, <3>3
  <2>3. Tail(os) = From(os, 2)
    <3>1. PICK S : os \in Seq(S)
      BY <2>2 DEF IsSequence
    <3>. QED BY <3>1 DEF From
  <2>. QED BY <2>1, <2>2, <2>3
<1> HIDE DEF first
<1>4. ReadBoolean(os) = Read(<<"Boolean", b>>, rest)
  BY <1>2, <1>3, Zenon DEF ReadBoolean
<1>. QED BY <1>2, <1>3, <1>4, ScalarOf

\* A number takes one to four octets, signed or not.
LEMMA NumberIsSmall ==
    ASSUME NEW n \in Int32
    PROVE  /\ IsSequence(Octets(n, UnsignedLength(n))) /\ Len(Octets(n, UnsignedLength(n))) \in 1..4
           /\ IsSequence(Octets(n, SignedLength(n))) /\ Len(Octets(n, SignedLength(n))) \in 1..4
           /\ IsSequence(Octets(n, 4)) /\ Len(Octets(n, 4)) = 4
<1>1. UnsignedLength(n) \in 1..4 /\ SignedLength(n) \in 1..4
  BY LengthsOfNumbers
<1>2. UnsignedLength(n) \in Nat /\ SignedLength(n) \in Nat /\ 4 \in Nat
  BY <1>1
<1>. QED BY <1>1, <1>2, OctetsLength, Zenon

\* Unsigned and Enumerated values are read back, the ones above 2147483647 as
\* they are kept in 32 bits.
LEMMA UnsignedRead ==
    ASSUME NEW n \in Int32, NEW os, NEW rest
    PROVE  /\ IsValueIn(os, <<"Unsigned", n>>, rest) => ReadScalar(os) = Read(<<"Unsigned", n>>, rest)
           /\ IsValueIn(os, <<"Enumerated", n>>, rest) => ReadScalar(os) = Read(<<"Enumerated", n>>, rest)
<1> DEFINE octets == Octets(n, UnsignedLength(n))
<1>1. IsSequence(octets) /\ Len(octets) \in 0..7
  BY NumberIsSmall
<1>2. ASSUME NEW tag \in {2, 9}, NEW type, (tag = 9 /\ type = "Enumerated") \/ (tag = 2 /\ type = "Unsigned"),
             IsSequence(rest), os = Application(tag, octets) \o rest
      PROVE  ReadScalar(os) = Read(<<type, n>>, rest)
  <2>1. tag \in 0..15
    OBVIOUS
  <2>2. IsTagged(os, tag, octets, rest)
    BY <1>1, <1>2, <2>1, Zenon DEF IsTagged
  <2>3. TagOf(os[1]) = tag
    BY <1>1, <2>2, FirstOctet
  <2>4. ReadApplication(os, tag) = Read(n, rest)
    BY <1>2, <2>1, ApplicationRead
  <2>5. ReadScalar(os) = ReadUnsigned(os, tag)
    BY <2>3, ScalarOf
  <2>6. (IF tag = 9 THEN "Enumerated" ELSE "Unsigned") = type
    BY <1>2
  <2>7. ReadUnsigned(os, tag) = Typed(type, ReadApplication(os, tag))
    BY <2>6, Zenon DEF ReadUnsigned
  <2>. QED BY <2>4, <2>5, <2>7, TypedSays
<1>3. /\ Encode(<<"Unsigned", n>>) = Application(2, octets)
      /\ Encode(<<"Enumerated", n>>) = Application(9, octets)
  BY SMT DEF Encode
<1> HIDE DEF octets
<1>4. IsValueIn(os, <<"Unsigned", n>>, rest) => ReadScalar(os) = Read(<<"Unsigned", n>>, rest)
  <2>1. 2 \in {2, 9}
    OBVIOUS
  <2>. QED BY <2>1, <1>2, <1>3, Zenon DEF IsValueIn
<1>5. IsValueIn(os, <<"Enumerated", n>>, rest) => ReadScalar(os) = Read(<<"Enumerated", n>>, rest)
  <2>. SUFFICES ASSUME IsValueIn(os, <<"Enumerated", n>>, rest)
                PROVE  ReadScalar(os) = Read(<<"Enumerated", n>>, rest)
    OBVIOUS
  <2>1. 9 \in {2, 9} /\ 9 = 9 /\ "Enumerated" = "Enumerated"
    OBVIOUS
  <2>2. IsSequence(rest) /\ os = Application(9, octets) \o rest
    BY <1>3, Zenon DEF IsValueIn
  <2>. QED BY <2>1, <2>2, <1>2
<1>. QED BY <1>4, <1>5

\* A Real is read back bit by bit.
LEMMA RealRead ==
    ASSUME NEW n \in Int32, NEW os, NEW rest, IsValueIn(os, <<"Real", n>>, rest)
    PROVE  ReadScalar(os) = Read(<<"Real", n>>, rest)
<1> DEFINE octets == Octets(n, 4)
<1>1. IsSequence(octets) /\ Len(octets) = 4 /\ Len(octets) \in 0..7 /\ Len(octets) \in 0..4
  BY NumberIsSmall
<1>2. Encode(<<"Real", n>>) = Application(4, octets)
  BY SMT DEF Encode
<1>3. Number(octets) = n
  <2>1. 4 \in 1..4 /\ n \in Words(4)
    BY SMT DEF Words
  <2>. QED BY <2>1, NumberOfOctets
<1> HIDE DEF octets
<1>4. IsTagged(os, 4, octets, rest)
  <2>1. 4 \in 0..15
    OBVIOUS
  <2>. QED BY <1>1, <1>2, <2>1, Zenon DEF IsTagged, IsValueIn
<1>5. ReadSized(os, 4) = Read(octets, rest) /\ TagOf(os[1]) = 4
  BY <1>1, <1>4, SizedRead, FirstOctet
<1>6. ReadReal(os) = Read(<<"Real", n>>, rest)
  <2> DEFINE r == ReadSized(os, 4)
  <2>1. r.ok /\ r.value = octets /\ r.rest = rest
    BY <1>5, ReadSays
  <2>2. Mapped(Where(r, LAMBDA v : Len(v) = 4), Number) = Read(n, rest)
    <3> HIDE DEF r
    <3>. QED BY <1>1, <1>3, <2>1, Zenon DEF Where, Mapped
  <2>3. ReadReal(os) = Typed("Real", Mapped(Where(r, LAMBDA v : Len(v) = 4), Number))
    BY DEF ReadReal
  <2>. QED BY <2>2, <2>3, TypedSays
<1>. QED BY <1>5, <1>6, ScalarOf

\* An object identifier is read back.
LEMMA ObjectIdentifierRead ==
    ASSUME NEW object \in ObjectIds, NEW os, NEW rest, IsSequence(rest),
           os = Application(12, ObjectOctets(object)) \o rest
    PROVE  /\ ReadApplication(os, 12) = Read(Number(ObjectOctets(object)), rest)
           /\ ReadScalar(os) = Read(<<"ObjectIdentifier", object>>, rest)
           /\ os # <<>> /\ TagOf(os[1]) = 12 /\ os[1] = 196
<1> DEFINE octets == ObjectOctets(object)
<1>1. Len(octets) = 4 /\ octets \in Seq(Byte) /\ ObjectFrom(Number(octets)) = object
  BY ObjectNumber
<1>2. IsSequence(octets) /\ Len(octets) \in 1..4 /\ Len(octets) \in 0..7
  BY <1>1 DEF IsSequence
<1> HIDE DEF octets
<1>3. IsTagged(os, 12, octets, rest)
  <2>1. 12 \in 0..15
    OBVIOUS
  <2>. QED BY <1>2, <2>1, Zenon DEF IsTagged, octets
<1>4. TagOf(os[1]) = 12 /\ os # <<>> /\ os[1] = 196
  <2>1. TagOf(os[1]) = 12 /\ os # <<>> /\ os[1] = 16 * 12 + Len(octets)
    BY <1>2, <1>3, FirstOctet, ZenonT(60)
  <2>. QED BY <1>1, <2>1
<1>5. ReadOctets(os, 12, FALSE) = Read(octets, rest)
  <2>1. 12 \in 0..15 /\ 0 \in {0, 8} /\ (0 = 8) = FALSE
    OBVIOUS
  <2>2. ReadOctets(Tagged(12, 0, octets) \o rest, 12, 0 = 8) = Read(octets, rest)
    BY <1>2, <2>1, TaggedRead
  <2>. QED BY <2>1, <2>2, Zenon DEF Application, octets
<1> DEFINE r == ReadOctets(os, 12, FALSE)
<1>6. r.ok /\ r.value = octets /\ r.rest = rest
  <2>1. r = Read(octets, rest)
    BY <1>5
  <2> HIDE DEF r
  <2>. QED BY <2>1 DEF Read
<1> HIDE DEF r
<1>7. ReadApplication(os, 12) = Read(Number(octets), rest)
  BY <1>6, Zenon DEF ReadApplication, Mapped, r
<1>8. Mapped(ReadApplication(os, 12), ObjectFrom) = Read(object, rest)
  <2> DEFINE q == ReadApplication(os, 12)
  <2>1. q.ok /\ q.value = Number(octets) /\ q.rest = rest
    BY <1>7, ReadSays
  <2> HIDE DEF q
  <2>2. Mapped(q, ObjectFrom) = Read(object, rest)
    BY <1>1, <2>1, Zenon DEF Mapped
  <2>. QED BY <2>2 DEF q
<1>9. ReadScalar(os) = Read(<<"ObjectIdentifier", object>>, rest)
  <2>1. ReadScalar(os) = ReadObjectIdentifier(os)
    BY <1>4, ScalarOf
  <2>2. ReadObjectIdentifier(os) = Typed("ObjectIdentifier", Mapped(ReadApplication(os, 12), ObjectFrom))
    BY DEF ReadObjectIdentifier
  <2>. QED BY <1>8, <2>1, <2>2, TypedSays, Zenon
<1>. QED BY <1>4, <1>7, <1>9 DEF octets

\* The weights of the octets of a signed number.
LEMMA WeightOf == Weight[2] = 256 /\ Weight[3] = 65536 /\ Weight[4] = 16777216
  BY SMT DEF Weight

\* A signed number in one octet is read back, the sign extended.
LEMMA SignedOfOne ==
    ASSUME NEW n \in Within(128)
    PROVE  Signed(Octets(n, 1)) = n
<1>1. n \in -128..127 /\ n \in Int
  BY SMT DEF Within
<1> DEFINE a == n % 256
<1>2. a \in Byte
  BY <1>1, Divided
<1>3. n = IF a >= 128 THEN a - 256 ELSE a
  BY <1>1, SignOfOctet
<1>4. Octets(n, 1) = <<a>>
  BY <1>1, OneOctet
<1> HIDE DEF a
<1>5. Number(<<a>>) = a
  BY <1>2, NumberOfOne
<1>6. Signed(<<a>>) = IF a >= 128 THEN a - 256 ELSE a
  <2>1. Signed(<<a>>) = IF a >= 128 THEN Number(<<a>>) - Weight[2] ELSE Number(<<a>>)
    BY SMT DEF Signed
  <2>. QED BY <1>5, <2>1, WeightOf, SMT
<1>. QED BY <1>3, <1>4, <1>6, Zenon

\* A signed number in two octets is read back, the sign extended.
LEMMA SignedOfTwo ==
    ASSUME NEW n \in Within(32768)
    PROVE  Signed(Octets(n, 2)) = n
<1> DEFINE p == n \div 256
           a == p % 256
           b == n % 256
<1>1. n \in Int /\ p \in -128..127
  BY SMT DEF Within
<1>2. a \in Byte /\ b \in Byte /\ n = p * 256 + b
  BY <1>1, Divided
<1>3. p = IF a >= 128 THEN a - 256 ELSE a
  BY <1>1, SignOfOctet
<1>4. Octets(n, 2) = <<a, b>>
  BY <1>1, TwoOctets
<1> HIDE DEF p, a, b
<1>5. Number(<<a, b>>) = a * 256 + b
  BY <1>2, NumberOfTwo
<1>6. Signed(<<a, b>>) = IF a >= 128 THEN Number(<<a, b>>) - 65536 ELSE Number(<<a, b>>)
  <2>1. Signed(<<a, b>>) = IF a >= 128 THEN Number(<<a, b>>) - Weight[3] ELSE Number(<<a, b>>)
    BY SMT DEF Signed
  <2>. QED BY <2>1, WeightOf, SMT
<1>. QED BY <1>1, <1>2, <1>3, <1>4, <1>5, <1>6, SMT DEF Byte

\* A signed number in three octets is read back, the sign extended.
LEMMA SignedOfThree ==
    ASSUME NEW n \in Within(8388608)
    PROVE  Signed(Octets(n, 3)) = n
<1> DEFINE p == n \div 65536
           x == n \div 256
           a == p % 256
           b == x % 256
           c == n % 256
<1>1. n \in Int /\ p \in -128..127
  BY SMT DEF Within
<1>2. a \in Byte /\ b \in Byte /\ c \in Byte /\ n = x * 256 + c /\ x = p * 256 + b /\ x \in Int
  BY <1>1, Divided, DividedAgain
<1>3. p = IF a >= 128 THEN a - 256 ELSE a
  BY <1>1, SignOfOctet
<1>4. Octets(n, 3) = <<a, b, c>>
  BY <1>1, ThreeOctets, SMT
<1> HIDE DEF p, x, a, b, c
<1>5. Number(<<a, b, c>>) = a * 65536 + b * 256 + c
  BY <1>2, NumberOfThree, SMT
<1>6. Signed(<<a, b, c>>) = IF a >= 128 THEN Number(<<a, b, c>>) - 16777216 ELSE Number(<<a, b, c>>)
  <2>1. Signed(<<a, b, c>>) = IF a >= 128 THEN Number(<<a, b, c>>) - Weight[4] ELSE Number(<<a, b, c>>)
    BY SMT DEF Signed
  <2>. QED BY <2>1, WeightOf, SMT
<1>. QED BY <1>1, <1>2, <1>3, <1>4, <1>5, <1>6, SMT DEF Byte

\* A signed number in the octets that its writer chooses is read back with
\* its sign.
LEMMA SignedOfOctets ==
    ASSUME NEW n \in Int32
    PROVE  Signed(Octets(n, SignedLength(n))) = n
<1>1. CASE n \in Within(128)
  <2>1. SignedLength(n) = 1
    BY <1>1, SMT DEF SignedLength, Within
  <2>. QED BY <1>1, <2>1, SignedOfOne
<1>2. CASE n \in Within(32768) \ Within(128)
  <2>1. SignedLength(n) = 2
    BY <1>2, SMT DEF SignedLength, Within
  <2>. QED BY <1>2, <2>1, SignedOfTwo
<1>3. CASE n \in Within(8388608) \ Within(32768)
  <2>1. SignedLength(n) = 3
    BY <1>3, SMT DEF SignedLength, Within
  <2>. QED BY <1>3, <2>1, SignedOfThree, SMT
<1>4. CASE n \notin Within(8388608)
  <2>1. SignedLength(n) = 4
    BY <1>4, SMT DEF SignedLength, Within
  <2>2. 4 \in 1..4 /\ n \in Words(4)
    BY SMT DEF Words
  <2>3. Number(Octets(n, 4)) = n
    BY <2>2, NumberOfOctets, SMT
  <2>4. Len(Octets(n, 4)) = 4
    BY NumberIsSmall
  <2>5. Signed(Octets(n, 4)) = Number(Octets(n, 4))
    <3> DEFINE os == Octets(n, 4)
    <3>1. ~(Len(os) < 4)
      BY <2>4, SMT
    <3> HIDE DEF os
    <3>2. Signed(os) = Number(os)
      BY <3>1, Zenon DEF Signed
    <3>. QED BY <3>2, SMT DEF os
  <2>. QED BY <2>1, <2>3, <2>5, SMT
<1>. QED BY <1>1, <1>2, <1>3, <1>4, SMT

\* A Signed value is read back.
LEMMA SignedRead ==
    ASSUME NEW n \in Int32, NEW os, NEW rest, IsValueIn(os, <<"Signed", n>>, rest)
    PROVE  ReadScalar(os) = Read(<<"Signed", n>>, rest)
<1> DEFINE octets == Octets(n, SignedLength(n))
<1>1. IsSequence(octets) /\ Len(octets) \in 1..4 /\ Len(octets) \in 0..7
  BY NumberIsSmall
<1>2. Encode(<<"Signed", n>>) = Application(3, octets)
  BY SMT DEF Encode
<1>3. Signed(octets) = n
  BY SignedOfOctets
<1> HIDE DEF octets
<1>4. IsTagged(os, 3, octets, rest)
  <2>1. 3 \in 0..15
    OBVIOUS
  <2>. QED BY <1>1, <1>2, <2>1, Zenon DEF IsTagged, IsValueIn
<1>5. TagOf(os[1]) = 3
  BY <1>1, <1>4, FirstOctet
<1>6. ReadOctets(os, 3, FALSE) = Read(octets, rest)
  <2>1. 3 \in 0..15 /\ 0 \in {0, 8} /\ (0 = 8) = FALSE
    OBVIOUS
  <2>2. IsSequence(rest) /\ os = Application(3, octets) \o rest
    BY <1>4 DEF IsTagged
  <2>3. ReadOctets(Tagged(3, 0, octets) \o rest, 3, 0 = 8) = Read(octets, rest)
    BY <1>1, <2>1, <2>2, TaggedRead
  <2>. QED BY <2>1, <2>2, <2>3, Zenon DEF Application
<1>7. ReadSigned(os) = Read(<<"Signed", n>>, rest)
  <2> DEFINE r == ReadOctets(os, 3, FALSE)
  <2>1. r.ok /\ r.value = octets /\ r.rest = rest
    <3>1. r = Read(octets, rest)
      BY <1>6
    <3> HIDE DEF r
    <3>. QED BY <3>1 DEF Read
  <2>2. Mapped(r, Signed) = Read(n, rest)
    <3> HIDE DEF r
    <3>. QED BY <1>3, <2>1, Zenon DEF Mapped
  <2>3. ReadSigned(os) = Typed("Signed", Mapped(r, Signed))
    BY DEF ReadSigned
  <2>. QED BY <2>2, <2>3, TypedSays
<1>. QED BY <1>5, <1>7, ScalarOf

\* The octets of a text, its character set first.
TextRead(os, octets, rest) == IsSequence(octets) /\ octets # <<>> /\ ReadSized(os, 7) = Read(octets, rest)

\* readCharacterString keeps of a text what its buffer has room for.
LEMMA TextOf ==
    ASSUME NEW os, NEW octets, NEW rest, TextRead(os, octets, rest)
    PROVE  ReadCharacterString(os) =
               Read(<<"CharacterString", SubSeq(octets, 2, IF Len(octets) < MaxText THEN Len(octets) ELSE MaxText)>>,
                    rest)
<1> DEFINE r == ReadSized(os, 7)
           cut(v) == SubSeq(v, 2, IF Len(v) < MaxText THEN Len(v) ELSE MaxText)
<1>1. r.ok /\ r.value = octets /\ r.rest = rest /\ octets # <<>>
  <2>1. r = Read(octets, rest) /\ octets # <<>>
    BY DEF TextRead
  <2> HIDE DEF r
  <2>. QED BY <2>1 DEF Read
<1>2. ReadCharacterString(os) = Typed("CharacterString", Mapped(Where(r, LAMBDA v : v # <<>>), cut))
  BY DEF ReadCharacterString
<1> HIDE DEF r
<1>3. Mapped(Where(r, LAMBDA v : v # <<>>), cut) = Read(cut(octets), rest)
  BY <1>1, Zenon DEF Where, Mapped
<1> HIDE DEF cut
<1>4. ReadCharacterString(os) = Read(<<"CharacterString", cut(octets)>>, rest)
  BY <1>2, <1>3, TypedSays, Zenon
<1>. QED BY <1>4 DEF cut

\* A text is found under its tag, whether its length is in the tag or after
\* it.
LEMMA TextIsRead ==
    ASSUME NEW text \in Seq(Byte), NEW os, NEW rest, IsValueIn(os, <<"CharacterString", text>>, rest)
    PROVE  TextRead(os, <<0>> \o text, rest) /\ TagOf(os[1]) = 7
<1> DEFINE octets == <<0>> \o text
<1>1. IsSequence(text) /\ Len(text) \in Nat
  BY DEF IsSequence
<1>2. IsSequence(octets) /\ Len(octets) = Len(text) + 1 /\ octets # <<>>
  BY <1>1, TupleIsSequence, SequencesJoin
<1>3. Len(text) <= 253
  BY DEF IsValueIn, Encode
<1>4. CASE Len(text) < 4
  <2>1. Encode(<<"CharacterString", text>>) = Application(7, octets)
    BY <1>4, <1>3, <1>1, SMT DEF Encode
  <2>2. IsTagged(os, 7, octets, rest)
    <3>1. 7 \in 0..15
      OBVIOUS
    <3> HIDE DEF octets
    <3>. QED BY <1>2, <2>1, <3>1, Zenon DEF IsTagged, IsValueIn
  <2>3. Len(octets) \in 0..4 /\ Len(octets) \in 0..7
    BY <1>1, <1>2, <1>4
  <2> HIDE DEF octets
  <2>4. ReadSized(os, 7) = Read(octets, rest) /\ TagOf(os[1]) = 7
    BY <2>2, <2>3, SizedRead, FirstOctet
  <2>5. TextRead(os, octets, rest) /\ TagOf(os[1]) = 7
    BY <1>2, <2>4, Zenon DEF TextRead
  <2>. QED BY <2>5 DEF octets
<1>5. CASE ~(Len(text) < 4)
  <2>1. Encode(<<"CharacterString", text>>) = <<16 * 7 + 5, Len(text) + 1, 0>> \o text
    BY <1>5, <1>3, <1>1, SMT DEF Encode
  <2>2. <<16 * 7 + 5, Len(text) + 1, 0>> \o text = <<16 * 7 + 5, Len(octets)>> \o octets
    <3> DEFINE a == 16 * 7 + 5
               m == Len(octets)
    <3>0. m = Len(text) + 1
      BY <1>2
    <3> HIDE DEF a, m
    <3>1. <<a, m, 0>> = <<a, m>> \o <<0>>
      <4> DEFINE s == <<a, m>>
                 t == <<0>>
                 u == <<a, m, 0>>
      <4>1. IsSequence(s) /\ IsSequence(t) /\ IsSequence(u) /\ Len(s) = 2 /\ Len(t) = 1 /\ Len(u) = 3
            /\ s[1] = a /\ s[2] = m /\ t[1] = 0 /\ u[1] = a /\ u[2] = m /\ u[3] = 0
        BY TupleIsSequence
      <4> HIDE DEF s, t, u
      <4>2. IsSequence(s \o t) /\ Len(s \o t) = Len(s) + Len(t) /\ (\A i \in 1..Len(s) : (s \o t)[i] = s[i])
            /\ \A i \in 1..Len(t) : (s \o t)[Len(s) + i] = t[i]
        <5>1. IsSequence(s) /\ IsSequence(t)
          BY <4>1
        <5>. QED BY <5>1, SequencesJoin
      <4>3. Len(s \o t) = 3 /\ (s \o t)[1] = a /\ (s \o t)[2] = m
        BY <4>1, <4>2
      <4>4. (s \o t)[2 + 1] = 0
        BY <4>1, <4>2
      <4> DEFINE st == s \o t
      <4>5. IsSequence(st) /\ Len(st) = 3 /\ \A i \in 1..3 : st[i] = u[i]
        BY <4>1, <4>2, <4>3, <4>4
      <4> HIDE DEF st
      <4>6. 3 \in Nat
        OBVIOUS
      <4>7. st = u
        BY <4>1, <4>5, <4>6, SameSequence
      <4>. QED BY <4>7 DEF st, s, t, u
    <3>2. (<<a, m>> \o <<0>>) \o text = <<a, m>> \o (<<0>> \o text)
      BY <1>1, TupleIsSequence, JoinsAssociate
    <3>3. <<a, m, 0>> \o text = <<a, m>> \o octets
      BY <3>1, <3>2
    <3>. QED BY <3>0, <3>3, Zenon DEF a, m
  <2>3. os = (<<16 * 7 + 5, Len(octets)>> \o octets) \o rest /\ IsSequence(rest)
    <3> HIDE DEF octets
    <3>. QED BY <2>1, <2>2, Zenon DEF IsValueIn
  <2>4. 7 \in 0..15
    OBVIOUS
  <2> HIDE DEF octets
  <2>5. ReadSized(os, 7) = Read(octets, rest) /\ TagOf(os[1]) = 7
    <3>1. IsLong(os, 7, octets, rest)
      BY <1>2, <2>3, <2>4, Zenon DEF IsLong
    <3>. QED BY <3>1, LongRead
  <2>6. TextRead(os, octets, rest) /\ TagOf(os[1]) = 7
    BY <1>2, <2>5, Zenon DEF TextRead
  <2>. QED BY <2>6 DEF octets
<1>. QED BY <1>4, <1>5

\* A text stays a text, and one that the buffer has room for is read back.
LEMMA CharacterStringRead ==
    ASSUME NEW text \in Seq(Byte), NEW os, NEW rest, IsValueIn(os, <<"CharacterString", text>>, rest)
    PROVE  /\ ReadScalar(os).value[1] = "CharacterString"
           /\ Len(text) < MaxText => ReadScalar(os) = Read(<<"CharacterString", text>>, rest)
<1> DEFINE octets == <<0>> \o text
           heard == SubSeq(octets, 2, IF Len(octets) < MaxText THEN Len(octets) ELSE MaxText)
<1>1. TextRead(os, octets, rest) /\ TagOf(os[1]) = 7
  BY TextIsRead
<1>2. ReadScalar(os) = Read(<<"CharacterString", heard>>, rest)
  <2>1. ReadScalar(os) = ReadCharacterString(os)
    BY <1>1, ScalarOf
  <2> HIDE DEF octets
  <2>. QED BY <1>1, <2>1, TextOf
<1>3. Len(text) < MaxText => heard = text
  <2>. SUFFICES ASSUME Len(text) < MaxText PROVE heard = text
    OBVIOUS
  <2>0. MaxText \in Nat /\ Len(text) \in Nat
    BY CodecAssumption
  <2>1. IsSequence(text) /\ IsSequence(<<0>>) /\ Len(<<0>>) = 1
    BY TupleIsSequence DEF IsSequence
  <2>2. From(octets, Len(<<0>>) + 1) = text /\ Len(octets) = Len(<<0>>) + Len(text)
    BY <2>1, SequencesPart, SequencesJoin
  <2>3. From(octets, 2) = text /\ Len(octets) = 1 + Len(text)
    BY <2>1, <2>2
  <2> HIDE DEF octets
  <2>4. CASE Len(octets) < MaxText
    BY <2>3, <2>4 DEF From
  <2>5. CASE ~(Len(octets) < MaxText)
    <3>1. MaxText = Len(octets)
      BY <2>0, <2>3, <2>5
    <3>. QED BY <2>3, <2>5, <3>1 DEF From
  <2>. QED BY <2>4, <2>5
<1> HIDE DEF heard
<1>4. ReadScalar(os).value = <<"CharacterString", heard>>
  BY <1>2, ReadSays
<1>5. <<"CharacterString", heard>>[1] = "CharacterString"
  OBVIOUS
<1>. QED BY <1>2, <1>3, <1>4, <1>5

-----------------------------------------------------------------------------
\* Bit strings.

\* A bit.
Bit == {0, 1}
\* Eight bits in an octet, the first the highest.
Packed(a, b, c, e, f, g, h, i) ==
    128 * a + 64 * b + 32 * c + 16 * e + 8 * f + 4 * g + 2 * h + i
\* An octet made of eight bits.
IsPacked(n, a, b, c, e, f, g, h, i) ==
    /\ {a, b, c, e, f, g, h, i} \subseteq Bit
    /\ n = Packed(a, b, c, e, f, g, h, i)
\* The bits that are taken out of an octet.
Unpacks(n, a, b, c, e, f, g, h, i) ==
    /\ (n \div 128) % 2 = a /\ (n \div 64) % 2 = b /\ (n \div 32) % 2 = c /\ (n \div 16) % 2 = e
    /\ (n \div 8) % 2 = f /\ (n \div 4) % 2 = g /\ (n \div 2) % 2 = h /\ (n \div 1) % 2 = i

\* The bits come out of an octet as they went in.
LEMMA Unpacked ==
    ASSUME NEW n, NEW a, NEW b, NEW c, NEW e, NEW f, NEW g, NEW h, NEW i, IsPacked(n, a, b, c, e, f, g, h, i)
    PROVE  Unpacks(n, a, b, c, e, f, g, h, i)
<1>0. /\ n = Packed(a, b, c, e, f, g, h, i)
      /\ a \in Bit /\ b \in Bit /\ c \in Bit /\ e \in Bit /\ f \in Bit /\ g \in Bit /\ h \in Bit /\ i \in Bit
  BY DEF IsPacked
<1>1. (n \div 128) % 2 = a /\ (n \div 64) % 2 = b
  BY <1>0, SMT DEF Bit, Packed
<1>2. (n \div 32) % 2 = c /\ (n \div 16) % 2 = e
  BY <1>0, SMT DEF Bit, Packed
<1>3. (n \div 8) % 2 = f /\ (n \div 4) % 2 = g
  BY <1>0, SMT DEF Bit, Packed
<1>4. (n \div 2) % 2 = h /\ (n \div 1) % 2 = i
  BY <1>0, SMT DEF Bit, Packed
<1>. QED BY <1>1, <1>2, <1>3, <1>4 DEF Unpacks

\* The octet and the place in it of the k-th bit.
LEMMA BitPlace ==
    ASSUME NEW l \in 1..24, NEW k \in 1..l
    PROVE  /\ (k - 1) \div 8 + 1 \in 1..((l + 7) \div 8) /\ ((k - 1) % 8) + 1 \in 1..8
           /\ k = 8 * ((k - 1) \div 8 + 1 - 1) + (((k - 1) % 8) + 1)
           /\ 2 + (k - 1) \div 8 = 1 + ((k - 1) \div 8 + 1)
  BY SMT

\* Up to 24 bits, in up to three octets after the count of the unused ones,
\* are read back.
LEMMA BitsReadBack ==
    ASSUME NEW bits \in Seq(BOOLEAN), Len(bits) \in 1..24
    PROVE  /\ IsSequence(BitOctets(bits)) /\ Len(BitOctets(bits)) \in 2..4
           /\ BitOctets(bits)[1] <= 7 /\ BitsFrom(BitOctets(bits)) = bits
<1> DEFINE count == (Len(bits) + 7) \div 8
           bit(k) == IF k <= Len(bits) /\ bits[k] THEN 1 ELSE 0
           at(i, j) == bit(8 * (i - 1) + j)
           octet(i) == Packed(at(i, 1), at(i, 2), at(i, 3), at(i, 4), at(i, 5), at(i, 6), at(i, 7), at(i, 8))
           packed == [i \in 1..count |-> octet(i)]
           first == <<8 * count - Len(bits)>>
           os == BitOctets(bits)
<1>1. os = first \o packed
  BY SMT DEF BitOctets, Packed
<1>2. count \in 1..3 /\ 8 * count - Len(bits) \in 0..7
  <2>1. \A l \in 1..24 : (l + 7) \div 8 \in 1..3 /\ 8 * ((l + 7) \div 8) - l \in 0..7
    OBVIOUS
  <2>. QED BY <2>1
<1>3. IsSequence(first) /\ Len(first) = 1 /\ first[1] = 8 * count - Len(bits)
  BY TupleIsSequence
<1>4. IsSequence(packed) /\ Len(packed) = count /\ \A i \in 1..count : packed[i] = octet(i)
  <2> HIDE DEF octet, count
  <2>0. count \in Nat
    BY <1>2
  <2> HIDE DEF octet, count
  <2> DEFINE S == {packed[i] : i \in 1..count}
  <2>2. packed \in Seq({packed[i] : i \in 1..count})
    <3>1. packed = [i \in 1..count |-> packed[i]]
      BY Zenon
    <3> HIDE DEF packed
    <3>. QED BY <2>0, <3>1
  <2>3. Len(packed) = count
    BY <2>0
  <2>4. \A i \in 1..count : packed[i] = octet(i)
    OBVIOUS
  <2>1. packed \in Seq(S) /\ Len(packed) = count /\ \A i \in 1..count : packed[i] = octet(i)
    BY <2>2, <2>3, <2>4
  <2> HIDE DEF S, packed
  <2>. QED BY <2>1 DEF IsSequence
<1> HIDE DEF os, first, packed, count
<1>5. /\ IsSequence(os) /\ Len(os) = 1 + count
      /\ os[1] = first[1] /\ \A i \in 1..count : os[1 + i] = packed[i]
  <2>1. /\ IsSequence(first \o packed) /\ Len(first \o packed) = Len(first) + Len(packed)
        /\ \A i \in 1..Len(first) : (first \o packed)[i] = first[i]
        /\ \A i \in 1..Len(packed) : (first \o packed)[Len(first) + i] = packed[i]
    <3>1. IsSequence(first) /\ IsSequence(packed)
      BY <1>3, <1>4
    <3>. QED BY <3>1, SequencesJoin
  <2>. QED BY <1>1, <1>3, <1>4, <2>1
<1>6. ASSUME NEW k \in 1..Len(bits)
      PROVE  ((os[2 + (k - 1) \div 8] \div (<<128, 64, 32, 16, 8, 4, 2, 1>>)[((k - 1) % 8) + 1]) % 2 = 1) = bits[k]
  <2> DEFINE i == (k - 1) \div 8 + 1
             j == ((k - 1) % 8) + 1
             w == (<<128, 64, 32, 16, 8, 4, 2, 1>>)[j]
  <2>1. i \in 1..count /\ j \in 1..8 /\ k = 8 * (i - 1) + j /\ 2 + (k - 1) \div 8 = 1 + i
    BY BitPlace DEF count
  <2>2. at(i, 1) \in Bit /\ at(i, 2) \in Bit /\ at(i, 3) \in Bit /\ at(i, 4) \in Bit
        /\ at(i, 5) \in Bit /\ at(i, 6) \in Bit /\ at(i, 7) \in Bit /\ at(i, 8) \in Bit
    BY DEF Bit
  <2>3. at(i, j) = IF bits[k] THEN 1 ELSE 0
    BY <2>1
  <2>4. os[1 + i] = octet(i)
    BY <2>1, <1>4, <1>5
  <2> HIDE DEF i, bit
  <2>5. /\ (octet(i) \div 128) % 2 = at(i, 1) /\ (octet(i) \div 64) % 2 = at(i, 2)
        /\ (octet(i) \div 32) % 2 = at(i, 3) /\ (octet(i) \div 16) % 2 = at(i, 4)
        /\ (octet(i) \div 8) % 2 = at(i, 5) /\ (octet(i) \div 4) % 2 = at(i, 6)
        /\ (octet(i) \div 2) % 2 = at(i, 7) /\ (octet(i) \div 1) % 2 = at(i, 8)
    <3> HIDE DEF at
    <3>1. Packed(at(i, 1), at(i, 2), at(i, 3), at(i, 4), at(i, 5), at(i, 6), at(i, 7), at(i, 8)) = octet(i)
      OBVIOUS
    <3> DEFINE a1 == at(i, 1)
               a2 == at(i, 2)
               a3 == at(i, 3)
               a4 == at(i, 4)
               a5 == at(i, 5)
               a6 == at(i, 6)
               a7 == at(i, 7)
               a8 == at(i, 8)
               n == octet(i)
    <3>2. /\ a1 \in Bit /\ a2 \in Bit /\ a3 \in Bit /\ a4 \in Bit
          /\ a5 \in Bit /\ a6 \in Bit /\ a7 \in Bit /\ a8 \in Bit
          /\ Packed(a1, a2, a3, a4, a5, a6, a7, a8) = n
      BY <2>2, <3>1
    <3> HIDE DEF a1, a2, a3, a4, a5, a6, a7, a8, n
    <3>3. /\ (n \div 128) % 2 = a1 /\ (n \div 64) % 2 = a2 /\ (n \div 32) % 2 = a3 /\ (n \div 16) % 2 = a4
          /\ (n \div 8) % 2 = a5 /\ (n \div 4) % 2 = a6 /\ (n \div 2) % 2 = a7 /\ (n \div 1) % 2 = a8
      <4>1. IsPacked(n, a1, a2, a3, a4, a5, a6, a7, a8)
        BY <3>2 DEF IsPacked
      <4>2. Unpacks(n, a1, a2, a3, a4, a5, a6, a7, a8)
        BY <4>1, Unpacked
      <4>. QED BY <4>2 DEF Unpacks
    <3>. QED BY <3>3 DEF a1, a2, a3, a4, a5, a6, a7, a8, n
  <2>10. j = 1 => (octet(i) \div w) % 2 = at(i, j)
    <3>. SUFFICES ASSUME j = 1 PROVE (octet(i) \div w) % 2 = at(i, j)
      OBVIOUS
    <3>1. w = 128
      OBVIOUS
    <3> HIDE DEF at, octet, j, w
    <3>. QED BY <3>1, <2>5
  <2>11. j = 2 => (octet(i) \div w) % 2 = at(i, j)
    <3>. SUFFICES ASSUME j = 2 PROVE (octet(i) \div w) % 2 = at(i, j)
      OBVIOUS
    <3>1. w = 64
      OBVIOUS
    <3> HIDE DEF at, octet, j, w
    <3>. QED BY <3>1, <2>5
  <2>12. j = 3 => (octet(i) \div w) % 2 = at(i, j)
    <3>. SUFFICES ASSUME j = 3 PROVE (octet(i) \div w) % 2 = at(i, j)
      OBVIOUS
    <3>1. w = 32
      OBVIOUS
    <3> HIDE DEF at, octet, j, w
    <3>. QED BY <3>1, <2>5
  <2>13. j = 4 => (octet(i) \div w) % 2 = at(i, j)
    <3>. SUFFICES ASSUME j = 4 PROVE (octet(i) \div w) % 2 = at(i, j)
      OBVIOUS
    <3>1. w = 16
      OBVIOUS
    <3> HIDE DEF at, octet, j, w
    <3>. QED BY <3>1, <2>5
  <2>14. j = 5 => (octet(i) \div w) % 2 = at(i, j)
    <3>. SUFFICES ASSUME j = 5 PROVE (octet(i) \div w) % 2 = at(i, j)
      OBVIOUS
    <3>1. w = 8
      OBVIOUS
    <3> HIDE DEF at, octet, j, w
    <3>. QED BY <3>1, <2>5
  <2>15. j = 6 => (octet(i) \div w) % 2 = at(i, j)
    <3>. SUFFICES ASSUME j = 6 PROVE (octet(i) \div w) % 2 = at(i, j)
      OBVIOUS
    <3>1. w = 4
      OBVIOUS
    <3> HIDE DEF at, octet, j, w
    <3>. QED BY <3>1, <2>5
  <2>16. j = 7 => (octet(i) \div w) % 2 = at(i, j)
    <3>. SUFFICES ASSUME j = 7 PROVE (octet(i) \div w) % 2 = at(i, j)
      OBVIOUS
    <3>1. w = 2
      OBVIOUS
    <3> HIDE DEF at, octet, j, w
    <3>. QED BY <3>1, <2>5
  <2>17. j = 8 => (octet(i) \div w) % 2 = at(i, j)
    <3>. SUFFICES ASSUME j = 8 PROVE (octet(i) \div w) % 2 = at(i, j)
      OBVIOUS
    <3>1. w = 1
      OBVIOUS
    <3> HIDE DEF at, octet, j, w
    <3>. QED BY <3>1, <2>5
  <2>18. j \in {1, 2, 3, 4, 5, 6, 7, 8}
    BY <2>1
  <2>19. (octet(i) \div w) % 2 = at(i, j)
    <3> HIDE DEF at, octet, j, w
    <3>. QED BY <2>10, <2>11, <2>12, <2>13, <2>14, <2>15, <2>16, <2>17, <2>18
  <2>20. bits[k] \in BOOLEAN
    OBVIOUS
  <2>21. ((octet(i) \div w) % 2 = 1) = bits[k]
    <3> HIDE DEF at, octet, w
    <3>. QED BY <2>3, <2>19, <2>20
  <2>. QED BY <2>1, <2>4, <2>21, Zenon
<1>7. BitsFrom(os) = bits
  <2>1. 8 * (Len(os) - 1) - os[1] = Len(bits)
    BY <1>2, <1>3, <1>5
  <2>2. BitsFrom(os) = [k \in 1..Len(bits) |->
            (os[2 + (k - 1) \div 8] \div (<<128, 64, 32, 16, 8, 4, 2, 1>>)[((k - 1) % 8) + 1]) % 2 = 1]
    BY <2>1, Zenon DEF BitsFrom
  <2>3. bits = [k \in 1..Len(bits) |-> bits[k]]
    OBVIOUS
  <2> DEFINE heard(k) ==
            (os[2 + (k - 1) \div 8] \div (<<128, 64, 32, 16, 8, 4, 2, 1>>)[((k - 1) % 8) + 1]) % 2 = 1
  <2>4. \A k \in 1..Len(bits) : heard(k) = bits[k]
    BY <1>6
  <2>5. BitsFrom(os) = [k \in 1..Len(bits) |-> heard(k)]
    BY <2>2
  <2> HIDE DEF heard
  <2>6. [k \in 1..Len(bits) |-> heard(k)] = [k \in 1..Len(bits) |-> bits[k]]
    BY <2>4, Zenon
  <2>. QED BY <2>3, <2>5, <2>6, Zenon
<1>. QED BY <1>2, <1>3, <1>5, <1>7 DEF os

\* A bit string is read back.
LEMMA BitStringRead ==
    ASSUME NEW bits \in Seq(BOOLEAN), NEW os, NEW rest, IsValueIn(os, <<"BitString", bits>>, rest)
    PROVE  ReadScalar(os) = Read(<<"BitString", bits>>, rest)
<1> DEFINE octets == BitOctets(bits)
<1>1. Len(bits) \in 1..24
  BY SMT DEF IsValueIn, Encode
<1>2. Encode(<<"BitString", bits>>) = Application(8, octets)
  BY <1>1, SMT DEF Encode
<1>3. IsSequence(octets) /\ Len(octets) \in 2..4 /\ octets[1] <= 7 /\ BitsFrom(octets) = bits
  BY <1>1, BitsReadBack
<1> HIDE DEF octets
<1>4. IsTagged(os, 8, octets, rest)
  <2>1. 8 \in 0..15
    OBVIOUS
  <2>. QED BY <1>2, <1>3, <2>1, Zenon DEF IsTagged, IsValueIn
<1>5. ReadSized(os, 8) = Read(octets, rest) /\ TagOf(os[1]) = 8
  <2>1. Len(octets) \in 0..4 /\ Len(octets) \in 0..7
    BY <1>3
  <2>. QED BY <1>4, <2>1, SizedRead, FirstOctet
<1>6. ReadBitString(os) = Read(<<"BitString", bits>>, rest)
  <2> DEFINE r == ReadSized(os, 8)
             w == Where(r, LAMBDA v : Len(v) \in 2..5 /\ v[1] <= 7)
  <2>1. r.ok /\ r.value = octets /\ r.rest = rest
    <3>1. r = Read(octets, rest)
      BY <1>5
    <3> HIDE DEF r
    <3>. QED BY <3>1 DEF Read
  <2>2. w = r
    <3>1. Len(octets) \in 2..5
      BY <1>3
    <3> HIDE DEF r
    <3>. QED BY <1>3, <2>1, <3>1, Zenon DEF Where
  <2>3. ReadBitString(os) = Typed("BitString", Mapped(w, BitsFrom))
    BY DEF ReadBitString
  <2>4. Mapped(w, BitsFrom) = Read(bits, rest)
    <3> HIDE DEF r, w
    <3>. QED BY <1>3, <2>1, <2>2, Zenon DEF Mapped
  <2>. QED BY <2>3, <2>4, TypedSays
<1>. QED BY <1>5, <1>6, ScalarOf

\* The values by their types.
LEMMA ValueCases ==
    ASSUME NEW v \in Values
    PROVE  \/ v = Null
           \/ \E b \in BOOLEAN : v = <<"Boolean", b>>
           \/ \E n \in Int32 : v \in {<<"Unsigned", n>>, <<"Signed", n>>, <<"Real", n>>, <<"Enumerated", n>>}
           \/ \E text \in Seq(Byte) : v = <<"CharacterString", text>>
           \/ \E bits \in Seq(BOOLEAN) : v = <<"BitString", bits>>
           \/ \E object \in ObjectIds : v = <<"ObjectIdentifier", object>>
<1>1. \/ v = Null \/ v \in {"Boolean"} \X BOOLEAN
      \/ v \in {"Unsigned", "Signed", "Real", "Enumerated"} \X Int32
      \/ v \in {"CharacterString"} \X Seq(Byte) \/ v \in {"BitString"} \X Seq(BOOLEAN)
      \/ v \in {"ObjectIdentifier"} \X ObjectIds
  BY Zenon DEF Values, Byte
<1>3. CASE v \in {"Boolean"} \X BOOLEAN
  <2>1. v = <<v[1], v[2]>> /\ v[1] \in {"Boolean"} /\ v[2] \in BOOLEAN
    BY <1>3
  <2>. QED BY <2>1, Zenon
<1>4. CASE v \in {"Unsigned", "Signed", "Real", "Enumerated"} \X Int32
  <2>1. v = <<v[1], v[2]>> /\ v[1] \in {"Unsigned", "Signed", "Real", "Enumerated"} /\ v[2] \in Int32
    BY <1>4
  <2>. QED BY <2>1, Zenon
<1>5. CASE v \in {"CharacterString"} \X Seq(Byte)
  <2>1. v = <<v[1], v[2]>> /\ v[1] \in {"CharacterString"} /\ v[2] \in Seq(Byte)
    BY <1>5
  <2>. QED BY <2>1, Zenon
<1>6. CASE v \in {"BitString"} \X Seq(BOOLEAN)
  <2>1. v = <<v[1], v[2]>> /\ v[1] \in {"BitString"} /\ v[2] \in Seq(BOOLEAN)
    BY <1>6
  <2>. QED BY <2>1, Zenon
<1>7. CASE v \in {"ObjectIdentifier"} \X ObjectIds
  <2>1. v = <<v[1], v[2]>> /\ v[1] \in {"ObjectIdentifier"} /\ v[2] \in ObjectIds
    BY <1>7
  <2>. QED BY <2>1, Zenon
<1>. QED BY <1>1, <1>3, <1>4, <1>5, <1>6, <1>7

\* Every value that can be encoded is read back as the same one, a text if
\* there is room for it, and nothing after it is read.
LEMMA ValueRead ==
    ASSUME NEW os, NEW v, NEW rest, IsValueIn(os, v, rest)
    PROVE  /\ ReadScalar(os).value[1] = v[1]
           /\ HasRoom(v) => ReadScalar(os) = Read(v, rest)
<1>0. v \in Values
  BY DEF IsValueIn
<1>1. ASSUME ReadScalar(os) = Read(v, rest) PROVE ReadScalar(os).value[1] = v[1]
  BY <1>1, ReadSays
<1>2. CASE v = Null
  BY <1>1, <1>2, NullRead
<1>3. CASE \E b \in BOOLEAN : v = <<"Boolean", b>>
  <2>1. PICK b \in BOOLEAN : v = <<"Boolean", b>>
    BY <1>3
  <2>. QED BY <1>1, <2>1, BooleanRead, Zenon
<1>4. CASE \E n \in Int32 : v \in {<<"Unsigned", n>>, <<"Signed", n>>, <<"Real", n>>, <<"Enumerated", n>>}
  <2>1. PICK n \in Int32 : v \in {<<"Unsigned", n>>, <<"Signed", n>>, <<"Real", n>>, <<"Enumerated", n>>}
    BY <1>4
  <2>2. CASE v = <<"Unsigned", n>>
    BY <1>1, <2>2, UnsignedRead, Zenon
  <2>3. CASE v = <<"Signed", n>>
    BY <1>1, <2>3, SignedRead, Zenon
  <2>4. CASE v = <<"Real", n>>
    BY <1>1, <2>4, RealRead, Zenon
  <2>5. CASE v = <<"Enumerated", n>>
    BY <1>1, <2>5, UnsignedRead, Zenon
  <2>. QED BY <2>1, <2>2, <2>3, <2>4, <2>5, Zenon
<1>5. CASE \E text \in Seq(Byte) : v = <<"CharacterString", text>>
  <2>1. PICK text \in Seq(Byte) : v = <<"CharacterString", text>>
    BY <1>5
  <2>2. v[1] = "CharacterString" /\ v[2] = text
    BY <2>1
  <2>3. IsValueIn(os, <<"CharacterString", text>>, rest)
    BY <2>1, Zenon
  <2>4. /\ ReadScalar(os).value[1] = "CharacterString"
        /\ Len(text) < MaxText => ReadScalar(os) = Read(<<"CharacterString", text>>, rest)
    BY <2>3, CharacterStringRead
  <2>. QED BY <2>1, <2>2, <2>4, Zenon DEF HasRoom
<1>6. CASE \E bits \in Seq(BOOLEAN) : v = <<"BitString", bits>>
  <2>1. PICK bits \in Seq(BOOLEAN) : v = <<"BitString", bits>>
    BY <1>6
  <2>. QED BY <1>1, <2>1, BitStringRead, Zenon
<1>7. CASE \E object \in ObjectIds : v = <<"ObjectIdentifier", object>>
  <2>1. PICK object \in ObjectIds : v = <<"ObjectIdentifier", object>>
    BY <1>7
  <2>2. Encode(<<"ObjectIdentifier", object>>) = Application(12, ObjectOctets(object))
    BY SMT DEF Encode
  <2>3. IsSequence(rest) /\ os = Application(12, ObjectOctets(object)) \o rest
    BY <2>1, <2>2, Zenon DEF IsValueIn
  <2>4. ReadScalar(os) = Read(<<"ObjectIdentifier", object>>, rest)
    BY <2>3, ObjectIdentifierRead
  <2>. QED BY <1>1, <2>1, <2>4, Zenon
<1>. QED BY <1>0, <1>2, <1>3, <1>4, <1>5, <1>6, <1>7, ValueCases, Zenon

\* No value begins with a context tag, and none is empty.
LEMMA EncodedFirst ==
    ASSUME NEW v \in Values, Encode(v) # <<>>
    PROVE  /\ IsSequence(Encode(v)) /\ Len(Encode(v)) >= 1 /\ Len(Encode(v)) \in Nat
           /\ ~IsContext(Encode(v)[1])
<1>1. IsSequence(Encode(v))
  BY ValueIsNoList, EncodedIsSequence
<1>2. Len(Encode(v)) \in Nat
  BY <1>1, SequenceLength
<1>. SUFFICES Len(Encode(v)) >= 1 /\ ~IsContext(Encode(v)[1])
  BY <1>1, <1>2
<1>3. ASSUME NEW tag \in 0..15, NEW octets, IsSequence(octets), Len(octets) \in 0..7,
             Encode(v) = Application(tag, octets)
      PROVE  Len(Encode(v)) >= 1 /\ ~IsContext(Encode(v)[1])
  <2> DEFINE first == 16 * tag + 0 + Len(octets)
             s == <<first>>
  <2>1. TagOf(first) = tag /\ (IsContext(first) <=> 0 = 8) /\ LengthOf(first) = Len(octets)
    BY <1>3, TagOctet
  <2>2. IsSequence(s) /\ Len(s) = 1 /\ s[1] = first
    BY TupleIsSequence
  <2>3. Encode(v) = s \o octets
    BY <1>3 DEF Application, Tagged
  <2> HIDE DEF first, s
  <2>4. Len(Encode(v)) = Len(s) + Len(octets) /\ \A i \in 1..Len(s) : Encode(v)[i] = s[i]
    <3>1. Len(s \o octets) = Len(s) + Len(octets) /\ \A i \in 1..Len(s) : (s \o octets)[i] = s[i]
      BY <1>3, <2>2, SequencesJoin
    <3>. QED BY <2>3, <3>1
  <2>. QED BY <1>3, <2>1, <2>2, <2>4
<1>4. CASE v = Null
  <2>1. Encode(v) = <<0>>
    BY <1>4 DEF Encode, Null
  <2>2. ~IsContext(0)
    BY DEF IsContext
  <2>. QED BY <2>1, <2>2
<1>5. CASE \E b \in BOOLEAN : v = <<"Boolean", b>>
  <2>1. PICK b \in BOOLEAN : v = <<"Boolean", b>>
    BY <1>5
  <2>2. Encode(v) = <<16>> \/ Encode(v) = <<17>>
    BY <2>1, SMT DEF Encode
  <2>3. ~IsContext(16) /\ ~IsContext(17)
    BY DEF IsContext
  <2>. QED BY <2>2, <2>3
<1>6. CASE \E n \in Int32 : v \in {<<"Unsigned", n>>, <<"Signed", n>>, <<"Real", n>>, <<"Enumerated", n>>}
  <2>1. PICK n \in Int32 : v \in {<<"Unsigned", n>>, <<"Signed", n>>, <<"Real", n>>, <<"Enumerated", n>>}
    BY <1>6
  <2> DEFINE u == Octets(n, UnsignedLength(n))
             s == Octets(n, SignedLength(n))
             r == Octets(n, 4)
  <2>2. /\ IsSequence(u) /\ Len(u) \in 0..7 /\ IsSequence(s) /\ Len(s) \in 0..7
        /\ IsSequence(r) /\ Len(r) \in 0..7
    BY NumberIsSmall
  <2>3. Encode(v) \in {Application(2, u), Application(3, s), Application(4, r), Application(9, u)}
    BY <2>1, SMT DEF Encode
  <2> HIDE DEF u, s, r
  <2>4. 2 \in 0..15 /\ 3 \in 0..15 /\ 4 \in 0..15 /\ 9 \in 0..15
    OBVIOUS
  <2>. QED BY <1>3, <2>2, <2>3, <2>4
<1>7. CASE \E text \in Seq(Byte) : v = <<"CharacterString", text>>
  <2>1. PICK text \in Seq(Byte) : v = <<"CharacterString", text>>
    BY <1>7
  <2> DEFINE octets == <<0>> \o text
             s == <<16 * 7 + 5, Len(text) + 1, 0>>
  <2>2. IsSequence(text) /\ Len(text) \in Nat
    BY DEF IsSequence
  <2>3. IsSequence(octets) /\ Len(octets) = 1 + Len(text)
    BY <2>2, TupleIsSequence, SequencesJoin
  <2>4. Encode(v) = IF Len(text) < 4 THEN Application(7, octets) ELSE s \o text
    <3>1. Encode(v) = IF Len(text) > 253 THEN <<>> ELSE IF Len(text) < 4 THEN Application(7, octets) ELSE s \o text
      BY <2>1, SMT DEF Encode
    <3>. QED BY <3>1
  <2>5. CASE Len(text) < 4
    <3>1. 7 \in 0..15 /\ Len(octets) \in 0..7 /\ Encode(v) = Application(7, octets)
      BY <2>2, <2>3, <2>4, <2>5
    <3> HIDE DEF octets
    <3>. QED BY <1>3, <2>3, <3>1
  <2>6. CASE ~(Len(text) < 4)
    <3>1. IsSequence(s) /\ Len(s) = 3 /\ s[1] = 117
      BY <2>2, TupleIsSequence
    <3>2. ~IsContext(117)
      BY DEF IsContext
    <3> HIDE DEF s, octets
    <3>3. Len(s \o text) = Len(s) + Len(text) /\ \A i \in 1..Len(s) : (s \o text)[i] = s[i]
      <4>1. IsSequence(s) /\ IsSequence(text)
        BY <3>1, <2>2
      <4>. QED BY <4>1, SequencesJoin
    <3>. QED BY <2>2, <2>4, <2>6, <3>1, <3>2, <3>3
  <2>. QED BY <2>5, <2>6
<1>8. CASE \E bits \in Seq(BOOLEAN) : v = <<"BitString", bits>>
  <2>1. PICK bits \in Seq(BOOLEAN) : v = <<"BitString", bits>>
    BY <1>8
  <2>2. Len(bits) \in 1..24 /\ Encode(v) = Application(8, BitOctets(bits))
    BY <2>1, SMT DEF Encode
  <2>3. 8 \in 0..15 /\ IsSequence(BitOctets(bits)) /\ Len(BitOctets(bits)) \in 0..7
    BY <2>2, BitsReadBack
  <2>. QED BY <1>3, <2>2, <2>3
<1>9. CASE \E object \in ObjectIds : v = <<"ObjectIdentifier", object>>
  <2>1. PICK object \in ObjectIds : v = <<"ObjectIdentifier", object>>
    BY <1>9
  <2>2. Encode(v) = Application(12, ObjectOctets(object))
    BY <2>1, SMT DEF Encode
  <2>3. 12 \in 0..15 /\ IsSequence(ObjectOctets(object)) /\ Len(ObjectOctets(object)) \in 0..7
    BY ObjectNumber DEF IsSequence
  <2>. QED BY <1>3, <2>2, <2>3
<1>. QED BY <1>1, <1>2, <1>4, <1>5, <1>6, <1>7, <1>8, <1>9, ValueCases, Zenon

-----------------------------------------------------------------------------
\* Requests and what is read of them.

\* Three parts, joined from either side.
Regroups(s, t, u) == (s \o t) \o u = s \o (t \o u) /\ IsSequence(s \o t) /\ IsSequence(t \o u)

\* Three sequences can be joined from either side.
LEMMA Regrouped ==
    ASSUME NEW s, NEW t, NEW u, IsSequence(s), IsSequence(t), IsSequence(u)
    PROVE  Regroups(s, t, u)
<1>1. IsSequence(s \o t)
  BY SequencesJoin
<1>2. IsSequence(t \o u)
  BY SequencesJoin
<1>3. (s \o t) \o u = s \o (t \o u)
  BY JoinsAssociate
<1>. QED BY <1>1, <1>2, <1>3 DEF Regroups

\* Three parameters: read from the first, each leaves the others.
LEMMA ThreeJoin ==
    ASSUME NEW a, NEW b, NEW c, IsSequence(a), IsSequence(b), IsSequence(c)
    PROVE  /\ IsSequence(b \o c) /\ IsSequence(a \o (b \o c))
           /\ a \o b \o c = a \o (b \o c)
<1>1. Regroups(a, b, c)
  BY Regrouped
<1>2. IsSequence(b \o c) /\ a \o b \o c = a \o (b \o c)
  BY <1>1, Zenon DEF Regroups
<1> DEFINE bc == b \o c
<1>3. IsSequence(bc)
  BY <1>2
<1> HIDE DEF bc
<1>4. IsSequence(a \o bc)
  BY <1>3, SequencesJoin
<1>. QED BY <1>2, <1>4, Zenon DEF bc

\* Four parameters: read from the first, each leaves the others.
LEMMA FourJoin ==
    ASSUME NEW a, NEW b, NEW c, NEW d, IsSequence(a), IsSequence(b), IsSequence(c), IsSequence(d)
    PROVE  /\ IsSequence(c \o d) /\ IsSequence(b \o (c \o d)) /\ IsSequence(a \o (b \o (c \o d)))
           /\ a \o b \o c \o d = a \o (b \o (c \o d))
<1> DEFINE ab == a \o b
           cd == c \o d
<1>1. IsSequence(ab)
  BY SequencesJoin
<1>2. IsSequence(cd)
  BY SequencesJoin
<1> HIDE DEF ab, cd
<1>3. Regroups(ab, c, d)
  BY <1>1, Regrouped
<1>4. ab \o c \o d = ab \o cd
  BY <1>3, Zenon DEF Regroups, cd
<1>5. IsSequence(b \o cd) /\ IsSequence(a \o (b \o cd)) /\ a \o b \o cd = a \o (b \o cd)
  BY <1>2, ThreeJoin
<1>. QED BY <1>2, <1>4, <1>5, Zenon DEF ab, cd

\* Four parts, joined from the last.
FourRegroup(a, b, c, d) ==
    /\ IsSequence(c \o d) /\ IsSequence(b \o (c \o d)) /\ IsSequence(a \o (b \o (c \o d)))
    /\ a \o b \o c \o d = a \o (b \o (c \o d))

\* Four sequences can be joined so.
LEMMA FourIsRegrouped ==
    ASSUME NEW a, NEW b, NEW c, NEW d, IsSequence(a), IsSequence(b), IsSequence(c), IsSequence(d)
    PROVE  FourRegroup(a, b, c, d)
BY FourJoin DEF FourRegroup

\* Five parts, joined from the last.
FiveRegroup(a, b, c, d, e) ==
    /\ IsSequence(d \o e) /\ IsSequence(c \o (d \o e)) /\ IsSequence(b \o (c \o (d \o e)))
    /\ IsSequence(a \o (b \o (c \o (d \o e))))
    /\ a \o b \o c \o d \o e = a \o (b \o (c \o (d \o e)))

\* Five parameters: read from the first, each leaves the others.
LEMMA FiveJoin ==
    ASSUME NEW a, NEW b, NEW c, NEW d, NEW e,
           IsSequence(a), IsSequence(b), IsSequence(c), IsSequence(d), IsSequence(e)
    PROVE  FiveRegroup(a, b, c, d, e)
<1> DEFINE abc == a \o b \o c
           de == d \o e
<1>1. IsSequence(a \o (b \o c)) /\ a \o b \o c = a \o (b \o c)
  BY ThreeJoin
<1>2. IsSequence(abc)
  BY <1>1, Zenon
<1>3. IsSequence(de)
  BY SequencesJoin
<1> HIDE DEF abc, de
<1>4. Regroups(abc, d, e)
  BY <1>2, Regrouped
<1>5. abc \o d \o e = abc \o de
  BY <1>4, Zenon DEF Regroups, de
<1>6. FourRegroup(a, b, c, de)
  BY <1>3, FourIsRegrouped
<1>. QED BY <1>3, <1>5, <1>6, Zenon DEF abc, de, FourRegroup, FiveRegroup

\* Seven parts, joined from the last.
SevenRegroup(a, b, c, d, e, f, g) ==
    /\ IsSequence(f \o g) /\ IsSequence(e \o (f \o g)) /\ IsSequence(d \o (e \o (f \o g)))
    /\ IsSequence(c \o (d \o (e \o (f \o g)))) /\ IsSequence(b \o (c \o (d \o (e \o (f \o g)))))
    /\ a \o b \o c \o d \o e \o f \o g = a \o (b \o (c \o (d \o (e \o (f \o g)))))

\* Seven parameters: read from the first, each leaves the others.
LEMMA SevenJoin ==
    ASSUME NEW a, NEW b, NEW c, NEW d, NEW e, NEW f, NEW g, IsSequence(a), IsSequence(b), IsSequence(c),
           IsSequence(d), IsSequence(e), IsSequence(f), IsSequence(g)
    PROVE  SevenRegroup(a, b, c, d, e, f, g)
<1> DEFINE abc == a \o b \o c
           efg == e \o (f \o g)
<1>1. IsSequence(a \o (b \o c)) /\ a \o b \o c = a \o (b \o c)
  BY ThreeJoin
<1>2. IsSequence(abc)
  BY <1>1, Zenon
<1>3. IsSequence(f \o g) /\ IsSequence(efg)
  BY ThreeJoin
<1> HIDE DEF abc
<1>4. /\ abc \o d \o e \o f \o g = abc \o (d \o (e \o (f \o g)))
  BY <1>2, FiveJoin
<1> HIDE DEF efg
<1>5. /\ IsSequence(d \o efg)
  BY <1>3, SequencesJoin
<1> DEFINE defg == d \o efg
<1>6. abc \o defg = a \o (b \o (c \o defg)) /\ IsSequence(c \o defg) /\ IsSequence(b \o (c \o defg))
  <2> HIDE DEF defg
  <2>1. IsSequence(defg)
    BY <1>5 DEF defg
  <2>2. IsSequence(c \o defg) /\ IsSequence(b \o (c \o defg)) /\ a \o b \o c \o defg = a \o (b \o (c \o defg))
    <3> DEFINE ab == a \o b
               cdefg == c \o defg
    <3>1. IsSequence(ab)
      BY SequencesJoin
    <3> HIDE DEF ab, cdefg
    <3>2. Regroups(ab, c, defg)
      BY <2>1, <3>1, Regrouped
    <3>3. IsSequence(cdefg)
      BY <3>2, Zenon DEF Regroups, cdefg
    <3>4. Regroups(a, b, cdefg)
      BY <3>3, Regrouped
    <3>. QED BY <3>2, <3>3, <3>4, Zenon DEF Regroups, ab, cdefg
  <2>. QED BY <2>2, Zenon DEF abc
<1>. QED BY <1>3, <1>4, <1>5, <1>6, Zenon DEF abc, efg, SevenRegroup

\* A reading that went on by one value.
IsRead(r, seen, v, rest) ==
    /\ r.ok /\ r.rest = rest /\ IsSequence(r.value) /\ Len(r.value) = Len(seen) + 1
    /\ r.value[Len(seen) + 1] = v /\ \A i \in 1..Len(seen) : r.value[i] = seen[i]
\* A parameter that reads v and leaves the rest.
Reads(os, param, seen, v, rest) == ReadParam(os, param, seen) = Read(v, rest)

\* What a parameter reads is added to what was read before.
LEMMA ThenRead ==
    ASSUME NEW r, r.ok, IsSequence(r.value), NEW param, NEW v, NEW rest,
           Reads(r.rest, param, r.value, v, rest)
    PROVE  IsRead(Then(r, param), r.value, v, rest)
<1> DEFINE seen == r.value
           t == Append(seen, v)
           q == Then(r, param)
<1>1. Read(v, rest).ok /\ Read(v, rest).value = v /\ Read(v, rest).rest = rest
  BY ReadSays
<1>2. q = Read(t, rest)
  BY <1>1, Zenon DEF Then, Reads
<1>a. IsAppended(t, seen, v)
  BY Appended
<1> HIDE DEF t
<1>3. IsSequence(t) /\ Len(t) = Len(seen) + 1 /\ t[Len(seen) + 1] = v /\ \A i \in 1..Len(seen) : t[i] = seen[i]
  BY <1>a DEF IsAppended
<1> HIDE DEF q
<1>4. q.ok /\ q.value = t /\ q.rest = rest
  BY <1>2, ReadSays, Zenon
<1>5. IsRead(q, seen, v, rest)
  BY <1>3, <1>4, Zenon DEF IsRead
<1>. QED BY <1>5 DEF q

\* What each kind of parameter reads.
LEMMA ParamReads ==
    /\ \A os, tag, seen : ReadParam(os, Param(tag), seen) = ReadContext(os, tag)
    /\ \A os, tag, seen : ReadParam(os, ObjectParam(tag), seen) = ReadObject(os, tag)
    /\ \A os, octet, seen : ReadParam(os, Octet(octet), seen) = ReadOctet(os, octet)
    /\ \A os, tag, absent, seen :
          ReadParam(os, Optional(tag, absent), seen) = ReadOptional(os, tag, absent)
    /\ \A os, tag, absent, seen :
          ReadParam(os, AtEnd(tag, absent), seen) =
              IF os = <<>> THEN Read(absent, os) ELSE ReadContext(os, tag)
    /\ \A os, tag, seen : ReadParam(os, ApplicationParam(tag), seen) = ReadApplication(os, tag)
    /\ \A os, at, seen : ReadParam(os, ValueOf(at), seen) = ReadValue(os, seen[at], seen[at + 1])
<1>1. \A os, tag, seen : ReadParam(os, Param(tag), seen) = ReadContext(os, tag)
  BY DEF ReadParam, Param
<1>2. \A os, tag, seen : ReadParam(os, ObjectParam(tag), seen) = ReadObject(os, tag)
  BY DEF ReadParam, ObjectParam
<1>3. \A os, octet, seen : ReadParam(os, Octet(octet), seen) = ReadOctet(os, octet)
  BY DEF ReadParam, Octet
<1>4. \A os, tag, absent, seen :
          ReadParam(os, Optional(tag, absent), seen) = ReadOptional(os, tag, absent)
  BY DEF ReadParam, Optional
<1>5. \A os, tag, absent, seen :
          ReadParam(os, AtEnd(tag, absent), seen) =
              IF os = <<>> THEN Read(absent, os) ELSE ReadContext(os, tag)
  BY DEF ReadParam, AtEnd
<1>6. \A os, tag, seen : ReadParam(os, ApplicationParam(tag), seen) = ReadApplication(os, tag)
  BY DEF ReadParam, ApplicationParam
<1>7. \A os, at, seen : ReadParam(os, ValueOf(at), seen) = ReadValue(os, seen[at], seen[at + 1])
  BY DEF ReadParam, ValueOf
<1>. QED BY <1>1, <1>2, <1>3, <1>4, <1>5, <1>6, <1>7

\* A parameter reads what its reader reads.
LEMMA ParamsReadAs ==
    /\ \A os, tag, seen, v, rest :
          ReadContext(os, tag) = Read(v, rest) => Reads(os, Param(tag), seen, v, rest)
    /\ \A os, tag, seen, v, rest :
          ReadObject(os, tag) = Read(v, rest) => Reads(os, ObjectParam(tag), seen, v, rest)
    /\ \A os, octet, seen, v, rest :
          ReadOctet(os, octet) = Read(v, rest) => Reads(os, Octet(octet), seen, v, rest)
    /\ \A os, tag, absent, seen, v, rest :
          ReadOptional(os, tag, absent) = Read(v, rest) => Reads(os, Optional(tag, absent), seen, v, rest)
    /\ \A os, tag, seen, v, rest :
          ReadApplication(os, tag) = Read(v, rest) => Reads(os, ApplicationParam(tag), seen, v, rest)
  BY ParamReads DEF Reads

\* An object identifier under a context tag is read back.
LEMMA ContextObjectRead ==
    ASSUME NEW object \in ObjectIds, NEW tag \in 0..15, NEW rest, IsSequence(rest)
    PROVE  /\ ReadContext(ContextObject(tag, object) \o rest, tag) = Read(Number(ObjectOctets(object)), rest)
           /\ ReadObject(ContextObject(tag, object) \o rest, tag) = Read(object, rest)
<1> DEFINE octets == ObjectOctets(object)
           os == ContextObject(tag, object) \o rest
<1>1. Len(octets) = 4 /\ octets \in Seq(Byte) /\ ObjectFrom(Number(octets)) = object
  BY ObjectNumber
<1>2. IsSequence(octets) /\ Len(octets) \in 1..4
  BY <1>1 DEF IsSequence
<1> HIDE DEF octets
<1>3. ReadOctets(os, tag, TRUE) = Read(octets, rest)
  <2>1. 8 \in {0, 8} /\ (8 = 8) = TRUE
    OBVIOUS
  <2>2. ReadOctets(Tagged(tag, 8, octets) \o rest, tag, 8 = 8) = Read(octets, rest)
    BY <1>2, <2>1, TaggedRead
  <2>. QED BY <2>1, <2>2, Zenon DEF ContextObject, Context, octets
<1> HIDE DEF os
<1> DEFINE r == ReadOctets(os, tag, TRUE)
<1>4. r.ok /\ r.value = octets /\ r.rest = rest
  <2>1. r = Read(octets, rest)
    BY <1>3
  <2> HIDE DEF r
  <2>. QED BY <2>1 DEF Read
<1> HIDE DEF r
<1>5. ReadContext(os, tag) = Read(Number(octets), rest)
  BY <1>4, Zenon DEF ReadContext, Mapped, r
<1> DEFINE q == ReadContext(os, tag)
<1>6. q.ok /\ q.value = Number(octets) /\ q.rest = rest
  <2>1. q = Read(Number(octets), rest)
    BY <1>5
  <2> HIDE DEF q
  <2>. QED BY <2>1 DEF Read
<1> HIDE DEF q
<1>7. ReadObject(os, tag) = Read(object, rest)
  BY <1>1, <1>6, Zenon DEF ReadObject, Mapped, q
<1>. QED BY <1>5, <1>7 DEF os, octets

\* The octet of an opening or a closing tag.
LEMMA OctetRead ==
    ASSUME NEW octet, NEW rest, IsSequence(rest)
    PROVE  ReadOctet(<<octet>> \o rest, octet) = Read(octet, rest)
<1> DEFINE s == <<octet>>
           os == s \o rest
<1>1. IsSequence(s) /\ Len(s) = 1 /\ s[1] = octet
  BY TupleIsSequence
<1> HIDE DEF s
<1>2. /\ IsSequence(os) /\ Len(os) = Len(s) + Len(rest) /\ \A i \in 1..Len(s) : os[i] = s[i]
  <2>1. IsSequence(s)
    BY <1>1
  <2>. QED BY <2>1, SequencesJoin
<1>3. From(os, Len(s) + 1) = rest
  <2>1. IsSequence(s)
    BY <1>1
  <2>. QED BY <2>1, SequencesPart
<1> HIDE DEF os
<1>4. Len(os) = 1 + Len(rest) /\ Len(rest) \in Nat /\ os[1] = octet /\ From(os, 2) = rest
  BY <1>1, <1>2, <1>3, SequenceLength
<1>5. os # <<>> /\ Tail(os) = From(os, 2)
  <2>1. PICK S : os \in Seq(S)
    BY <1>2 DEF IsSequence
  <2>. QED BY <1>4, <2>1 DEF From
<1>6. ReadOctet(os, octet) = Read(octet, rest)
  BY <1>4, <1>5, Zenon DEF ReadOctet
<1>. QED BY <1>6 DEF os, s

\* A number under a context tag begins with that tag.
LEMMA ContextFirst ==
    ASSUME NEW n \in Int32, NEW tag \in 0..15, NEW rest, IsSequence(rest)
    PROVE  LET os == ContextUnsigned(tag, n) \o rest IN
           os # <<>> /\ TagOf(os[1]) = tag /\ IsContext(os[1])
<1> DEFINE octets == Octets(n, ContextLength(n))
           first == 16 * tag + 8 + Len(octets)
           s == <<first>>
           os == ContextUnsigned(tag, n) \o rest
<1>1. IsSequence(octets) /\ Len(octets) \in 0..7
  <2>1. ContextLength(n) \in 0..7 /\ ContextLength(n) \in Nat
    BY LengthsOfNumbers
  <2>. QED BY <2>1, OctetsLength
<1>2. TagOf(first) = tag /\ (IsContext(first) <=> 8 = 8) /\ LengthOf(first) = Len(octets)
  <2>1. 8 \in {0, 8}
    OBVIOUS
  <2> HIDE DEF octets
  <2>. QED BY <1>1, <2>1, TagOctet
<1>3. IsSequence(s) /\ Len(s) = 1 /\ s[1] = first
  BY TupleIsSequence
<1>4. os = (s \o octets) \o rest
  BY DEF ContextUnsigned, Context, Tagged
<1> HIDE DEF s, octets, first, os
<1>5. HasParts(os, s, octets, rest)
  <2>1. AreParts(os, s, octets, rest)
    BY <1>1, <1>3, <1>4 DEF AreParts
  <2>. QED BY <2>1, PartsOf
<1>6. os[1] = first /\ Len(os) = 1 + Len(octets) + Len(rest)
  BY <1>3, <1>5 DEF HasParts
<1>7. os # <<>>
  BY <1>1, <1>6, SequenceLength
<1>. QED BY <1>2, <1>6, <1>7 DEF os

\* An array index that is left out, or not, is read back.
LEMMA OptionalRead ==
    ASSUME NEW n \in Int32, NEW tag \in 0..15, NEW rest, IsSequence(rest)
    PROVE  /\ (rest = <<>> \/ TagOf(rest[1]) # tag \/ ~IsContext(rest[1])) =>
                  ReadOptional(OptionalIndex(tag, n) \o rest, tag, NoIndex) = Read(n, rest)
           /\ ReadParam(OptionalIndex(tag, n), AtEnd(tag, NoIndex), <<>>) = Read(n, <<>>)
<1>1. CASE n = NoIndex
  <2>1. OptionalIndex(tag, n) = <<>>
    BY <1>1 DEF OptionalIndex
  <2>2. <<>> \o rest = rest
    BY DEF IsSequence
  <2>3. ReadParam(<<>>, AtEnd(tag, NoIndex), <<>>) = Read(NoIndex, <<>>)
    BY ParamReads
  <2>4. (rest = <<>> \/ TagOf(rest[1]) # tag \/ ~IsContext(rest[1])) =>
            ReadOptional(rest, tag, NoIndex) = Read(NoIndex, rest)
    BY Zenon DEF ReadOptional
  <2>. QED BY <1>1, <2>1, <2>2, <2>3, <2>4, Zenon
<1>2. CASE n # NoIndex
  <2>1. OptionalIndex(tag, n) = ContextUnsigned(tag, n)
    BY <1>2 DEF OptionalIndex
  <2>2. ReadContext(ContextUnsigned(tag, n) \o rest, tag) = Read(n, rest)
    BY ContextRead
  <2>3. ReadOptional(ContextUnsigned(tag, n) \o rest, tag, NoIndex) = Read(n, rest)
    BY <2>2, ContextFirst, Zenon DEF ReadOptional
  <2>4. IsSequence(<<>>)
    BY TupleIsSequence
  <2>5. ContextUnsigned(tag, n) \o <<>> = ContextUnsigned(tag, n)
    <3>1. IsSequence(ContextUnsigned(tag, n))
      BY ParametersAreSequences
    <3>. QED BY <3>1 DEF IsSequence
  <2>6. ReadContext(ContextUnsigned(tag, n), tag) = Read(n, <<>>) /\ ContextUnsigned(tag, n) # <<>>
    BY <2>4, <2>5, ContextRead, ContextFirst, Zenon
  <2>7. ReadParam(ContextUnsigned(tag, n), AtEnd(tag, NoIndex), <<>>) = Read(n, <<>>)
    <3>1. \A os, seen : ReadParam(os, AtEnd(tag, NoIndex), seen) =
              IF os = <<>> THEN Read(NoIndex, os) ELSE ReadContext(os, tag)
      BY ParamReads
    <3>. QED BY <2>6, <3>1, Zenon
  <2>. QED BY <2>1, <2>3, <2>7, Zenon
<1>. QED BY <1>1, <1>2

\* The header of a confirmed request, as it is read.
HeaderOf(invoke, service, parameters) ==
    [status |-> "Confirmed", invoke |-> invoke, service |-> service, rest |-> parameters]
\* A confirmed request as it is built.
IsConfirmed(d, invoke, service, parameters) ==
    IsSequence(parameters) /\ d = ConfirmedRequest(invoke, service, parameters)

\* The header says its invoke id, its service and its parameters.
LEMMA HeaderSays ==
    \A invoke, service, parameters :
        /\ HeaderOf(invoke, service, parameters).status = "Confirmed"
        /\ HeaderOf(invoke, service, parameters).invoke = invoke
        /\ HeaderOf(invoke, service, parameters).service = service
        /\ HeaderOf(invoke, service, parameters).rest = parameters
  BY DEF HeaderOf

\* parseConfirmedRequestHeader reads back the header that a request was built
\* with.
LEMMA ConfirmedRead ==
    ASSUME NEW invoke, NEW service, NEW parameters, NEW d, IsConfirmed(d, invoke, service, parameters)
    PROVE  ConfirmedHeader(d) = HeaderOf(invoke, service, parameters)
<1> DEFINE head == <<16 * Confirmed, 5, invoke, service>>
           apdu == head \o parameters
<1>1. IsSequence(head) /\ Len(head) = 4 /\ head[1] = 0 /\ head[3] = invoke /\ head[4] = service
  BY TupleIsSequence DEF Confirmed
<1>2. IsSequence(parameters) /\ Len(parameters) \in Nat
  BY SequenceLength DEF IsConfirmed
<1>3. d = Datagram(Unicast, ExpectingReply, apdu)
  BY DEF IsConfirmed, ConfirmedRequest
<1> HIDE DEF head
<1>4. /\ IsSequence(apdu) /\ Len(apdu) = Len(head) + Len(parameters)
      /\ \A i \in 1..Len(head) : apdu[i] = head[i]
  <2>1. IsSequence(head) /\ IsSequence(parameters)
    BY <1>1, <1>2
  <2>. QED BY <2>1, SequencesJoin
<1>5. From(apdu, Len(head) + 1) = parameters
  <2>1. IsSequence(head) /\ IsSequence(parameters)
    BY <1>1, <1>2
  <2>. QED BY <2>1, SequencesPart
<1> HIDE DEF apdu
<1>6. Len(apdu) >= 4 /\ apdu[1] = 0 /\ apdu[3] = invoke /\ apdu[4] = service /\ From(apdu, 5) = parameters
  BY <1>1, <1>2, <1>4, <1>5
<1>7. Apdu(d, {Unicast}, 4) = apdu
  <2>1. IsDatagram(d, Unicast, ExpectingReply, apdu)
    BY <1>3, <1>4 DEF IsDatagram, ExpectingReply
  <2>2. 4 \in Nat /\ Len(apdu) + 6 >= 4 /\ Unicast \in {Unicast}
    BY <1>1, <1>2, <1>4
  <2>3. Apdu(d, {Unicast}, 4) = IF Len(apdu) + 6 >= 4 /\ Unicast \in {Unicast} THEN apdu ELSE <<>>
    <3>1. Carries(d, Unicast, apdu)
      BY <2>1, DatagramRead
    <3>. QED BY <2>2, <3>1, Zenon DEF Carries
  <2>. QED BY <2>2, <2>3
<1>8. Pdu(apdu) = Confirmed /\ apdu # <<>> /\ ~(Len(apdu) < 4)
  <2>1. 0 \div 16 = 0
    OBVIOUS
  <2>2. Len(apdu) \in Nat
    BY <1>1, <1>2, <1>4
  <2>. QED BY <1>6, <2>1, <2>2 DEF Pdu, Confirmed
<1>. QED BY <1>6, <1>7, <1>8, Zenon DEF ConfirmedHeader, HeaderOf

\* What cannot be read stays unread.
LEMMA ThenNeeds ==
    ASSUME NEW r, NEW param, Then(r, param).ok
    PROVE  r.ok /\ ReadParam(r.rest, param, r.value).ok
<1>1. Unread.ok = FALSE
  BY DEF Unread
<1>2. CASE ~r.ok
  BY <1>1, <1>2, Zenon DEF Then
<1>3. CASE r.ok /\ ~ReadParam(r.rest, param, r.value).ok
  BY <1>1, <1>3, Zenon DEF Then
<1>. QED BY <1>2, <1>3

\* A parameter that can be read leaves what was read before.
LEMMA ThenKeeps ==
    ASSUME NEW r, IsSequence(r.value), NEW param, Then(r, param).ok
    PROVE  IsRead(Then(r, param), r.value, ReadParam(r.rest, param, r.value).value,
                  ReadParam(r.rest, param, r.value).rest)
<1> DEFINE next == ReadParam(r.rest, param, r.value)
           seen == r.value
           v == next.value
           t == Append(seen, v)
           q == Then(r, param)
<1>1. r.ok /\ next.ok
  BY ThenNeeds
<1>2. q = Read(t, next.rest)
  BY <1>1, Zenon DEF Then
<1>a. IsAppended(t, seen, v)
  BY Appended
<1> HIDE DEF t
<1>3. IsSequence(t) /\ Len(t) = Len(seen) + 1 /\ t[Len(seen) + 1] = v /\ \A i \in 1..Len(seen) : t[i] = seen[i]
  BY <1>a DEF IsAppended
<1> HIDE DEF q, next
<1>4. q.ok /\ q.value = t /\ q.rest = next.rest
  BY <1>2, ReadSays, Zenon
<1>5. IsRead(q, seen, v, next.rest)
  BY <1>3, <1>4, Zenon DEF IsRead
<1>. QED BY <1>5 DEF q, next

\* A request to write, as sendWriteProperty builds it.
IsWrite(d, n, request, value, priority) ==
    /\ request \in Asked /\ value \in Values /\ priority \in -1..255
    /\ d = BuildWriteRequest(544, n, request, value, priority) /\ d # <<>>

\* A WriteProperty request that the server hears says the invoke id, the
\* object, the property and the index it was built from, and the value,
\* unless it is for a list or a text without room.
LEMMA WriteRead ==
    ASSUME NEW request, NEW value, NEW priority, NEW n, NEW d, IsWrite(d, n, request, value, priority),
           ParseWriteRequest(d) # Unheard
    PROVE  /\ ParseWriteRequest(d).invoke = n /\ ParseWriteRequest(d).request = request
           /\ request.property \notin {ObjectListId, PropertyListId, DeviceAddressBindingId} =>
                  /\ ParseWriteRequest(d).value[1] = value[1]
                  /\ HasRoom(value) => ParseWriteRequest(d).value = value
<1> DEFINE object == request.object
           property == request.property
           index == request.index
           a == ContextObject(0, object)
           b == ContextUnsigned(1, property)
           c == OptionalIndex(2, index)
           o == Opening(3)
           e == Encode(value)
           g == Closing(3)
           p == IF priority \in {NoPriority, 0} THEN <<>> ELSE ContextUnsigned(4, priority)
           rest6 == p
           rest5 == g \o p
           rest4 == e \o rest5
           rest3 == o \o rest4
           rest2 == c \o rest3
           rest1 == b \o rest2
           rest0 == a \o rest1
           header == HeaderOf(n, WriteProperty, rest0)
           params == <<ObjectParam(0), Param(1), Optional(2, NoIndex), Octet(62), ValueOf(2), Octet(63),
                       AtEnd(4, NoPriority)>>
<1>0. /\ request \in Asked /\ value \in Values /\ priority \in -1..255
      /\ d = BuildWriteRequest(544, n, request, value, priority) /\ d # <<>>
  BY Zenon DEF IsWrite
<1>1. object \in ObjectIds /\ property \in Int32 /\ index \in Int32 /\ e # <<>>
      /\ d = ConfirmedRequest(n, WriteProperty, a \o b \o c \o o \o e \o g \o p)
  <2>1. ~(\/ ~IsInstance(request.object.instance) \/ request.object.type > 1023
          \/ priority > 16 \/ (priority = 0 /\ request.property = PresentValueId)
          \/ Encode(value) = <<>>)
    BY <1>0, Zenon DEF BuildWriteRequest
  <2>2. d = Limited(544, 24, ConfirmedRequest(n, WriteProperty, a \o b \o c \o o \o e \o g \o p))
    BY <1>0, <2>1, ZenonT(60) DEF BuildWriteRequest
  <2>3. object.type \in 0..1023 /\ object.instance \in Instances /\ property \in Int32 /\ index \in Int32
    BY <1>0, <2>1 DEF Asked, IsInstance
  <2>4. object \in ObjectIds
    BY <1>0, <2>3 DEF Asked, ObjectIds
  <2>. QED BY <1>0, <2>1, <2>2, <2>3, <2>4, ZenonT(60) DEF Limited
<1>2. /\ IsSequence(a) /\ IsSequence(b) /\ IsSequence(c) /\ IsSequence(o) /\ IsSequence(e) /\ IsSequence(g)
      /\ IsSequence(p)
  <2>1. IsSequence(e)
    BY <1>0, ValueIsNoList, EncodedIsSequence
  <2>. QED BY <2>1, ParametersAreSequences, TupleIsSequence
<1> HIDE DEF a, b, c, o, e, g, p
<1>3. /\ IsSequence(rest5) /\ IsSequence(rest4) /\ IsSequence(rest3) /\ IsSequence(rest2) /\ IsSequence(rest1)
      /\ a \o b \o c \o o \o e \o g \o p = rest0
  <2>1. SevenRegroup(a, b, c, o, e, g, p)
    BY <1>2, SevenJoin
  <2>. QED BY <2>1, Zenon DEF SevenRegroup
<1> HIDE DEF rest1, rest2, rest3, rest4, rest5
<1>4. IsSequence(rest0)
  BY <1>2, <1>3, SequencesJoin
<1> HIDE DEF rest0
<1>5. ConfirmedHeader(d) = header
  <2>1. IsConfirmed(d, n, WriteProperty, rest0)
    BY <1>1, <1>3, <1>4, Zenon DEF IsConfirmed
  <2>. QED BY <2>1, ConfirmedRead
<1>6. header.status = "Confirmed" /\ header.invoke = n /\ header.service = WriteProperty /\ header.rest = rest0
  BY HeaderSays
<1> HIDE DEF header
<1>7. ParseWriteRequest(d) = WriteRequestIn(header)
  <2>1. IsRequest(d, {WriteProperty})
    BY <1>5, <1>6, Zenon DEF IsRequest
  <2>. QED BY <1>5, <2>1, Zenon DEF ParseWriteRequest
<1> DEFINE r == ReadParams(rest0, params)
           v == r.value
           w == [heard |-> "WriteProperty", invoke |-> n,
                 request |-> [object |-> v[1], property |-> v[2], index |-> v[3]],
                 value |-> v[5], priority |-> v[7]]
<1>8. r.ok /\ WriteRequestIn(header) = w
  <2>1. WriteRequestIn(header) # Unheard
    BY <1>7
  <2>2. Unread.ok = FALSE
    BY DEF Unread
  <2> HIDE DEF r
  <2>3. WriteRequestIn(header) = IF r.ok /\ v[7] \in {NoPriority} \union 0..255 /\ r.rest = <<>> THEN w ELSE Unheard
    <3>1. CASE r.ok /\ v[7] \in {NoPriority} \union 0..255
      BY <1>6, <3>1, Zenon DEF WriteRequestIn, Heard, Where, r
    <3>2. CASE ~(r.ok /\ v[7] \in {NoPriority} \union 0..255)
      BY <1>6, <2>2, <3>2, Zenon DEF WriteRequestIn, Heard, Where, r
    <3>. QED BY <3>1, <3>2
  <2>. QED BY <2>1, <2>3
<1>9. /\ Len(params) = 7 /\ params[1] = ObjectParam(0) /\ params[2] = Param(1)
      /\ params[3] = Optional(2, NoIndex) /\ params[4] = Octet(62) /\ params[5] = ValueOf(2)
  OBVIOUS
<1> HIDE DEF params
<1>10. PICK f : /\ f[0] = Read(<<>>, rest0)
                /\ \A k \in 1..Len(params) : f[k] = Then(f[k - 1], params[k])
                /\ r = f[Len(params)]
  <2>1. Len(params) \in Nat
    BY <1>9
  <2>2. \E f : /\ f[0] = Read(<<>>, rest0)
               /\ \A k \in 1..Len(params) : f[k] = Then(f[k - 1], params[k])
               /\ ReadParams(rest0, params) = f[Len(params)]
    BY <2>1, ParamsRead
  <2>. QED BY <2>2, Zenon
<1>11. /\ f[1] = Then(f[0], params[1]) /\ f[2] = Then(f[1], params[2]) /\ f[3] = Then(f[2], params[3])
       /\ f[4] = Then(f[3], params[4]) /\ f[5] = Then(f[4], params[5]) /\ f[6] = Then(f[5], params[6])
       /\ f[7] = Then(f[6], params[7]) /\ r = f[7]
  BY <1>9, <1>10
<1>12. f[0].ok /\ f[0].value = <<>> /\ f[0].rest = rest0 /\ IsSequence(f[0].value) /\ Len(f[0].value) = 0
  BY <1>10, ReadSays, TupleIsSequence
<1> HIDE DEF r
<1>13. IsRead(f[1], f[0].value, object, rest1)
  <2>1. ReadObject(rest0, 0) = Read(object, rest1)
    <3>1. 0 \in 0..15
      OBVIOUS
    <3>. QED BY <1>1, <1>3, <3>1, ContextObjectRead DEF a, rest0
  <2>2. Reads(f[0].rest, params[1], f[0].value, object, rest1)
    BY <1>9, <1>12, <2>1, ParamsReadAs
  <2>. QED BY <1>11, <1>12, <2>2, ThenRead
<1>14. f[1].ok /\ f[1].rest = rest1 /\ IsSequence(f[1].value) /\ Len(f[1].value) = 1 /\ f[1].value[1] = object
  BY <1>12, <1>13 DEF IsRead
<1>15. IsRead(f[2], f[1].value, property, rest2)
  <2>1. ReadContext(rest1, 1) = Read(property, rest2)
    <3>1. 1 \in 0..15
      OBVIOUS
    <3>. QED BY <1>1, <1>3, <3>1, ContextRead DEF b, rest1
  <2>2. Reads(f[1].rest, params[2], f[1].value, property, rest2)
    BY <1>9, <1>14, <2>1, ParamsReadAs
  <2>. QED BY <1>11, <1>14, <2>2, ThenRead
<1>16. /\ f[2].ok /\ f[2].rest = rest2 /\ IsSequence(f[2].value) /\ Len(f[2].value) = 2
       /\ f[2].value[1] = object /\ f[2].value[2] = property
  BY <1>14, <1>15 DEF IsRead
<1>17. IsRead(f[3], f[2].value, index, rest3)
  <2>1. ReadOptional(rest2, 2, NoIndex) = Read(index, rest3)
    <3>1. 2 \in 0..15 /\ TagOf(62) # 2
      BY DEF TagOf
    <3>2. rest3 = <<62>> \o rest4
      BY DEF o, Opening, rest3
    <3>3. TagOf(rest3[1]) # 2
      <4> DEFINE s == <<62>>
      <4>1. IsSequence(s) /\ Len(s) = 1 /\ s[1] = 62
        BY TupleIsSequence
      <4> HIDE DEF s
      <4>2. \A i \in 1..Len(s) : (s \o rest4)[i] = s[i]
        <5>1. IsSequence(s) /\ IsSequence(rest4)
          BY <1>3, <4>1
        <5>. QED BY <5>1, SequencesJoin
      <4>. QED BY <3>1, <3>2, <4>1, <4>2 DEF s
    <3>. QED BY <1>1, <1>3, <3>1, <3>3, OptionalRead DEF c, rest2
  <2>2. Reads(f[2].rest, params[3], f[2].value, index, rest3)
    BY <1>9, <1>16, <2>1, ParamsReadAs
  <2>. QED BY <1>11, <1>16, <2>2, ThenRead
<1>18. /\ f[3].ok /\ f[3].rest = rest3 /\ IsSequence(f[3].value) /\ Len(f[3].value) = 3
       /\ f[3].value[1] = object /\ f[3].value[2] = property /\ f[3].value[3] = index
  BY <1>16, <1>17 DEF IsRead
<1>19. IsRead(f[4], f[3].value, 62, rest4)
  <2>1. ReadOctet(rest3, 62) = Read(62, rest4)
    <3>2. rest3 = <<62>> \o rest4
      BY DEF o, Opening, rest3
    <3>. QED BY <1>3, <3>2, OctetRead
  <2>2. Reads(f[3].rest, params[4], f[3].value, 62, rest4)
    BY <1>9, <1>18, <2>1, ParamsReadAs
  <2>3. f[3].ok /\ IsSequence(f[3].value)
    BY <1>18
  <2> DEFINE u == 62
  <2>4. Reads(f[3].rest, params[4], f[3].value, u, rest4)
    BY <2>2
  <2> HIDE DEF u
  <2>5. IsRead(Then(f[3], params[4]), f[3].value, u, rest4)
    BY <2>3, <2>4, ThenRead
  <2>. QED BY <1>11, <2>5, Zenon DEF u
<1>20. /\ f[4].ok /\ f[4].rest = rest4 /\ IsSequence(f[4].value) /\ Len(f[4].value) = 4
       /\ f[4].value[1] = object /\ f[4].value[2] = property /\ f[4].value[3] = index
  BY <1>18, <1>19 DEF IsRead
<1>21. f[7].ok /\ f[6].ok /\ f[5].ok
  <2>1. f[7].ok
    BY <1>8, <1>11
  <2>2. f[6].ok
    BY <1>11, <2>1, ThenNeeds
  <2>. QED BY <1>11, <2>1, <2>2, ThenNeeds
<1> DEFINE heard == ReadValue(rest4, property, index).value
<1>22. /\ IsSequence(f[5].value) /\ Len(f[5].value) = 5
       /\ f[5].value[1] = object /\ f[5].value[2] = property /\ f[5].value[3] = index
       /\ f[5].value[5] = heard
  <2> DEFINE q == ReadParam(f[4].rest, params[5], f[4].value)
  <2>1. q.value = heard
    <3>1. \A os, at, seen : ReadParam(os, ValueOf(at), seen) = ReadValue(os, seen[at], seen[at + 1])
      BY ParamReads
    <3>4. ReadParam(rest4, ValueOf(2), f[4].value) = ReadValue(rest4, f[4].value[2], f[4].value[2 + 1])
      BY <3>1
    <3>5. q = ReadParam(rest4, ValueOf(2), f[4].value)
      BY <1>9, <1>20, Zenon
    <3>2. q = ReadValue(rest4, f[4].value[2], f[4].value[2 + 1])
      BY <3>4, <3>5
    <3>3. 2 + 1 = 3
      OBVIOUS
    <3>. QED BY <1>20, <3>2, <3>3
  <2>2. IsRead(Then(f[4], params[5]), f[4].value, q.value, q.rest)
    BY <1>11, <1>20, <1>21, ThenKeeps
  <2> HIDE DEF q, heard
  <2>3. IsRead(f[5], f[4].value, heard, q.rest)
    BY <1>11, <2>1, <2>2, Zenon
  <2>. QED BY <1>20, <2>3 DEF IsRead
<1>23. /\ IsSequence(f[6].value) /\ Len(f[6].value) = 6
       /\ f[6].value[1] = object /\ f[6].value[2] = property /\ f[6].value[3] = index
       /\ f[6].value[5] = heard
  <2> DEFINE q == ReadParam(f[5].rest, params[6], f[5].value)
  <2> HIDE DEF heard
  <2>1. IsRead(Then(f[5], params[6]), f[5].value, q.value, q.rest)
    BY <1>11, <1>22, <1>21, ThenKeeps
  <2> HIDE DEF q
  <2>2. IsRead(f[6], f[5].value, q.value, q.rest)
    BY <1>11, <2>1, Zenon
  <2>. QED BY <1>22, <2>2 DEF IsRead
<1>24. f[7].value[1] = object /\ f[7].value[2] = property /\ f[7].value[3] = index /\ f[7].value[5] = heard
  <2> DEFINE q == ReadParam(f[6].rest, params[7], f[6].value)
  <2> HIDE DEF heard
  <2>1. IsRead(Then(f[6], params[7]), f[6].value, q.value, q.rest)
    BY <1>11, <1>23, <1>21, ThenKeeps
  <2> HIDE DEF q
  <2>2. IsRead(f[7], f[6].value, q.value, q.rest)
    BY <1>11, <2>1, Zenon
  <2>. QED BY <1>23, <2>2 DEF IsRead
<1>25. v[1] = object /\ v[2] = property /\ v[3] = index /\ v[5] = heard
  BY <1>11, <1>24, Zenon
<1>26. w.invoke = n /\ w.request = request /\ w.value = heard
  <2> HIDE DEF heard, v
  <2>1. w.request = [object |-> object, property |-> property, index |-> index]
    BY <1>25
  <2>2. [object |-> object, property |-> property, index |-> index] = request
    BY <1>0 DEF Asked
  <2>. QED BY <1>25, <2>1, <2>2
<1>27. property \notin {ObjectListId, PropertyListId, DeviceAddressBindingId} =>
           heard[1] = value[1] /\ (HasRoom(value) => heard = value)
  <2>. SUFFICES ASSUME property \notin {ObjectListId, PropertyListId, DeviceAddressBindingId}
                PROVE  heard[1] = value[1] /\ (HasRoom(value) => heard = value)
    OBVIOUS
  <2>1. rest4 # <<>>
    <3>1. Len(e) >= 1 /\ Len(e) \in Nat
      BY <1>0, <1>1, EncodedFirst DEF e
    <3>2. Len(rest5) \in Nat
      BY <1>3, SequenceLength
    <3>3. Len(rest4) = Len(e) + Len(rest5)
      BY <1>2, <1>3, SequencesJoin DEF rest4
    <3>4. Len(rest4) # 0
      BY <3>1, <3>2, <3>3
    <3>. QED BY <3>4
  <2>2. ReadValue(rest4, property, index) = ReadScalar(rest4)
    <3>1. property # ObjectListId /\ property # PropertyListId /\ property # DeviceAddressBindingId
      OBVIOUS
    <3>. QED BY <2>1, <3>1, Zenon DEF ReadValue
  <2>3. IsValueIn(rest4, value, rest5)
    <3>. QED BY <1>0, <1>1, <1>3, Zenon DEF IsValueIn, e, rest4
  <2>4. ReadScalar(rest4).value[1] = value[1] /\ (HasRoom(value) => ReadScalar(rest4) = Read(value, rest5))
    BY <2>3, ValueRead
  <2>5. heard = ReadScalar(rest4).value
    BY <2>2, Zenon
  <2>6. HasRoom(value) => heard = value
    <3>1. Read(value, rest5).value = value
      BY ReadSays
    <3>. QED BY <2>4, <2>5, <3>1, ZenonT(40)
  <2>. QED BY <2>4, <2>5, <2>6, Zenon
<1>28. ParseWriteRequest(d) = w
  BY <1>7, <1>8, Zenon
<1> HIDE DEF w, heard
<1>. QED BY <1>26, <1>27, <1>28

-----------------------------------------------------------------------------
\* What the server hears.

\* The service by which a request is asked.
ServiceOf(request) ==
    CASE request.kind = "Read" -> ReadProperty
      [] request.kind = "Write" -> WriteProperty
      [] request.kind = "Subscribe" ->
            IF request.subscription.ofProperty THEN SubscribeCovProperty ELSE SubscribeCov
      [] OTHER -> request.service

\* Every request but a Who-Is is a confirmed request of its service and its
\* number.
LEMMA RequestedIsConfirmed ==
    ASSUME NEW request, NEW n, request.kind \in {"Read", "Write", "Subscribe", "Other"},
           request.kind = "Write" => IsSendable(request.value), Requested(request, n) # <<>>
    PROVE  \E parameters : IsConfirmed(Requested(request, n), n, ServiceOf(request), parameters)
<1>1. CASE request.kind = "Read"
  <2> DEFINE parameters == ContextObject(0, request.request.object) \o ContextUnsigned(1, request.request.property)
                           \o OptionalIndex(2, request.request.index)
  <2>1. IsSequence(parameters)
    BY ParametersAreSequences, SequencesJoin
  <2>2. Requested(request, n) = BuildReadRequest(25, n, request.request) /\ ServiceOf(request) = ReadProperty
    BY <1>1 DEF Requested, ServiceOf
  <2>3. BuildReadRequest(25, n, request.request) # <<>> =>
            BuildReadRequest(25, n, request.request) = ConfirmedRequest(n, ReadProperty, parameters)
    BY DEF BuildReadRequest, Limited
  <2> HIDE DEF parameters
  <2>4. IsConfirmed(Requested(request, n), n, ServiceOf(request), parameters)
    BY <2>1, <2>2, <2>3, Zenon DEF IsConfirmed
  <2>. QED BY <2>4
<1>2. CASE request.kind = "Write"
  <2> DEFINE r == request.request
             e == Encode(request.value)
             p == IF request.priority \in {NoPriority, 0} THEN <<>> ELSE ContextUnsigned(4, request.priority)
             parameters == ContextObject(0, r.object) \o ContextUnsigned(1, r.property)
                           \o OptionalIndex(2, r.index) \o Opening(3) \o e \o Closing(3) \o p
             d == BuildWriteRequest(544, n, r, request.value, request.priority)
  <2>1. IsSequence(e) /\ IsSequence(p)
    BY <1>2, EncodedIsSequence, ParametersAreSequences, TupleIsSequence
  <2>2. Requested(request, n) = d /\ ServiceOf(request) = WriteProperty
    BY <1>2 DEF Requested, ServiceOf
  <2>3. d # <<>> => d = ConfirmedRequest(n, WriteProperty, parameters)
    BY DEF BuildWriteRequest, Limited
  <2>4. IsSequence(parameters)
    <3> HIDE DEF e, p
    <3>. QED BY <2>1, ParametersAreSequences, SequencesJoin
  <2> HIDE DEF parameters, d
  <2>5. IsConfirmed(Requested(request, n), n, ServiceOf(request), parameters)
    BY <2>2, <2>3, <2>4, Zenon DEF IsConfirmed
  <2>. QED BY <2>5
<1>3. CASE request.kind = "Subscribe" /\ ~request.subscription.ofProperty
  <2> DEFINE s == request.subscription
             parameters == ContextUnsigned(0, s.processId) \o ContextObject(1, s.object)
                           \o ContextBoolean(2, s.confirmed) \o ContextUnsigned(3, s.lifetime)
             d == BuildSubscribeCov(40, n, s)
  <2>1. IsSequence(parameters)
    BY ParametersAreSequences, SequencesJoin
  <2>2. Requested(request, n) = d /\ ServiceOf(request) = SubscribeCov
    BY <1>3 DEF Requested, ServiceOf
  <2>3. d # <<>> => d = ConfirmedRequest(n, SubscribeCov, parameters)
    BY DEF BuildSubscribeCov, Limited
  <2> HIDE DEF parameters, d
  <2>4. IsConfirmed(Requested(request, n), n, ServiceOf(request), parameters)
    BY <2>1, <2>2, <2>3, Zenon DEF IsConfirmed
  <2>. QED BY <2>4
<1>4. CASE request.kind = "Subscribe" /\ request.subscription.ofProperty
  <2> DEFINE s == request.subscription
             p == IF s.increment = Null THEN <<>> ELSE Context(5, Octets(s.increment[2], 4))
             parameters == ContextUnsigned(0, s.processId) \o ContextObject(1, s.object)
                           \o Opening(2) \o ContextUnsigned(0, s.property) \o OptionalIndex(1, s.index)
                           \o Closing(2) \o ContextBoolean(3, s.confirmed) \o ContextUnsigned(4, s.lifetime) \o p
             d == BuildSubscribeCovProperty(40, n, s)
  <2>0. IsSequence(p)
    BY ParametersAreSequences, TupleIsSequence
  <2>2. Requested(request, n) = d /\ ServiceOf(request) = SubscribeCovProperty
    BY <1>4 DEF Requested, ServiceOf
  <2>3. d # <<>> => d = ConfirmedRequest(n, SubscribeCovProperty, parameters)
    BY DEF BuildSubscribeCovProperty, Limited
  <2>1. IsSequence(parameters)
    <3> HIDE DEF p
    <3>. QED BY <2>0, ParametersAreSequences, SequencesJoin
  <2> HIDE DEF parameters, d
  <2>4. IsConfirmed(Requested(request, n), n, ServiceOf(request), parameters)
    BY <2>1, <2>2, <2>3, Zenon DEF IsConfirmed
  <2>. QED BY <2>4
<1>5. CASE request.kind = "Other"
  <2>1. Requested(request, n) = ConfirmedRequest(n, request.service, <<>>) /\ ServiceOf(request) = request.service
    BY <1>5 DEF Requested, ServiceOf
  <2>2. IsConfirmed(Requested(request, n), n, ServiceOf(request), <<>>)
    BY <2>1, TupleIsSequence, Zenon DEF IsConfirmed
  <2>. QED BY <2>2
<1>. QED BY <1>1, <1>2, <1>3, <1>4, <1>5

\* What is no confirmed request is not taken for one.
LEMMA OthersAreNoRequests ==
    ASSUME NEW d, NEW function, NEW control, NEW apdu, IsDatagram(d, function, control, apdu),
           apdu # <<>>, Pdu(apdu) # Confirmed
    PROVE  ConfirmedHeader(d).status # "Confirmed"
<1>1. Carries(d, function, apdu)
  BY DatagramRead
<1>2. Apdu(d, {Unicast}, 4) \in {apdu, <<>>}
  <2>1. 4 \in Nat
    OBVIOUS
  <2>. QED BY <1>1, <2>1 DEF Carries
<1>3. CASE Apdu(d, {Unicast}, 4) = apdu
  <2>1. ConfirmedHeader(d) = [status |-> "Unrelated"]
    BY <1>3, Zenon DEF ConfirmedHeader
  <2>. QED BY <2>1
<1>4. CASE Apdu(d, {Unicast}, 4) = <<>>
  <2>1. ConfirmedHeader(d) = [status |-> "Malformed"]
    BY <1>4, Zenon DEF ConfirmedHeader
  <2>. QED BY <2>1
<1>. QED BY <1>2, <1>3, <1>4

\* A Who-Is is no confirmed request.
LEMMA WhoIsIsNoRequest ==
    BuildWhoIs(8) # <<>> => ConfirmedHeader(BuildWhoIs(8)).status # "Confirmed"
<1> DEFINE apdu == <<16 * Unconfirmed, WhoIs>>
<1>1. apdu # <<>> /\ Pdu(apdu) # Confirmed /\ IsSequence(apdu)
  <2>1. 16 \div 16 = 1
    OBVIOUS
  <2>. QED BY <2>1, TupleIsSequence DEF Pdu, Confirmed, Unconfirmed
<1>2. BuildWhoIs(8) # <<>> => BuildWhoIs(8) = Datagram(Broadcast, 0, apdu)
  BY DEF BuildWhoIs, Limited
<1> HIDE DEF apdu
<1>3. BuildWhoIs(8) # <<>> => IsDatagram(BuildWhoIs(8), Broadcast, 0, apdu)
  BY <1>1, <1>2 DEF IsDatagram
<1>. QED BY <1>1, <1>3, OthersAreNoRequests

\* The answers are datagrams of their kinds.
LEMMA AnswerIsDatagram ==
    ASSUME NEW pdu \in 0..15, NEW invoke, NEW octets, IsSequence(octets)
    PROVE  LET apdu == <<16 * pdu, invoke>> \o octets IN
           /\ IsDatagram(Answer(pdu, invoke, octets), Unicast, 0, apdu)
           /\ apdu # <<>> /\ Pdu(apdu) = pdu /\ apdu[2] = invoke /\ Len(apdu) = 2 + Len(octets)
           /\ From(apdu, 3) = octets
<1> DEFINE head == <<16 * pdu, invoke>>
           apdu == head \o octets
<1>1. IsSequence(head) /\ Len(head) = 2 /\ head[1] = 16 * pdu /\ head[2] = invoke
  BY TupleIsSequence
<1>2. Answer(pdu, invoke, octets) = Datagram(Unicast, 0, apdu)
  BY DEF Answer
<1> HIDE DEF head
<1>a. IsHeadOf(head, octets)
  BY <1>1, HeadIsRead
<1>3. IsSequence(apdu) /\ Len(apdu) = Len(head) + Len(octets) /\ \A i \in 1..Len(head) : apdu[i] = head[i]
  BY <1>a DEF IsHeadOf
<1>4. From(apdu, Len(head) + 1) = octets
  BY <1>1, SequencesPart
<1>5. Len(octets) \in Nat
  BY SequenceLength
<1> HIDE DEF apdu
<1>6. Pdu(apdu) = pdu /\ apdu[2] = invoke /\ Len(apdu) = 2 + Len(octets) /\ From(apdu, 3) = octets
  <2>1. (16 * pdu) \div 16 = pdu
    OBVIOUS
  <2>. QED BY <1>1, <1>3, <1>4, <2>1 DEF Pdu
<1>7. apdu # <<>>
  BY <1>5, <1>6
<1>8. IsDatagram(Answer(pdu, invoke, octets), Unicast, 0, apdu)
  BY <1>2, <1>3 DEF IsDatagram
<1>. QED BY <1>6, <1>7, <1>8 DEF apdu, head

\* An acknowledgement is no confirmed request.
LEMMA AcknowledgementIsNoRequest ==
    ASSUME NEW invoke, NEW service, NEW size, BuildSimpleAck(size, invoke, service) # <<>>
    PROVE  ConfirmedHeader(BuildSimpleAck(size, invoke, service)).status # "Confirmed"
<1> DEFINE octets == <<service>>
           apdu == <<16 * 2, invoke>> \o octets
           d == Answer(2, invoke, octets)
<1>1. IsSequence(octets) /\ 2 \in 0..15
  BY TupleIsSequence
<1>2. BuildSimpleAck(size, invoke, service) = d
  BY DEF BuildSimpleAck, Limited, SimpleAck
<1> HIDE DEF octets
<1>3. IsDatagram(d, Unicast, 0, apdu) /\ apdu # <<>> /\ Pdu(apdu) = 2
  BY <1>1, AnswerIsDatagram
<1> HIDE DEF d, apdu
<1>4. Pdu(apdu) # Confirmed
  BY <1>3 DEF Confirmed
<1>. QED BY <1>2, <1>3, <1>4, OthersAreNoRequests

-----------------------------------------------------------------------------
\* The invariant of the exchange.

\* A datagram on its way: whole, and to the server only a request that was
\* asked, under its number, or the acknowledgement of a notification.
IsSent(d, requests) ==
    /\ IsPlain(d.octets)
    /\ d.to = "Server" =>
          \/ /\ d.number \in 1..Len(requests)
             /\ d.octets = Requested(requests[d.number], d.number) /\ d.octets # <<>>
          \/ \E invoke : /\ d.octets = BuildSimpleAck(16, invoke, ConfirmedCovNotification)
                         /\ d.octets # <<>>
\* Only requests are asked.
AskedInv == asked \in Seq(Requests)
\* Every datagram on its way is one that was sent.
SentInv == \A d \in network : IsSent(d, asked)
\* The properties that are lists.
Lists == {ObjectListId, PropertyListId, DeviceAddressBindingId, PriorityArrayId}
\* The properties that a notification of a registration has.
Reported(subscription) ==
    IF subscription.ofProperty THEN {subscription.property} ELSE {PresentValueId, StatusFlagsId}
\* A point of the server that is no list.
IsReadable(object, property) == <<object, property>> \in Points /\ property \notin Lists
\* What a registration reports can be read: handleSubscribeCov checked it and
\* it stays so.
EntryInv ==
    entry # Inactive => \A property \in Reported(entry) : IsReadable(entry.object, property)
\* What the server keeps.
TableInv == HeldInv /\ SlotsInv /\ EntryInv
\* The inductive invariant of the exchange.
ExchangeInv == AskedInv /\ SentInv /\ TableInv

\* A datagram arrives whole, or as one that nothing is found in.
LEMMA ArrivedWhole ==
    ASSUME NEW d, IsPlain(d.octets), NEW size \in Nat
    PROVE  Arrived(d, size) = d.octets \/ HasNoApdu(Arrived(d, size))
<1> DEFINE os == d.octets
<1>1. IsSequence(os) /\ Len(os) \in Nat /\ Len(os) >= 6
  BY PlainIsSized
<1>2. CASE Len(os) < size
  <2>1. Arrived(d, size) = SubSeq(os, 1, Len(os))
    BY <1>2 DEF Arrived
  <2>2. SubSeq(os, 1, Len(os)) = os
    BY <1>1 DEF IsSequence
  <2>. QED BY <2>1, <2>2
<1>3. CASE ~(Len(os) < size)
  <2>1. Arrived(d, size) = SubSeq(os, 1, size)
    BY <1>3 DEF Arrived
  <2>2. CASE size = Len(os)
    <3>1. SubSeq(os, 1, Len(os)) = os
      BY <1>1 DEF IsSequence
    <3>. QED BY <2>1, <2>2, <3>1
  <2>3. CASE size \in 1..(Len(os) - 1)
    <3>1. HasNoApdu(SubSeq(os, 1, size))
      BY <2>3, CutHasNoApdu DEF HasNoApdu
    <3>. QED BY <2>1, <3>1
  <2>4. CASE size = 0
    <3>1. SubSeq(os, 1, 0) = <<>>
      BY <1>1 DEF IsSequence
    <3>2. HasNoApdu(<<>>)
      <4>1. ASSUME NEW functions, NEW least \in 4..20 PROVE Apdu(<<>>, functions, least) = <<>>
        <5>1. ~(Len(<<>>) >= least)
          OBVIOUS
        <5>. QED BY <5>1 DEF Apdu
      <4>. QED BY <4>1 DEF HasNoApdu
    <3>. QED BY <2>1, <2>4, <3>1, <3>2
  <2>. QED BY <1>1, <1>3, <2>2, <2>3, <2>4
<1>. QED BY <1>2, <1>3

\* A property that can be subscribed to is a value when it is read.
LEMMA ReadableIsValue ==
    ASSUME HeldInv, SlotsInv, NEW object, NEW property
    PROVE  /\ IsReadable(object, property) => Content(<<object, property>>) \in Values
           /\ CovReadable(object, property) => IsReadable(object, property)
<1> DEFINE point == <<object, property>>
<1>1. point[2] = property
  OBVIOUS
<1> HIDE DEF point
<1>2. point \in Points =>
          IF IsList(Content(point)) THEN IsListOf(point, Content(point)[2])
          ELSE Content(point) \in Values /\ property \notin Lists
  BY <1>1, ContentTyped DEF Lists
<1>3. \A entries : IsListOf(point, entries) => property \in Lists
  BY <1>1 DEF IsListOf, Lists
<1>4. CovReadable(object, property) => point \in Points /\ ~IsList(Content(point))
  BY DEF CovReadable, point
<1>5. IsReadable(object, property) <=> point \in Points /\ property \notin Lists
  BY DEF IsReadable, point
<1>. QED BY <1>2, <1>3, <1>4, <1>5 DEF point

\* A message has the octets, the number and the receiver it was given.
LEMMA MessageIsSent ==
    ASSUME NEW to, NEW number, NEW octets, NEW said, IsSound(octets),
           NEW d \in Message(to, number, octets, said)
    PROVE  /\ octets # <<>> /\ IsPlain(octets)
           /\ d.to = to /\ d.number = number /\ d.octets = octets /\ d.said = said
  BY DEF Message, IsSound

\* What is sound may go to the client.
LEMMA ServerSends ==
    ASSUME NEW number, NEW octets, NEW said, IsSound(octets), NEW requests,
           NEW d \in Message("Client", number, octets, said)
    PROVE  IsSent(d, requests)
<1>1. IsPlain(octets) /\ d.to = "Client" /\ d.octets = octets
  BY MessageIsSent
<1>. QED BY <1>1 DEF IsSent

\* The client acknowledges a notification with a datagram.
LEMMA AcknowledgementIsSent ==
    ASSUME NEW notification, NEW requests, NEW d \in Acknowledgement(notification)
    PROVE  IsSent(d, requests)
<1> DEFINE octets == BuildSimpleAck(16, notification.invoke, ConfirmedCovNotification)
           said == [heard |-> "NotificationAnswer", invoke |-> notification.invoke, kind |-> "Ack"]
<1>1. d \in Message("Server", 0, octets, said)
  BY DEF Acknowledgement
<1>2. IsSound(octets)
  BY ShortAnswersAreSound
<1> HIDE DEF said
<1>3. octets # <<>> /\ IsPlain(octets) /\ d.octets = octets
  BY <1>1, <1>2, MessageIsSent
<1>. QED BY <1>3 DEF IsSent

\* A step that leaves the tables leaves what is said of them.
LEMMA TablesStay ==
    ASSUME TableInv, UNCHANGED <<held, slots, entry>>
    PROVE  TableInv'
  BY DEF TableInv, HeldInv, SlotsInv, EntryInv, IsReadable, Points, Reported, Inactive, Lists

\* What the assumption says of the requests, by their kinds.
LEMMA SendableRequests ==
    ASSUME NEW request \in Requests
    PROVE  /\ request.kind = "Write" => IsSendable(request.value)
           /\ request.kind \in {"Discover", "Read", "Write", "Subscribe", "Other"}
           /\ request.kind = "Write" =>
                 request.request \in Asked /\ request.value \in Values /\ request.priority \in -1..255
           /\ request.kind = "Read" => request.request \in Asked
           /\ request.kind = "Subscribe" => request.subscription \in Subscriptions
           /\ request.kind = "Other" => request.service \in 0..255 \ Served
<1>1. IsRequestOfAClient(request)
  BY ExchangeAssumption
<1>2. /\ request.kind \in {"Discover", "Read", "Write", "Subscribe", "Other"}
      /\ request.kind = "Write" =>
            request.request \in Asked /\ request.value \in Values /\ request.priority \in -1..255
      /\ request.kind = "Read" => request.request \in Asked
      /\ request.kind = "Subscribe" => request.subscription \in Subscriptions
      /\ request.kind = "Other" => request.service \in 0..255 \ Served
  BY <1>1, SMT DEF IsRequestOfAClient
<1>3. request.kind = "Write" => IsSendable(request.value)
  BY <1>2, ValueIsNoList
<1>. QED BY <1>2, <1>3, Zenon

\* The invariant holds at first.
LEMMA InitExchange == Init => ExchangeInv
<1>. SUFFICES ASSUME Init PROVE ExchangeInv
  OBVIOUS
<1>1. asked = <<>> /\ network = {} /\ entry = Inactive /\ held = Contents /\ slots = [p \in 1..16 |-> Null]
  BY DEF Init
<1>2. AskedInv
  BY <1>1 DEF AskedInv
<1>3. SentInv
  BY <1>1 DEF SentInv
<1>4. HeldInv
  BY <1>1, ExchangeAssumption DEF HeldInv
<1>5. SlotsInv
  BY <1>1 DEF SlotsInv, Slot
<1>6. EntryInv
  BY <1>1 DEF EntryInv
<1>. QED BY <1>2, <1>3, <1>4, <1>5, <1>6 DEF ExchangeInv, TableInv

\* Steps that only send to the client, or nothing.
LEMMA AskedStays ==
    ASSUME ExchangeInv, UNCHANGED asked, NEW taken, NEW sent, Exchanged(taken, sent),
           \A d \in sent : IsSent(d, asked)
    PROVE  AskedInv' /\ SentInv'
<1>1. AskedInv'
  BY DEF ExchangeInv, AskedInv
<1>2. \A d \in network \union sent : IsSent(d, asked)
  BY DEF ExchangeInv, SentInv
<1>3. network' \subseteq network \union sent
  BY DEF Exchanged
<1>4. SentInv'
  BY <1>2, <1>3 DEF SentInv
<1>. QED BY <1>1, <1>4

\* The server's answers leave the network as the invariant says.
LEMMA Answered ==
    ASSUME ExchangeInv, UNCHANGED asked, NEW d, NEW taken, NEW reply, IsSound(reply.octets),
           Respond(d, taken, reply)
    PROVE  AskedInv' /\ SentInv'
<1> DEFINE said == [heard |-> "Answer", number |-> d.number,
                    request |-> asked[d.number], outcome |-> reply.outcome]
           sent == Message("Client", d.number, reply.octets, said)
<1>1. Exchanged(taken, sent)
  BY DEF Respond
<1> HIDE DEF said
<1>2. \A e \in sent : IsSent(e, asked)
  BY ServerSends
<1> HIDE DEF sent
<1>. QED BY <1>1, <1>2, AskedStays

\* Refusals and acknowledgements are sound.
LEMMA ErrorReplies ==
    \A invoke, service, class, code : IsSound(ReplyError(invoke, service, class, code).octets)
                                      /\ IsSound(ReplyAck(invoke, service).octets)
  BY ShortAnswersAreSound DEF ReplyError, ReplyAck, Reply

\* The client asks: the datagram is the request of the next number.
LEMMA AskKeeps ==
    ASSUME ExchangeInv, NEW request \in Requests, Ask(request)
    PROVE  ExchangeInv'
<1> DEFINE n == Len(asked) + 1
           octets == Requested(request, n)
           sent == Message("Server", n, octets, RequestMeant(request, n))
<1>1. /\ octets # <<>> /\ asked' = Append(asked, request) /\ UNCHANGED <<held, slots, entry>>
      /\ Exchanged({}, sent)
  BY DEF Ask, serverVars
<1>2. TableInv'
  BY <1>1, TablesStay DEF ExchangeInv
<1>3. AskedInv'
  BY <1>1 DEF ExchangeInv, AskedInv
<1>4. Len(asked) \in Nat /\ Len(asked') = n /\ asked'[n] = request /\ \A k \in 1..Len(asked) : asked'[k] = asked[k]
  BY <1>1 DEF ExchangeInv, AskedInv
<1>5. \A d \in network : IsSent(d, asked')
  <2> SUFFICES ASSUME NEW d \in network PROVE IsSent(d, asked')
    OBVIOUS
  <2>1. IsSent(d, asked)
    BY DEF ExchangeInv, SentInv
  <2>2. d.number \in 1..Len(asked) => d.number \in 1..Len(asked') /\ asked'[d.number] = asked[d.number]
    BY <1>4
  <2>. QED BY <2>1, <2>2 DEF IsSent
<1>6. \A d \in sent : IsSent(d, asked')
  <2> SUFFICES ASSUME NEW d \in sent PROVE IsSent(d, asked')
    OBVIOUS
  <2>1. IsSound(octets)
    BY SendableRequests, RequestedIsSound
  <2> DEFINE said == RequestMeant(request, n)
  <2> HIDE DEF octets, said
  <2>2. IsPlain(octets) /\ d.number = n /\ d.octets = octets /\ octets # <<>>
    BY <2>1, MessageIsSent DEF said
  <2>3. n \in 1..Len(asked') /\ octets = Requested(asked'[n], n)
    BY <1>4 DEF octets
  <2> HIDE DEF n
  <2>. QED BY <2>2, <2>3 DEF IsSent
<1>7. network' \subseteq network \union sent
  BY <1>1 DEF Exchanged
<1>8. SentInv'
  BY <1>5, <1>6, <1>7 DEF SentInv
<1>. QED BY <1>2, <1>3, <1>8 DEF ExchangeInv

\* What a notification does to the variables.
Notifies(octets, invoke, said) ==
    /\ IsNotificationOf(octets, invoke)
    /\ Exchanged({}, Message("Client", 0, octets, said))
    /\ UNCHANGED <<held, slots, entry, asked, pending, queued, concluded, answered>>

\* processCovSubscriptions sends a notification and nothing else.
LEMMA NotifySends ==
    ASSUME ExchangeInv, Notify
    PROVE  \E octets, invoke, said : Notifies(octets, invoke, said)
<1> DEFINE notification ==
               [processId |-> entry.processId, device |-> Device.instance, object |-> entry.object,
                remaining |-> entry.lifetime, confirmed |-> entry.confirmed, values |-> CovValues]
           invoke == IF entry.confirmed THEN notices + 1 ELSE 0
           octets == BuildCovNotification(ServerBuffer, invoke, notification)
           said == [heard |-> "Notification", confirmed |-> entry.confirmed, invoke |-> invoke,
                    processId |-> entry.processId, object |-> entry.object,
                    main |-> CovValues[1], values |-> CovValues]
           sent == Message("Client", 0, octets, said)
<1>1. /\ entry # Inactive /\ Exchanged({}, sent)
      /\ UNCHANGED <<held, slots, entry, asked, pending, queued, concluded, answered>>
  BY DEF Notify, clientVars
<1>3. \A property \in Reported(entry) : Content(<<entry.object, property>>) \in Values
  BY <1>1, ReadableIsValue DEF ExchangeInv, TableInv, EntryInv
<1>4. /\ Len(CovValues) \in Nat /\ DOMAIN CovValues = 1..Len(CovValues)
      /\ \A i \in 1..Len(CovValues) : IsSendable(CovValues[i].value)
  <2> DEFINE value(property) ==
                 [property |-> property, index |-> entry.index, value |-> Content(<<entry.object, property>>)]
  <2>1. \A property \in Reported(entry) : IsSendable(value(property).value)
    <3>1. \A v \in Values : IsSendable(v)
      BY ValueIsNoList
    <3>. QED BY <1>3, <3>1
  <2> HIDE DEF value
  <2>2. CASE entry.ofProperty
    <3>1. CovValues = <<value(entry.property)>> /\ entry.property \in Reported(entry)
      BY <2>2, Zenon DEF CovValues, value, Reported
    <3>. QED BY <2>1, <3>1
  <2>3. CASE ~entry.ofProperty
    <3>1. /\ CovValues = <<value(PresentValueId), value(StatusFlagsId)>>
          /\ PresentValueId \in Reported(entry) /\ StatusFlagsId \in Reported(entry)
      BY <2>3, Zenon DEF CovValues, value, Reported
    <3> DEFINE a == value(PresentValueId)
               b == value(StatusFlagsId)
    <3>2. IsSendable(a.value) /\ IsSendable(b.value)
      BY <2>1, <3>1
    <3> HIDE DEF a, b
    <3>3. CovValues = <<a, b>>
      BY <3>1 DEF a, b
    <3>. QED BY <3>2, <3>3
  <2>. QED BY <2>2, <2>3
<1>5. IsNotificationOf(octets, invoke)
  <2>1. notification.values = CovValues
    OBVIOUS
  <2> HIDE DEF notification, invoke
  <2>. QED BY <1>4, <2>1, NotificationBuilt
<1> HIDE DEF octets, said, invoke
<1>. QED BY <1>1, <1>5, Zenon DEF Notifies

\* A notification keeps the invariant.
LEMMA NotifyKeeps ==
    ASSUME ExchangeInv, Notify
    PROVE  ExchangeInv'
<1>1. PICK octets, invoke, said : Notifies(octets, invoke, said)
  BY NotifySends
<1> DEFINE sent == Message("Client", 0, octets, said)
<1>2. IsSound(octets) /\ Exchanged({}, sent) /\ UNCHANGED <<held, slots, entry, asked>>
  BY <1>1, NotificationIsSound DEF Notifies
<1>3. TableInv'
  BY <1>2, TablesStay DEF ExchangeInv
<1>4. \A d \in sent : IsSent(d, asked)
  BY <1>2, ServerSends
<1> HIDE DEF sent
<1>5. AskedInv' /\ SentInv'
  BY <1>2, <1>4, AskedStays
<1>. QED BY <1>3, <1>5 DEF ExchangeInv

\* The application changes a property: its content stays one of its kind.
LEMMA ChangeKeeps ==
    ASSUME ExchangeInv, NEW change \in Changes, ChangeContent(change)
    PROVE  ExchangeInv'
<1>1. held' = [held EXCEPT ![change.point] = change.content] /\ UNCHANGED <<slots, entry, asked, network>>
  BY DEF ChangeContent, clientVars
<1>2. AskedInv' /\ SentInv'
  BY <1>1 DEF ExchangeInv, AskedInv, SentInv
<1>3. HeldInv'
  BY <1>1, ExchangeAssumption DEF ExchangeInv, TableInv, HeldInv
<1>4. SlotsInv'
  BY <1>1 DEF ExchangeInv, TableInv, SlotsInv
<1>5. Points' = Points
  BY <1>1, <1>3 DEF ExchangeInv, TableInv, HeldInv, Points
<1>6. EntryInv'
  BY <1>1, <1>5 DEF ExchangeInv, TableInv, EntryInv, IsReadable, Reported
<1>. QED BY <1>2, <1>3, <1>4, <1>6 DEF ExchangeInv, TableInv

\* A registration for an object is for its present value.
LEMMA SubscribedProperty ==
    ASSUME NEW d, ParseSubscribe(d) # Unheard, ~ParseSubscribe(d).subscription.ofProperty
    PROVE  ParseSubscribe(d).subscription.property = PresentValueId
<1> DEFINE header == ConfirmedHeader(d)
           ofProperty == header.service = SubscribeCovProperty
           one == ReadParams(header.rest, <<Param(0), ObjectParam(1), Optional(2, 0), Optional(3, 0)>>)
           other == ReadParams(header.rest, <<Param(0), ObjectParam(1), Octet(46), Param(0), Optional(1, NoIndex), Octet(47),
                          Optional(3, 0), Optional(4, 0), RealAtEnd(5)>>)
           s(v) == [ofProperty |-> ofProperty, processId |-> v[1], object |-> v[2], property |-> PresentValueId,
                    index |-> NoIndex, confirmed |-> v[3] = 1, lifetime |-> v[4], increment |-> Null]
           t(v) == [ofProperty |-> ofProperty, processId |-> v[1], object |-> v[2], property |-> v[4],
                    index |-> v[5], confirmed |-> v[7] = 1, lifetime |-> v[8], increment |-> v[9]]
           says(q) == [heard |-> "Subscribe", invoke |-> header.invoke, subscription |-> q]
<1> HIDE DEF header
<1>1. ParseSubscribe(d) = SubscriptionIn(header)
  BY Zenon DEF ParseSubscribe, header
<1>2. CASE ofProperty
  <2> HIDE DEF other
  <2>1. Heard(Where(other, LAMBDA v : v[7] \in {0, 1} /\ (v[9] # Null => ~IsNegative(v[9][2]))),
              LAMBDA v : says(t(v))) = SubscriptionIn(header)
    BY <1>2, Zenon DEF SubscriptionIn, other
  <2>2. \E v : ParseSubscribe(d) = says(t(v))
    BY <1>1, <2>1, Zenon DEF Heard
  <2>3. PICK v : ParseSubscribe(d) = says(t(v))
    BY <2>2
  <2>4. says(t(v)).subscription.ofProperty
    BY <1>2
  <2>. QED BY <2>3, <2>4, Zenon
<1>3. CASE ~ofProperty
  <2> HIDE DEF one
  <2>1. Heard(Where(one, LAMBDA v : v[3] \in {0, 1}), LAMBDA v : says(s(v))) = SubscriptionIn(header)
    BY <1>3, Zenon DEF SubscriptionIn, one
  <2>2. \E v : ParseSubscribe(d) = says(s(v))
    BY <1>1, <2>1, Zenon DEF Heard
  <2>3. PICK v : ParseSubscribe(d) = says(s(v))
    BY <2>2
  <2>4. says(s(v)).subscription.property = PresentValueId
    OBVIOUS
  <2>. QED BY <2>3, <2>4, Zenon
<1>. QED BY <1>2, <1>3

\* Nothing is heard in a datagram that arrives cut off.
LEMMA WhatArrives ==
    ASSUME SentInv, NEW d \in network, NEW size \in Nat, ParseWriteRequest(Arrived(d, size)) # Unheard
    PROVE  Arrived(d, size) = d.octets
<1>1. IsPlain(d.octets)
  BY DEF SentInv, IsSent
<1>2. Arrived(d, size) = d.octets \/ HasNoApdu(Arrived(d, size))
  BY <1>1, ArrivedWhole
<1>3. ASSUME HasNoApdu(Arrived(d, size)) PROVE FALSE
  <2>1. Apdu(Arrived(d, size), {Unicast}, 4) = <<>>
    BY <1>3 DEF HasNoApdu
  <2>2. ConfirmedHeader(Arrived(d, size)) = [status |-> "Malformed"]
    BY <2>1, Zenon DEF ConfirmedHeader
  <2>3. ConfirmedHeader(Arrived(d, size)).status # "Confirmed"
    BY <2>2
  <2>. QED BY <2>3, Zenon DEF ParseWriteRequest, IsRequest
<1>. QED BY <1>2, <1>3

\* A write that the server hears is one that the client asked.
LEMMA WriteWasAsked ==
    ASSUME AskedInv, NEW d, IsSent(d, asked), d.to = "Server", ParseWriteRequest(d.octets) # Unheard
    PROVE  /\ d.number \in 1..Len(asked) /\ asked[d.number] \in Requests /\ asked[d.number].kind = "Write"
           /\ d.octets = Requested(asked[d.number], d.number) /\ d.octets # <<>>
<1>1. IsRequest(d.octets, {WriteProperty})
  BY Zenon DEF ParseWriteRequest
<1>2. ConfirmedHeader(d.octets).status = "Confirmed" /\ ConfirmedHeader(d.octets).service = WriteProperty
  BY <1>1, Zenon DEF IsRequest
<1>3. ASSUME NEW invoke, d.octets = BuildSimpleAck(16, invoke, ConfirmedCovNotification), d.octets # <<>>
      PROVE  FALSE
  BY <1>2, <1>3, AcknowledgementIsNoRequest
<1>4. /\ d.number \in 1..Len(asked)
      /\ d.octets = Requested(asked[d.number], d.number) /\ d.octets # <<>>
  BY <1>3 DEF IsSent
<1> DEFINE request == asked[d.number]
<1>5. request \in Requests
  BY <1>4 DEF AskedInv
<1>6. /\ request.kind = "Write" => IsSendable(request.value)
      /\ request.kind \in {"Discover", "Read", "Write", "Subscribe", "Other"}
      /\ request.kind = "Other" => request.service \in 0..255 \ Served
  BY <1>5, SendableRequests
<1> HIDE DEF request
<1>7. request.kind # "Discover"
  <2>1. request.kind = "Discover" => Requested(request, d.number) = BuildWhoIs(8)
    BY DEF Requested
  <2>. QED BY <1>2, <1>4, <2>1, WhoIsIsNoRequest DEF request
<1>8. ServiceOf(request) = WriteProperty
  <2>1. \E parameters : IsConfirmed(Requested(request, d.number), d.number, ServiceOf(request), parameters)
    <3>1. request.kind \in {"Read", "Write", "Subscribe", "Other"} /\ Requested(request, d.number) # <<>>
      BY <1>4, <1>6, <1>7 DEF request
    <3>. QED BY <1>6, <3>1, RequestedIsConfirmed
  <2>2. PICK parameters : IsConfirmed(d.octets, d.number, ServiceOf(request), parameters)
    BY <1>4, <2>1 DEF request
  <2>3. ConfirmedHeader(d.octets) = HeaderOf(d.number, ServiceOf(request), parameters)
    BY <2>2, ConfirmedRead
  <2>. QED BY <1>2, <2>3, HeaderSays
<1>9. request.kind = "Write"
  <2>1. WriteProperty \in Served /\ WriteProperty # ReadProperty /\ WriteProperty # SubscribeCov
        /\ WriteProperty # SubscribeCovProperty
    BY DEF Served, WriteProperty, ReadProperty, SubscribeCov, SubscribeCovProperty
  <2>. QED BY <1>6, <1>7, <1>8, <2>1 DEF ServiceOf
<1>. QED BY <1>4, <1>5, <1>9 DEF request

\* What it writes without an error fits the tables.
LEMMA WrittenIsTyped ==
    ASSUME ExchangeInv, NEW d \in network, d.to = "Server",
           ParseWriteRequest(Arrived(d, ServerBuffer)) # Unheard,
           WriteError(ParseWriteRequest(Arrived(d, ServerBuffer))) = <<>>
    PROVE  LET write == ParseWriteRequest(Arrived(d, ServerBuffer)) IN
           IF write.request.property = PresentValueId
           THEN Priority(write) \in 1..16 /\ write.value \in Slot
           ELSE write.value \in Values
<1> DEFINE write == ParseWriteRequest(Arrived(d, ServerBuffer))
<1>1. Arrived(d, ServerBuffer) = d.octets
  <2>1. ServerBuffer \in Nat
    BY ExchangeAssumption
  <2>. QED BY <2>1, WhatArrives DEF ExchangeInv
<1>2. IsSent(d, asked)
  BY DEF ExchangeInv, SentInv
<1>3. write = ParseWriteRequest(d.octets) /\ write # Unheard
  BY <1>1
<1>4. /\ d.number \in 1..Len(asked) /\ asked[d.number] \in Requests /\ asked[d.number].kind = "Write"
      /\ d.octets = Requested(asked[d.number], d.number) /\ d.octets # <<>>
  BY <1>2, <1>3, WriteWasAsked DEF ExchangeInv
<1> DEFINE asks == asked[d.number]
<1>5. asks.request \in Asked /\ asks.value \in Values /\ asks.priority \in -1..255
  BY <1>4, SendableRequests
<1> HIDE DEF write, asks
<1>6. d.octets = BuildWriteRequest(544, d.number, asks.request, asks.value, asks.priority)
  BY <1>4 DEF Requested, asks
<1>7. /\ write.request = asks.request
      /\ asks.request.property \notin {ObjectListId, PropertyListId, DeviceAddressBindingId} =>
             /\ write.value[1] = asks.value[1]
             /\ HasRoom(asks.value) => write.value = asks.value
  <2>1. /\ ParseWriteRequest(d.octets).invoke = d.number /\ ParseWriteRequest(d.octets).request = asks.request
        /\ asks.request.property \notin {ObjectListId, PropertyListId, DeviceAddressBindingId} =>
               /\ ParseWriteRequest(d.octets).value[1] = asks.value[1]
               /\ HasRoom(asks.value) => ParseWriteRequest(d.octets).value = asks.value
    <3>1. IsWrite(d.octets, d.number, asks.request, asks.value, asks.priority)
      BY <1>4, <1>5, <1>6, Zenon DEF IsWrite
    <3>2. ParseWriteRequest(d.octets) # Unheard
      BY <1>3
    <3>. QED BY <3>1, <3>2, WriteRead
  <2>. QED BY <1>3, <2>1, Zenon
<1> DEFINE property == write.request.property
<1>8. /\ property \in {PresentValueId, OutOfServiceId}
      /\ property = PresentValueId => Priority(write) \in 1..16 /\ write.value[1] \in {"Null", "Real"}
      /\ property = OutOfServiceId => write.value[1] = "Boolean"
  <2>1. WriteError(write) = <<>>
    BY DEF write
  <2>2. <<1, 31>> # <<>> /\ <<2, 42>> # <<>> /\ <<2, 37>> # <<>> /\ <<2, 9>> # <<>> /\ <<2, 40>> # <<>>
    OBVIOUS
  <2>3. write.request.object = Output /\ write.request.index = NoIndex
    BY <2>1, <2>2 DEF WriteError
  <2>4. CASE property = PresentValueId
    <3>1. Priority(write) \in 1..16 /\ write.value[1] \in {"Null", "Real"}
      <4> DEFINE priority == Priority(write)
      <4>1. WriteError(write) = IF priority \notin 1..16 THEN <<2, 37>>
                                ELSE IF write.value[1] \notin {"Null", "Real"} THEN <<2, 9>> ELSE <<>>
        <5>1. ~(write.request.object # Output) /\ ~(write.request.index # NoIndex)
          BY <2>3
        <5> DEFINE present == IF priority \notin 1..16 THEN <<2, 37>>
                              ELSE IF write.value[1] \notin {"Null", "Real"} THEN <<2, 9>> ELSE <<>>
                   service == IF write.priority # NoPriority \/ write.value[1] # "Boolean" THEN <<2, 9>> ELSE <<>>
                   inner == CASE property = PresentValueId -> present
                              [] property = OutOfServiceId -> service
                              [] OTHER -> <<2, 40>>
        <5>2. PresentValueId # OutOfServiceId
          BY DEF PresentValueId, OutOfServiceId
        <5>3. WriteError(write) = CASE write.request.object # Output -> <<1, 31>>
                  [] write.request.object = Output /\ write.request.index # NoIndex -> <<2, 42>>
                  [] write.request.object = Output /\ write.request.index = NoIndex -> inner
          BY DEF WriteError
        <5> HIDE DEF present, service, inner, property
        <5>4. WriteError(write) = inner
          BY <2>3, <5>1, <5>3
        <5>5. inner = present
          BY <2>4, <5>2 DEF inner
        <5>. QED BY <5>4, <5>5 DEF present
      <4> HIDE DEF priority
      <4>2. priority \in 1..16
        BY <2>1, <2>2, <4>1
      <4>3. write.value[1] \in {"Null", "Real"}
        BY <2>1, <2>2, <4>1, <4>2
      <4>. QED BY <4>2, <4>3 DEF priority
    <3>2. PresentValueId # OutOfServiceId
      BY DEF PresentValueId, OutOfServiceId
    <3>. QED BY <2>2, <2>4, <3>1, <3>2
  <2>5. CASE property = OutOfServiceId
    <3>1. PresentValueId # OutOfServiceId
      BY DEF PresentValueId, OutOfServiceId
    <3>2. write.value[1] = "Boolean"
      BY <2>1, <2>2, <2>3, <2>5, <3>1 DEF WriteError
    <3>. QED BY <2>5, <3>1, <3>2
  <2>6. CASE property \notin {PresentValueId, OutOfServiceId}
    BY <2>1, <2>2, <2>3, <2>6 DEF WriteError
  <2>. QED BY <2>4, <2>5, <2>6
<1>9. property \notin {ObjectListId, PropertyListId, DeviceAddressBindingId}
  BY <1>8 DEF PresentValueId, OutOfServiceId, ObjectListId, PropertyListId, DeviceAddressBindingId
<1>10. asks.value[1] \in {"Null", "Real", "Boolean"} /\ write.value[1] = asks.value[1]
  BY <1>7, <1>8, <1>9
<1>11. HasRoom(asks.value)
  BY <1>10 DEF HasRoom
<1>12. write.value = asks.value
  BY <1>7, <1>9, <1>11
<1>13. write.value \in Values
  BY <1>5, <1>12
<1>14. write.value[1] \in {"Null", "Real"} => write.value \in Slot
  <2>1. asks.value = Null \/ asks.value[1] = "Real" => asks.value \in Slot
    BY <1>5 DEF Values, Slot, Null
  <2>2. asks.value[1] = "Null" => asks.value = Null
    BY <1>5 DEF Values, Null
  <2>. QED BY <1>12, <2>1, <2>2
<1>. QED BY <1>8, <1>13, <1>14 DEF write

\* An I-Am keeps the invariant.
LEMMA AnswerWhoIsKeeps ==
    ASSUME ExchangeInv, NEW d, NEW taken, AnswerWhoIs(d, taken)
    PROVE  ExchangeInv'
<1> DEFINE said == [heard |-> "IAm", device |-> Device]
           sent == Message("Client", d.number, BuildIAm(26, Device), said)
<1>1. Exchanged(taken, sent) /\ UNCHANGED <<held, slots, entry, asked>>
  BY DEF AnswerWhoIs, serverVars, clientVars
<1> HIDE DEF said
<1>2. \A e \in sent : IsSent(e, asked)
  BY IAmIsSound, ServerSends
<1> HIDE DEF sent
<1>3. AskedInv' /\ SentInv'
  BY <1>1, <1>2, AskedStays
<1>. QED BY <1>1, <1>3, TablesStay DEF ExchangeInv

\* The answer to a read keeps the invariant.
LEMMA AnswerReadKeeps ==
    ASSUME ExchangeInv, NEW d, NEW taken, AnswerRead(d, taken)
    PROVE  ExchangeInv'
<1>1. PICK read : Respond(d, taken, ReadReply(read.invoke, read.request))
  BY DEF AnswerRead
<1>2. UNCHANGED <<held, slots, entry, asked>>
  BY DEF AnswerRead, serverVars, clientVars
<1> DEFINE reply == ReadReply(read.invoke, read.request)
<1>3. IsSound(reply.octets)
  BY ReadReplyIsSound DEF ExchangeInv, TableInv
<1> HIDE DEF reply
<1>4. AskedInv' /\ SentInv'
  BY <1>1, <1>2, <1>3, Answered DEF reply
<1>. QED BY <1>2, <1>4, TablesStay DEF ExchangeInv

\* A write keeps the invariant: what reaches the tables is a slot's value or
\* a Boolean.
LEMMA AnswerWriteKeeps ==
    ASSUME ExchangeInv, NEW d \in network, d.to = "Server", NEW taken, AnswerWrite(d, taken)
    PROVE  ExchangeInv'
<1> DEFINE write == ParseWriteRequest(Arrived(d, ServerBuffer))
           error == WriteError(write)
           refusal == ReplyError(write.invoke, WriteProperty, error[1], error[2])
           ack == ReplyAck(write.invoke, WriteProperty)
<1>1. write # Unheard /\ UNCHANGED <<entry, asked>>
  BY DEF AnswerWrite, clientVars
<1>2. \/ error # <<>> /\ Respond(d, taken, refusal) /\ UNCHANGED <<held, slots>>
      \/ /\ error = <<>> /\ Respond(d, taken, ack)
         /\ IF write.request.property = PresentValueId
            THEN slots' = [slots EXCEPT ![Priority(write)] = write.value] /\ UNCHANGED held
            ELSE held' = [held EXCEPT ![<<Output, OutOfServiceId>>] = write.value] /\ UNCHANGED slots
  BY DEF AnswerWrite
<1>3. IsSound(refusal.octets) /\ IsSound(ack.octets)
  BY ErrorReplies
<1> HIDE DEF refusal, ack
<1>4. AskedInv' /\ SentInv'
  BY <1>1, <1>2, <1>3, Answered
<1>5. CASE error # <<>>
  <2>1. UNCHANGED <<held, slots, entry>>
    BY <1>1, <1>2, <1>5
  <2>. QED BY <1>4, <2>1, TablesStay DEF ExchangeInv
<1>6. CASE error = <<>>
  <2>1. IF write.request.property = PresentValueId
        THEN Priority(write) \in 1..16 /\ write.value \in Slot
        ELSE write.value \in Values
    BY <1>1, <1>6, WrittenIsTyped
  <2> HIDE DEF write
  <2>2. SlotsInv'
    BY <1>2, <1>6, <2>1 DEF ExchangeInv, TableInv, SlotsInv
  <2>3. HeldInv'
    <3> DEFINE point == <<Output, OutOfServiceId>>
    <3>1. point \in DOMAIN Contents /\ point[2] = OutOfServiceId
      BY ExchangeAssumption
    <3>2. \A v \in Values : IsContentOf(OutOfServiceId, v)
      BY DEF IsContentOf, OutOfServiceId, ObjectListId, PropertyListId, DeviceAddressBindingId, PriorityArrayId
    <3> HIDE DEF point
    <3>3. UNCHANGED held \/ (write.value \in Values /\ held' = [held EXCEPT ![point] = write.value])
      BY <1>2, <1>6, <2>1 DEF point
    <3>. QED BY <3>1, <3>2, <3>3 DEF ExchangeInv, TableInv, HeldInv
  <2>4. Points' = Points
    BY <2>3 DEF ExchangeInv, TableInv, HeldInv, Points
  <2>5. EntryInv'
    BY <1>1, <2>4 DEF ExchangeInv, TableInv, EntryInv, IsReadable, Reported
  <2>. QED BY <1>4, <2>2, <2>3, <2>5 DEF ExchangeInv, TableInv
<1>. QED BY <1>5, <1>6

\* A registration keeps the invariant: what is entered can be read.
LEMMA AnswerSubscribeKeeps ==
    ASSUME ExchangeInv, NEW d, NEW taken, AnswerSubscribe(d, taken)
    PROVE  ExchangeInv'
<1> DEFINE heard == ParseSubscribe(Arrived(d, ServerBuffer))
           subscription == heard.subscription
           error == SubscribeError(subscription)
           service == IF subscription.ofProperty THEN SubscribeCovProperty ELSE SubscribeCov
           ends == subscription.lifetime = 0
           refusal == ReplyError(heard.invoke, service, error[1], error[2])
           ack == ReplyAck(heard.invoke, service)
<1>1. heard # Unheard /\ UNCHANGED <<held, slots, asked>>
  BY DEF AnswerSubscribe, clientVars
<1>2. \/ error # <<>> /\ Respond(d, taken, refusal) /\ UNCHANGED <<entry, awaited>>
      \/ /\ error = <<>> /\ Respond(d, taken, ack)
         /\ IF ends /\ ~SameEntry(subscription)
            THEN UNCHANGED <<entry, awaited>>
            ELSE entry' = (IF ends THEN Inactive ELSE subscription) /\ awaited' = 0
  BY DEF AnswerSubscribe
<1>3. IsSound(refusal.octets) /\ IsSound(ack.octets)
  BY ErrorReplies
<1>4. ~subscription.ofProperty => subscription.property = PresentValueId
  BY <1>1, SubscribedProperty
<1> HIDE DEF refusal, ack, heard
<1>5. AskedInv' /\ SentInv'
  BY <1>1, <1>2, <1>3, Answered
<1>6. HeldInv /\ SlotsInv /\ EntryInv
  BY DEF ExchangeInv, TableInv
<1>7. error = <<>> => \A property \in Reported(subscription) : IsReadable(subscription.object, property)
  <2>1. error = <<>> => /\ CovReadable(subscription.object, subscription.property)
                        /\ ~subscription.ofProperty => CovReadable(subscription.object, StatusFlagsId)
    <3> HIDE DEF subscription
    <3>1. <<2, 32>> # <<>>
      OBVIOUS
    <3>2. (~CovReadable(subscription.object, subscription.property)
           \/ (~subscription.ofProperty /\ ~CovReadable(subscription.object, StatusFlagsId)))
          => SubscribeError(subscription) = <<2, 32>>
      BY Zenon DEF SubscribeError
    <3>3. SubscribeError(subscription) = error
      OBVIOUS
    <3> HIDE DEF error
    <3>4. error = <<>> => CovReadable(subscription.object, subscription.property)
      <4>1. SUFFICES ASSUME ~CovReadable(subscription.object, subscription.property) PROVE error # <<>>
        OBVIOUS
      <4>2. SubscribeError(subscription) = <<2, 32>>
        BY <3>2, <4>1, Zenon
      <4>. QED BY <3>1, <3>3, <4>2, Zenon
    <3>5. error = <<>> /\ ~subscription.ofProperty => CovReadable(subscription.object, StatusFlagsId)
      BY <3>1, <3>2, <3>3, Zenon
    <3>. QED BY <3>4, <3>5, Zenon
  <2> HIDE DEF subscription, error
  <2>2. error = <<>> => /\ IsReadable(subscription.object, subscription.property)
                        /\ ~subscription.ofProperty => IsReadable(subscription.object, StatusFlagsId)
    BY <1>6, <2>1, ReadableIsValue
  <2>. QED BY <1>4, <2>2, Zenon DEF Reported
<1> HIDE DEF subscription, error
<1>8. Points' = Points
  BY <1>1 DEF Points
<1>9. entry' \in {entry, Inactive} \/ (error = <<>> /\ entry' = subscription)
  BY <1>2
<1>10. EntryInv'
  <2>1. CASE entry' \in {entry, Inactive}
    BY <1>6, <1>8, <2>1 DEF EntryInv, IsReadable, Reported
  <2>2. CASE error = <<>> /\ entry' = subscription
    BY <1>7, <1>8, <2>2 DEF EntryInv, IsReadable, Reported
  <2>. QED BY <1>9, <2>1, <2>2
<1>11. HeldInv' /\ SlotsInv'
  BY <1>1, <1>6 DEF HeldInv, SlotsInv
<1>. QED BY <1>5, <1>10, <1>11 DEF ExchangeInv, TableInv

\* A reject keeps the invariant.
LEMMA RejectKeeps ==
    ASSUME ExchangeInv, NEW d, NEW taken, RejectOther(d, taken)
    PROVE  ExchangeInv'
<1>1. PICK header : Respond(d, taken, Reply([heard |-> "Reject"], BuildReject(9, header.invoke, 9)))
  BY DEF RejectOther
<1> DEFINE reply == Reply([heard |-> "Reject"], BuildReject(9, header.invoke, 9))
<1>2. IsSound(reply.octets) /\ UNCHANGED <<held, slots, entry, asked>>
  BY ShortAnswersAreSound DEF Reply, RejectOther, serverVars, clientVars
<1> HIDE DEF reply
<1>3. AskedInv' /\ SentInv'
  BY <1>1, <1>2, Answered DEF reply
<1>. QED BY <1>2, <1>3, TablesStay DEF ExchangeInv

\* Polls that send an acknowledgement or nothing.
LEMMA PollsKeep ==
    ASSUME ExchangeInv, UNCHANGED <<held, slots, entry, asked>>, NEW taken, NEW sent, Exchanged(taken, sent),
           sent = {} \/ \E notification : sent = Acknowledgement(notification)
    PROVE  ExchangeInv'
<1>1. \A e \in sent : IsSent(e, asked)
  BY AcknowledgementIsSent
<1>2. AskedInv' /\ SentInv'
  BY <1>1, AskedStays
<1>. QED BY <1>2, TablesStay DEF ExchangeInv

\* Steps that send nothing keep the invariant.
LEMMA SilentKeeps ==
    ASSUME ExchangeInv, UNCHANGED <<held, slots, entry, asked>>, network' \subseteq network
    PROVE  ExchangeInv'
<1>1. AskedInv' /\ SentInv'
  BY DEF ExchangeInv, AskedInv, SentInv
<1>. QED BY <1>1, TablesStay DEF ExchangeInv

\* Every step keeps the invariant of the exchange.
LEMMA NextExchange == ExchangeInv /\ [Next]_vars => ExchangeInv'
<1>. SUFFICES ASSUME ExchangeInv, [Next]_vars PROVE ExchangeInv'
  OBVIOUS
<1>1. ASSUME NEW request \in Requests, Ask(request) PROVE ExchangeInv'
  BY <1>1, AskKeeps
<1>2. CASE GiveUp
  BY <1>2, SilentKeeps DEF GiveUp, serverVars
<1>3. CASE Notify
  BY <1>3, NotifyKeeps
<1>4. CASE PollQueued
  <2>1. UNCHANGED <<held, slots, entry, asked>> /\ Exchanged({}, Acknowledgement(Head(queued)))
    BY <1>4 DEF PollQueued, serverVars
  <2>. QED BY <2>1, PollsKeep
<1>5. ASSUME NEW change \in Changes, ChangeContent(change) PROVE ExchangeInv'
  BY <1>5, ChangeKeeps
<1>6. ASSUME NEW d \in network, Lose(d) PROVE ExchangeInv'
  BY <1>6, SilentKeeps DEF Lose, serverVars, clientVars
<1>7. ASSUME NEW d \in network, NEW taken, d.to = "Server", ServerPolls(d, taken) PROVE ExchangeInv'
  <2>1. CASE TakeNotificationAnswer(d, taken)
    <3>1. UNCHANGED <<held, slots, entry, asked>> /\ Exchanged(taken, {})
      BY <2>1 DEF TakeNotificationAnswer, clientVars
    <3>. QED BY <3>1, PollsKeep
  <2>2. CASE AnswerWhoIs(d, taken)
    BY <2>2, AnswerWhoIsKeeps
  <2>3. CASE AnswerRead(d, taken)
    BY <2>3, AnswerReadKeeps
  <2>4. CASE AnswerWrite(d, taken)
    BY <1>7, <2>4, AnswerWriteKeeps
  <2>5. CASE AnswerSubscribe(d, taken)
    BY <2>5, AnswerSubscribeKeeps
  <2>6. CASE RejectOther(d, taken)
    BY <2>6, RejectKeeps
  <2>7. CASE ServerDrops(d, taken)
    <3>1. UNCHANGED <<held, slots, entry, asked>> /\ Exchanged(taken, {})
      BY <2>7 DEF ServerDrops, serverVars, clientVars
    <3>. QED BY <3>1, PollsKeep
  <2>. QED BY <1>7, <2>1, <2>2, <2>3, <2>4, <2>5, <2>6, <2>7 DEF ServerPolls
<1>8. ASSUME NEW d \in network, NEW taken, ClientPolls(d, taken) PROVE ExchangeInv'
  <2>1. CASE PollRequest(d, taken)
    <3>1. UNCHANGED <<held, slots, entry, asked>> /\ Exchanged(taken, {})
      BY <2>1 DEF PollRequest, serverVars
    <3>. QED BY <3>1, PollsKeep
  <2>2. CASE PollNotification(d, taken)
    <3> DEFINE notification == ParseCovNotification(Arrived(d, ClientBuffer), MaxProperties)
    <3>1. UNCHANGED <<held, slots, entry, asked>>
          /\ Exchanged(taken, IF notification = Unheard THEN {} ELSE Acknowledgement(notification))
      BY <2>2 DEF PollNotification, serverVars, clientVars
    <3> HIDE DEF notification
    <3>. QED BY <3>1, PollsKeep
  <2>. QED BY <1>8, <2>1, <2>2 DEF ClientPolls
<1>9. CASE UNCHANGED vars
  BY <1>9, SilentKeeps DEF vars, serverVars, clientVars
<1>. QED BY <1>1, <1>2, <1>3, <1>4, <1>5, <1>6, <1>7, <1>8, <1>9 DEF Next

\* The exchange keeps its invariant: every datagram on its way is whole and
\* one that was sent, every request to the server is one that the client
\* asked, and what the server's tables hold can be read, encoded and
\* reported.
THEOREM ExchangeKept == Spec => []ExchangeInv
<1>. QED BY InitExchange, NextExchange, PTL DEF Spec

\* A datagram of which only a part arrives is heard by nobody, whatever it
\* was and wherever it was cut: parseBvlc compares the length in the header
\* with the octets that came.
THEOREM CutsAreUnheard == Spec => CutIsUnheard
<1> DEFINE Cut == \A d \in network' \ network : \A k \in 1..(Len(d.octets) - 1) :
          LET cut == SubSeq(d.octets, 1, k) IN
          IF d.to = "Server" THEN AtServer(cut) = {}
          ELSE /\ ToAll(cut) = {}
               /\ d.said.heard = "Answer" => Outcome(cut, d.number, d.said.request) = Unheard
<1>1. SentInv' => Cut
  <2> SUFFICES ASSUME SentInv', NEW d \in network', NEW k \in 1..(Len(d.octets) - 1)
               PROVE  LET cut == SubSeq(d.octets, 1, k) IN
                      /\ AtServer(cut) = {} /\ ToAll(cut) = {}
                      /\ \A n, request : Outcome(cut, n, request) = Unheard
    BY Zenon
  <2>1. IsPlain(d.octets)
    BY DEF SentInv, IsSent
  <2>2. HasNoApdu(SubSeq(d.octets, 1, k))
    BY <2>1, CutHasNoApdu DEF HasNoApdu
  <2>. QED BY <2>2, NoApduIsUnheard
<1>2. ExchangeInv' => [Cut]_vars
  BY <1>1 DEF ExchangeInv
<1>. QED BY <1>2, ExchangeKept, PTL DEF CutIsUnheard
===============================================================================
