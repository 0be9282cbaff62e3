--------------------------------- MODULE Codec ---------------------------------
(***************************************************************************)
(* BACnet/IP datagrams as the library writes and reads them: sequences of  *)
(* octets.  An operator Build... gives the datagram, or the empty one when *)
(* the buffer is too small or an argument is refused; an operator Parse... *)
(* or Classify... reads one.                                               *)
(*                                                                         *)
(* A 32-bit number is written as the integer with the same bits in two's   *)
(* complement, so NoIndex is hexadecimal FFFFFFFF.  A value is the pair of its     *)
(* type and its content; a Real is its 32 bits.                            *)
(***************************************************************************)
EXTENDS Integers, Sequences

CONSTANT MaxText    \* BacnetValue::kMaxTextLength, 512 in the code

ASSUME CodecAssumption == MaxText \in Nat /\ MaxText > 16   \* one entry always fits

Unicast == 10
Broadcast == 11
ExpectingReply == 4
Confirmed == 0     \* the high four bits of the first octet of an APDU
Unconfirmed == 1
SimpleAck == 2
ComplexAck == 3
ErrorPdu == 5
RejectPdu == 6
AbortPdu == 7

IAm == 0
ConfirmedCovNotification == 1
UnconfirmedCovNotification == 2
SubscribeCov == 5
WhoIs == 8
ReadProperty == 12
WriteProperty == 15
SubscribeCovProperty == 28

ObjectListId == 76
PresentValueId == 85
PriorityArrayId == 87
DeviceAddressBindingId == 30
PropertyListId == 371
DeviceType == 8

NoIndex == -1
NoPriority == -1
Null == <<"Null">>

From(os, n) == SubSeq(os, n, Len(os))

\* What n steps make of a state.
Iterated(Step(_, _), start, n) ==
    LET after[k \in 0..n] == IF k = 0 THEN start ELSE Step(after[k - 1], k) IN after[n]

\* Sequences of octets, one after the other.
Joined(parts) == Iterated(LAMBDA os, k : parts[Len(parts) - k + 1] \o os, <<>>, Len(parts))

-----------------------------------------------------------------------------
\* Numbers and tags.

Weight == <<1, 256, 65536, 16777216>>     \* of an octet, from the last on
Octets(n, length) == [i \in 1..length |-> (n \div Weight[length - i + 1]) % 256]

Number(os) ==
    LET at(k) == IF k < Len(os) THEN os[Len(os) - k] ELSE 0 IN
    (IF at(3) >= 128 THEN at(3) - 256 ELSE at(3)) * 16777216
        + at(2) * 65536 + at(1) * 256 + at(0)

\* Mutant: the sign of a number of one octet is lost.
SignedAsUnsigned(os) == Number(os)

\* The same octets as a number with a sign.
Signed(os) ==
    IF Len(os) < 4 /\ os[1] >= 128 THEN Number(os) - Weight[Len(os) + 1] ELSE Number(os)

Below(n) == {k \in Nat : k < n}
Within(n) == {k \in Int : -n <= k /\ k < n}
UnsignedLength(n) == CASE n \in Below(256) -> 1
                       [] n \in Below(65536) \ Below(256) -> 2
                       [] n \in Below(16777216) \ Below(65536) -> 3
                       [] OTHER -> 4
SignedLength(n) == CASE n \in Within(128) -> 1
                     [] n \in Within(32768) \ Within(128) -> 2
                     [] n \in Within(8388608) \ Within(32768) -> 3
                     [] OTHER -> 4
\* A context tag has no length of three.
ContextLength(n) == IF UnsignedLength(n) = 3 THEN 4 ELSE UnsignedLength(n)

\* An object identifier: ten bits of type, twenty-two of instance.
ObjectOctets(object) ==
    <<(object.type \div 4) % 256, (object.type % 4) * 64 + ((object.instance \div 65536) % 64)>>
    \o Octets(object.instance, 2)
ObjectFrom(n) == [type |-> (n \div 4194304) % 1024, instance |-> n % 4194304]
Instances == Below(4194304)
IsInstance(n) == n \in Instances

Tagged(tag, class, octets) == <<16 * tag + class + Len(octets)>> \o octets
Context(tag, octets) == Tagged(tag, 8, octets)
Application(tag, octets) == Tagged(tag, 0, octets)
ContextUnsigned(tag, n) == Context(tag, Octets(n, ContextLength(n)))
ContextBoolean(tag, b) == Context(tag, IF b THEN <<1>> ELSE <<0>>)
Opening(tag) == <<16 * tag + 14>>
Closing(tag) == <<16 * tag + 15>>

TagOf(octet) == octet \div 16
IsContext(octet) == octet % 16 >= 8
LengthOf(octet) == octet % 8

-----------------------------------------------------------------------------
\* Reading: what was read, and the octets that are left.

Read(value, rest) == [ok |-> TRUE, value |-> value, rest |-> rest]
Unread == [ok |-> FALSE, value |-> Null, rest |-> <<>>]

\* A number of one to four octets under a tag.
ReadOctets(os, tag, isContext) ==
    IF /\ os # <<>> /\ TagOf(os[1]) = tag /\ IsContext(os[1]) = isContext
       /\ LengthOf(os[1]) \in 1..4 /\ LengthOf(os[1]) < Len(os)
    THEN Read(SubSeq(os, 2, 1 + LengthOf(os[1])), From(os, 2 + LengthOf(os[1])))
    ELSE Unread

\* What was read, made into something else, or refused.
Mapped(r, Make(_)) == IF r.ok THEN Read(Make(r.value), r.rest) ELSE Unread
Where(r, Fits(_)) == IF r.ok /\ Fits(r.value) THEN r ELSE Unread
Typed(type, r) == Mapped(r, LAMBDA v : <<type, v>>)

ReadApplication(os, tag) == Mapped(ReadOctets(os, tag, FALSE), Number)
ReadContext(os, tag) == Mapped(ReadOctets(os, tag, TRUE), Number)
ReadContextReal(os, tag) ==
    Typed("Real", Mapped(Where(ReadOctets(os, tag, TRUE), LAMBDA v : Len(v) = 4), Number))
ReadObject(os, tag) == Mapped(ReadContext(os, tag), ObjectFrom)

\* A parameter that may be left out.
ReadOptional(os, tag, absent) ==
    IF os # <<>> /\ TagOf(os[1]) = tag /\ IsContext(os[1]) THEN ReadContext(os, tag)
    ELSE Read(absent, os)

ReadOctet(os, octet) == IF os # <<>> /\ os[1] = octet THEN Read(octet, Tail(os)) ELSE Unread

\* The content of an application tag, whose length may stand in an octet of
\* its own (readApplicationTagHeader).
ReadSized(os, tag) ==
    IF TagOf(os[1]) # tag \/ IsContext(os[1]) \/ LengthOf(os[1]) > 5 THEN Unread
    ELSE IF LengthOf(os[1]) = 5 /\ Len(os) < 2 THEN Unread
    ELSE LET header == IF LengthOf(os[1]) = 5 THEN 2 ELSE 1
             length == IF header = 2 THEN os[2] ELSE LengthOf(os[1]) IN
         IF header + length > Len(os) THEN Unread
         ELSE Read(SubSeq(os, header + 1, header + length), From(os, header + length + 1))

-----------------------------------------------------------------------------
\* Application values.

\* A bit string is the sequence of its bits; the last octet is padded.
BitOctets(bits) ==
    LET count == (Len(bits) + 7) \div 8
        bit(k) == IF k <= Len(bits) /\ bits[k] THEN 1 ELSE 0 IN
    <<8 * count - Len(bits)>> \o
    [i \in 1..count |->
        LET at(j) == bit(8 * (i - 1) + j) IN
        128 * at(1) + 64 * at(2) + 32 * at(3) + 16 * at(4) + 8 * at(5) + 4 * at(6) + 2 * at(7) + at(8)]
BitsFrom(octets) ==
    LET weight == <<128, 64, 32, 16, 8, 4, 2, 1>> IN
    [k \in 1..(8 * (Len(octets) - 1) - octets[1]) |->
        (octets[2 + (k - 1) \div 8] \div weight[((k - 1) % 8) + 1]) % 2 = 1]

\* encodeApplicationValue: the empty sequence when the type or the content
\* cannot be sent.
Encode(value) ==
    LET content == value[2] IN
    CASE value[1] = "Null" -> <<0>>
      [] value[1] = "Boolean" -> IF content THEN <<17>> ELSE <<16>>
      [] value[1] = "Unsigned" -> Application(2, Octets(content, UnsignedLength(content)))
      [] value[1] = "Signed" -> Application(3, Octets(content, SignedLength(content)))
      [] value[1] = "Real" -> Application(4, Octets(content, 4))
      [] value[1] = "CharacterString" ->
            IF Len(content) > 253 THEN <<>>
            ELSE IF Len(content) < 4 THEN Application(7, <<0>> \o content)
            ELSE <<16 * 7 + 5, Len(content) + 1, 0>> \o content
      [] value[1] = "BitString" ->
            IF Len(content) \in 1..24 THEN Application(8, BitOctets(content)) ELSE <<>>
      [] value[1] = "Enumerated" -> Application(9, Octets(content, UnsignedLength(content)))
      [] value[1] = "ObjectIdentifier" -> Application(12, ObjectOctets(content))
      [] OTHER -> <<>>

ReadNull(os) == Mapped(Where(ReadSized(os, 0), LAMBDA v : v = <<>>), LAMBDA v : Null)
ReadBoolean(os) ==
    IF IsContext(os[1]) THEN Unread ELSE Read(<<"Boolean", LengthOf(os[1]) # 0>>, Tail(os))
ReadUnsigned(os, tag) == Typed(IF tag = 9 THEN "Enumerated" ELSE "Unsigned", ReadApplication(os, tag))
ReadSigned(os) == Typed("Signed", Mapped(ReadOctets(os, 3, FALSE), Signed))
ReadReal(os) == Typed("Real", Mapped(Where(ReadSized(os, 4), LAMBDA v : Len(v) = 4), Number))
ReadBitString(os) ==
    Typed("BitString",
          Mapped(Where(ReadSized(os, 8), LAMBDA v : Len(v) \in 2..5 /\ v[1] <= 7), BitsFrom))
\* The octet for the character set is passed over; a long text is cut off.
ReadCharacterString(os) ==
    Typed("CharacterString",
          Mapped(Where(ReadSized(os, 7), LAMBDA v : v # <<>>),
                 LAMBDA v : SubSeq(v, 2, IF Len(v) < MaxText THEN Len(v) ELSE MaxText)))
ReadObjectIdentifier(os) == Typed("ObjectIdentifier", Mapped(ReadApplication(os, 12), ObjectFrom))
ReadUnsupported(os) == Typed("Unsupported", Mapped(ReadSized(os, TagOf(os[1])), LAMBDA v : TagOf(os[1])))

\* Lists become a text of MaxText characters, the closing 0 included.
Digits(n) ==
    CASE n \in Below(10) -> 1
      [] n \in Below(100) \ Below(10) -> 2
      [] n \in Below(1000) \ Below(100) -> 3
      [] n \in Below(10000) \ Below(1000) -> 4
      [] n \in Below(100000) \ Below(10000) -> 5
      [] n \in Below(1000000) \ Below(100000) -> 6
      [] n \in Below(10000000) \ Below(1000000) -> 7
      [] n \in Below(100000000) \ Below(10000000) -> 8
      [] n \in Below(1000000000) \ Below(100000000) -> 9
      [] OTHER -> 10
Extended(used, length) == used + length + (IF used = 0 THEN 0 ELSE 1)

\* The list so far, and what there is to read: "More", the "Whole" or "Bad".
Listed(status, seen, used, rest) == [status |-> status, seen |-> seen, used |-> used, rest |-> rest]
NextEntry(list, entry, Width(_), full) ==
    IF list.status # "More" THEN list
    ELSE IF list.rest = <<>> \/ list.rest[1] = 63
    THEN [list EXCEPT !.status = IF list.seen = <<>> THEN "Bad" ELSE "Whole"]
    ELSE IF ~entry.ok THEN [list EXCEPT !.status = "Bad"]
    ELSE IF Extended(list.used, Width(entry.value)) >= MaxText
    THEN Listed(full, list.seen, list.used, entry.rest)
    ELSE Listed("More", Append(list.seen, entry.value), Extended(list.used, Width(entry.value)), entry.rest)
ReadList(Step(_, _), os) ==
    LET read(list) == IF list.status = "Whole" THEN Read(list.seen, list.rest) ELSE Unread IN
    read(Iterated(Step, Listed("More", <<>>, 0, os), Len(os) \div 2 + 1))

\* An object that does not fit ends the reading, after its octets (the text may
\* end with a part of it); with a property it fails.
ObjectWidth(object) == Digits(object.type) + 1 + Digits(object.instance)
NextObject(list, k) ==
    NextEntry(list, Mapped(ReadApplication(list.rest, 12), ObjectFrom), ObjectWidth, "Whole")
ReadObjects(os) == ReadList(NextObject, os)
NextProperty(list, k) == NextEntry(list, ReadApplication(list.rest, 9), Digits, "Bad")
ReadProperties(os) == ReadList(NextProperty, os)

ReadScalar(os) ==
    LET tag == TagOf(os[1]) IN
    CASE tag = 0 -> ReadNull(os)
      [] tag = 1 -> ReadBoolean(os)
      [] tag \in {2, 9} -> ReadUnsigned(os, tag)
      [] tag = 3 -> ReadSigned(os)
      [] tag = 4 -> ReadReal(os)
      [] tag = 7 -> ReadCharacterString(os)
      [] tag = 8 -> ReadBitString(os)
      [] tag = 12 -> ReadObjectIdentifier(os)
      [] OTHER -> ReadUnsupported(os)

\* What is read depends on the property that was asked for.
ReadValue(os, property, index) ==
    IF os = <<>> THEN Unread
    ELSE IF property = ObjectListId /\ TagOf(os[1]) = 12 /\ index = NoIndex
    THEN Typed("ObjectIdentifierList", ReadObjects(os))
    ELSE IF property = PropertyListId /\ index = NoIndex
    THEN Typed("PropertyIdentifierList", ReadProperties(os))
    ELSE IF property = DeviceAddressBindingId /\ os[1] = 63 THEN Read(<<"Empty">>, os)
    ELSE ReadScalar(os)

-----------------------------------------------------------------------------
\* The parameters of a service, one after the other.

Param(tag) == [is |-> "Number", tag |-> tag]
ObjectParam(tag) == [is |-> "Object", tag |-> tag]
Octet(octet) == [is |-> "Octet", octet |-> octet]
Optional(tag, absent) == [is |-> "Optional", tag |-> tag, absent |-> absent]
\* One that may be left out only with everything after it.
AtEnd(tag, absent) == [is |-> "AtEnd", tag |-> tag, absent |-> absent]
RealAtEnd(tag) == [is |-> "RealAtEnd", tag |-> tag, absent |-> Null]
ApplicationParam(tag) == [is |-> "Application", tag |-> tag]
\* The value of the property that is the parameter at, of the index after that.
ValueOf(at) == [is |-> "Value", at |-> at]

ReadParam(os, param, seen) ==
    CASE param.is = "Number" -> ReadContext(os, param.tag)
      [] param.is = "Object" -> ReadObject(os, param.tag)
      [] param.is = "Octet" -> ReadOctet(os, param.octet)
      [] param.is = "Optional" -> ReadOptional(os, param.tag, param.absent)
      [] param.is = "Application" -> ReadApplication(os, param.tag)
      [] param.is = "Value" -> ReadValue(os, seen[param.at], seen[param.at + 1])
      [] OTHER -> IF os = <<>> THEN Read(param.absent, os)
                  ELSE IF param.is = "AtEnd" THEN ReadContext(os, param.tag)
                  ELSE ReadContextReal(os, param.tag)

Then(r, param) ==
    LET after(next) == IF next.ok THEN Read(Append(r.value, next.value), next.rest) ELSE Unread IN
    IF r.ok THEN after(ReadParam(r.rest, param, r.value)) ELSE Unread
ReadParams(os, params) == Iterated(LAMBDA r, k : Then(r, params[k]), Read(<<>>, os), Len(params))

-----------------------------------------------------------------------------
\* Writing datagrams.

Datagram(function, control, apdu) ==
    LET length == Len(apdu) + 6 IN
    <<129, function, length \div 256, length % 256, 1, control>> \o apdu
Limited(size, least, datagram) == IF least <= size /\ Len(datagram) <= size THEN datagram ELSE <<>>

ContextObject(tag, object) == Context(tag, ObjectOctets(object))
OptionalIndex(tag, index) == IF index = NoIndex THEN <<>> ELSE ContextUnsigned(tag, index)
ConfirmedRequest(invoke, service, parameters) ==
    Datagram(Unicast, ExpectingReply, <<16 * Confirmed, 5, invoke, service>> \o parameters)
Answer(pdu, invoke, octets) == Datagram(Unicast, 0, <<16 * pdu, invoke>> \o octets)

BuildWhoIs(size) == Limited(size, 8, Datagram(Broadcast, 0, <<16 * Unconfirmed, WhoIs>>))

BuildIAm(size, device) ==
    IF ~IsInstance(device.instance) THEN <<>>
    ELSE Limited(size, 0, Datagram(Unicast, 0,
            <<16 * Unconfirmed, IAm>>
            \o Encode(<<"ObjectIdentifier", [type |-> DeviceType, instance |-> device.instance]>>)
            \o Encode(<<"Unsigned", device.maxApdu>>)
            \o Encode(<<"Enumerated", device.segmentation>>)
            \o Encode(<<"Unsigned", device.vendor>>)))

BuildReadRequest(size, invoke, request) ==
    IF ~IsInstance(request.object.instance) THEN <<>>
    ELSE Limited(size, 25, ConfirmedRequest(invoke, ReadProperty,
            ContextObject(0, request.object) \o ContextUnsigned(1, request.property)
            \o OptionalIndex(2, request.index)))

\* Priority 0 stands for none, and is refused for the present value.
BuildWriteRequest(size, invoke, request, value, priority) ==
    IF \/ ~IsInstance(request.object.instance) \/ request.object.type > 1023
       \/ priority > 16 \/ (priority = 0 /\ request.property = PresentValueId)
       \/ Encode(value) = <<>>
    THEN <<>>
    ELSE Limited(size, 24, ConfirmedRequest(invoke, WriteProperty,
            ContextObject(0, request.object) \o ContextUnsigned(1, request.property)
            \o OptionalIndex(2, request.index) \o Opening(3) \o Encode(value) \o Closing(3)
            \o (IF priority \in {NoPriority, 0} THEN <<>> ELSE ContextUnsigned(4, priority))))

BuildSubscribeCov(size, invoke, subscription) ==
    IF ~IsInstance(subscription.object.instance) THEN <<>>
    ELSE Limited(size, 0, ConfirmedRequest(invoke, SubscribeCov,
            ContextUnsigned(0, subscription.processId) \o ContextObject(1, subscription.object)
            \o ContextBoolean(2, subscription.confirmed)
            \o ContextUnsigned(3, subscription.lifetime)))

\* The room asked for is one octet more than what is written.
BuildSubscribeCovProperty(size, invoke, subscription) ==
    IF ~IsInstance(subscription.object.instance) THEN <<>>
    ELSE Limited(size - 1, 0, ConfirmedRequest(invoke, SubscribeCovProperty,
            ContextUnsigned(0, subscription.processId) \o ContextObject(1, subscription.object)
            \o Opening(2) \o ContextUnsigned(0, subscription.property)
            \o OptionalIndex(1, subscription.index) \o Closing(2)
            \o ContextBoolean(3, subscription.confirmed)
            \o ContextUnsigned(4, subscription.lifetime)
            \o (IF subscription.increment = Null THEN <<>>
                ELSE Context(5, Octets(subscription.increment[2], 4)))))

\* Values one after the other; none when one of them cannot be sent.
EncodeAll(values) ==
    IF \E i \in DOMAIN values : Encode(values[i]) = <<>> THEN <<>>
    ELSE Joined([i \in DOMAIN values |-> Encode(values[i])])

ReadAck(invoke, request, octets) ==
    Answer(ComplexAck, invoke,
        <<ReadProperty>> \o ContextObject(0, request.object) \o ContextUnsigned(1, request.property)
        \o OptionalIndex(2, request.index) \o Opening(3) \o octets \o Closing(3))
BuildReadAck(size, invoke, request, value) ==
    IF request.object.type > 1023 \/ ~IsInstance(request.object.instance) \/ Encode(value) = <<>>
    THEN <<>> ELSE Limited(size, 20, ReadAck(invoke, request, Encode(value)))

\* The four builders for lists and arrays: whole, its length, or one entry.
BuildListAck(size, invoke, request, entries) ==
    LET asked == CASE request.index = NoIndex -> entries
                   [] request.index = 0 -> <<<<"Unsigned", Len(entries)>>>>
                   [] OTHER -> SubSeq(entries, request.index, request.index) IN
    IF EncodeAll(asked) = <<>> THEN <<>>
    ELSE Limited(size, 16, ReadAck(invoke, request, EncodeAll(asked)))
BuildEmptyListAck(size, invoke, request) ==
    IF request.index # NoIndex THEN <<>> ELSE Limited(size, 16, ReadAck(invoke, request, <<>>))

BuildSimpleAck(size, invoke, service) == Limited(size, 9, Answer(SimpleAck, invoke, <<service>>))
BuildReject(size, invoke, reason) == Limited(size, 9, Answer(RejectPdu, invoke, <<reason>>))
BuildError(size, invoke, service, class, code) ==
    Limited(size, 13, Answer(ErrorPdu, invoke,
        <<service>> \o Encode(<<"Enumerated", class>>) \o Encode(<<"Enumerated", code>>)))

PropertyValues(values) ==
    LET part(v) == ContextUnsigned(0, v.property) \o OptionalIndex(1, v.index)
                   \o Opening(2) \o Encode(v.value) \o Closing(2) IN
    Joined([i \in DOMAIN values |-> part(values[i])])

BuildCovNotification(size, invoke, notification) ==
    LET parameters ==
            ContextUnsigned(0, notification.processId)
            \o ContextObject(1, [type |-> DeviceType, instance |-> notification.device])
            \o ContextObject(2, notification.object) \o ContextUnsigned(3, notification.remaining)
            \o Opening(4) \o PropertyValues(notification.values) \o Closing(4)
    IN
    IF \/ notification.values = <<>> \/ ~IsInstance(notification.device)
       \/ ~IsInstance(notification.object.instance)
       \/ \E i \in DOMAIN notification.values : Encode(notification.values[i].value) = <<>>
    THEN <<>>
    ELSE Limited(size, 32,
            IF notification.confirmed
            THEN ConfirmedRequest(invoke, ConfirmedCovNotification, parameters)
            ELSE Datagram(Unicast, 0, <<16 * Unconfirmed, UnconfirmedCovNotification>> \o parameters))

-----------------------------------------------------------------------------
\* Reading datagrams: a record with "heard" and what it says, or Unheard.

Unheard == [heard |-> "Nothing"]
\* What the parameters v say, read to the end; or up to the octet last.
Heard(r, Says(_)) == IF r.ok /\ r.rest = <<>> THEN Says(r.value) ELSE Unheard
Before(r, octet) == IF r.ok /\ ReadOctet(r.rest, octet).ok THEN Read(r.value, <<>>) ELSE Unread

SkipAddress(os) ==
    IF Len(os) >= 3 /\ Len(os) >= 3 + os[3] THEN Read(Null, From(os, 4 + os[3])) ELSE Unread

\* What follows the network header, which a router may have lengthened by a
\* destination (with its hop count) and a source.
AfterHeader(os) ==
    LET asks(bit) == (os[2] \div bit) % 2 = 1
        hopped(r) == IF r.ok /\ r.rest # <<>> THEN Read(Null, Tail(r.rest)) ELSE Unread
        source(r) == IF r.ok /\ asks(8) THEN SkipAddress(r.rest) ELSE r IN
    IF Len(os) < 2 \/ os[1] # 1 \/ os[2] >= 128 THEN Unread
    ELSE source(IF asks(32) THEN hopped(SkipAddress(From(os, 3))) ELSE Read(Null, From(os, 3)))

\* Mutant: the length in the datagram is not compared with what arrived.
ApduOfAnyLength(d, functions, least) ==
    IF Len(d) >= least /\ d[1] = 129 /\ d[2] \in functions
    THEN AfterHeader(From(d, 5)).rest ELSE <<>>

\* The APDU of a datagram that is what it says it is, or nothing.
Apdu(d, functions, least) ==
    IF Len(d) >= least /\ d[1] = 129 /\ d[2] \in functions /\ 256 * d[3] + d[4] = Len(d)
    THEN AfterHeader(From(d, 5)).rest ELSE <<>>

Pdu(apdu) == apdu[1] \div 16

ParseWhoIs(d) ==
    LET says(v) == [heard |-> "WhoIs", low |-> v[1], high |-> v[2]]
        in(apdu) ==
            IF Len(apdu) < 2 \/ apdu[1] # 16 * Unconfirmed \/ apdu[2] # WhoIs THEN Unheard
            ELSE IF Len(apdu) = 2 THEN says(<<0, 4194303>>)
            ELSE Heard(Where(ReadParams(From(apdu, 3), <<Param(0), Param(1)>>),
                             LAMBDA v : IsInstance(v[2]) /\ v[1] \in 0..v[2]), says) IN
    in(Apdu(d, {Unicast, Broadcast}, 8))

\* "Malformed", "Unrelated" or "Confirmed", with the service and what follows it.
ConfirmedHeader(d) ==
    LET in(apdu) ==
            IF apdu = <<>> THEN [status |-> "Malformed"]
            ELSE IF Pdu(apdu) # Confirmed THEN [status |-> "Unrelated"]
            ELSE IF Len(apdu) < 4 THEN [status |-> "Malformed"]
            ELSE [status |-> "Confirmed", invoke |-> apdu[3], service |-> apdu[4], rest |-> From(apdu, 5)] IN
    in(Apdu(d, {Unicast}, 4))
IsRequest(d, services) ==
    LET in(header) == header.status = "Confirmed" /\ header.service \in services IN
    in(ConfirmedHeader(d))

ReadRequestIn(header) ==
    Heard(ReadParams(header.rest, <<ObjectParam(0), Param(1), AtEnd(2, NoIndex)>>),
          LAMBDA v : [heard |-> "ReadProperty", invoke |-> header.invoke,
                      request |-> [object |-> v[1], property |-> v[2], index |-> v[3]]])
ParseReadRequest(d) ==
    IF IsRequest(d, {ReadProperty}) THEN ReadRequestIn(ConfirmedHeader(d)) ELSE Unheard

WriteRequestIn(header) ==
    LET params == <<ObjectParam(0), Param(1), Optional(2, NoIndex), Octet(62), ValueOf(2), Octet(63),
                    AtEnd(4, NoPriority)>>
        says(v) == [heard |-> "WriteProperty", invoke |-> header.invoke,
                    request |-> [object |-> v[1], property |-> v[2], index |-> v[3]],
                    value |-> v[5], priority |-> v[7]] IN
    Heard(Where(ReadParams(header.rest, params),
                LAMBDA v : v[7] \in {NoPriority} \union 0..255), says)
ParseWriteRequest(d) ==
    IF IsRequest(d, {WriteProperty}) THEN WriteRequestIn(ConfirmedHeader(d)) ELSE Unheard

\* A number below zero among the Reals of 32 bits.
IsNegative(real) == real \in -2147483647 .. -8388608

SubscriptionIn(header) ==
    LET ofProperty == header.service = SubscribeCovProperty
        subscription(process, object, property, index, confirmed, lifetime, increment) ==
            [ofProperty |-> ofProperty, processId |-> process, object |-> object, property |-> property,
             index |-> index, confirmed |-> confirmed = 1, lifetime |-> lifetime, increment |-> increment]
        says(s) == [heard |-> "Subscribe", invoke |-> header.invoke, subscription |-> s]
        one(v) == says(subscription(v[1], v[2], PresentValueId, NoIndex, v[3], v[4], Null))
        other(v) == says(subscription(v[1], v[2], v[4], v[5], v[7], v[8], v[9])) IN
    IF ofProperty
    THEN Heard(Where(ReadParams(header.rest,
                        <<Param(0), ObjectParam(1), Octet(46), Param(0), Optional(1, NoIndex), Octet(47),
                          Optional(3, 0), Optional(4, 0), RealAtEnd(5)>>),
                     LAMBDA v : v[7] \in {0, 1} /\ (v[9] # Null => ~IsNegative(v[9][2]))), other)
    ELSE Heard(Where(ReadParams(header.rest,
                        <<Param(0), ObjectParam(1), Optional(2, 0), Optional(3, 0)>>),
                     LAMBDA v : v[3] \in {0, 1}), one)
ParseSubscribe(d) ==
    IF IsRequest(d, {SubscribeCov, SubscribeCovProperty}) THEN SubscriptionIn(ConfirmedHeader(d)) ELSE Unheard

\* Mutant: any invoke id will do.
ClassifyAnyAnswer(apdu, invoke, service, positive) ==
    IF Len(apdu) < 2 THEN "Unrelated"
    ELSE IF Pdu(apdu) \in {positive, ErrorPdu} /\ Len(apdu) >= 3 /\ apdu[3] = service
    THEN IF Pdu(apdu) = positive THEN "Ack" ELSE "Error"
    ELSE IF Pdu(apdu) = RejectPdu THEN "Reject"
    ELSE IF Pdu(apdu) = AbortPdu THEN "Abort"
    ELSE "Unrelated"

\* What an answer is to the request of an invoke id, before its parameters.
ClassifyAnswer(apdu, invoke, service, positive) ==
    IF Len(apdu) < 2 \/ apdu[2] # invoke THEN "Unrelated"
    ELSE IF Pdu(apdu) \in {positive, ErrorPdu} /\ Len(apdu) >= 3 /\ apdu[3] = service
    THEN IF Pdu(apdu) = positive THEN "Ack" ELSE "Error"
    ELSE IF Pdu(apdu) = RejectPdu THEN "Reject"
    ELSE IF Pdu(apdu) = AbortPdu THEN "Abort"
    ELSE "Unrelated"

ClassifyRead(d, invoke) ==
    ClassifyAnswer(Apdu(d, {Unicast, Broadcast}, 8), invoke, ReadProperty, ComplexAck)
ClassifyWrite(d, invoke) ==
    ClassifyAnswer(Apdu(d, {Unicast, Broadcast}, 8), invoke, WriteProperty, SimpleAck)
ClassifySubscribe(d, invoke, service) ==
    ClassifyAnswer(Apdu(d, {Unicast}, 8), invoke, service, SimpleAck)
ClassifyNotificationAnswer(d, invoke) ==
    ClassifyAnswer(Apdu(d, {Unicast}, 8), invoke, ConfirmedCovNotification, SimpleAck)

\* The parameters of an acknowledged read, up to the opening tag.
ReadAckParams(apdu, invoke, params) ==
    IF Len(apdu) >= 3 /\ Pdu(apdu) = ComplexAck /\ apdu[2] = invoke /\ apdu[3] = ReadProperty
    THEN ReadParams(From(apdu, 4), params) ELSE Unread
IndexedParams == <<Param(0), Param(1), Optional(2, NoIndex), Octet(62)>>
PlainParams == <<Param(0), Param(1), Octet(62)>>
Names(v, request) == v[1] = Number(ObjectOctets(request.object)) /\ v[2] = request.property

\* An entry is taken for the whole, but never for another entry.
ReadAckHeader(apdu, invoke, request) ==
    Mapped(Where(ReadAckParams(apdu, invoke, IndexedParams),
                 LAMBDA v : Names(v, request) /\ (request.index # NoIndex => v[3] = request.index)),
           LAMBDA v : v[3])
\* The poll that is given a property takes it of any object, at any index.
PropertyAckHeader(apdu, invoke, property) ==
    Mapped(Where(ReadAckParams(apdu, invoke, IndexedParams), LAMBDA v : v[2] = property),
           LAMBDA v : v[3])
PriorityArrayHeader(apdu, invoke, request) ==
    Where(ReadAckParams(apdu, invoke, PlainParams), LAMBDA v : Names(v, request))

\* What follows the closing tag is not looked at.
ReadAckIn(header, property) ==
    Heard(Before(IF header.ok THEN ReadValue(header.rest, property, header.value) ELSE Unread, 63),
          LAMBDA v : [heard |-> "Value", value |-> v])
ParseReadAck(d, invoke, request) ==
    ReadAckIn(ReadAckHeader(Apdu(d, {Unicast}, 17), invoke, request), request.property)
ParsePropertyAck(d, invoke, property) ==
    ReadAckIn(PropertyAckHeader(Apdu(d, {Unicast}, 17), invoke, property), property)

NextSlot(r, k) ==
    LET after(slot) == IF slot.ok THEN Read(Append(r.value, slot.value), slot.rest) ELSE Unread IN
    IF ~r.ok \/ r.rest = <<>> \/ r.rest[1] = 63 THEN Unread ELSE after(ReadScalar(r.rest))
ReadSlots(os) == Iterated(NextSlot, Read(<<>>, os), 16)
ParsePriorityArrayAck(d, invoke, request) ==
    LET read(header) == IF header.ok THEN ReadSlots(header.rest) ELSE Unread
        whole(r) == IF r.rest = <<63>> THEN Read(r.value, <<>>) ELSE Unread IN
    IF request.property = PriorityArrayId /\ request.index = NoIndex
    THEN Heard(whole(read(PriorityArrayHeader(Apdu(d, {Unicast}, 17), invoke, request))),
               LAMBDA v : [heard |-> "Slots", slots |-> v])
    ELSE Unheard

\* An error that does not say which is still an error.
ParseReadError(d, invoke) ==
    LET says(r) == IF r.ok THEN [heard |-> "Error", class |-> r.value[1], code |-> r.value[2]]
                   ELSE [heard |-> "Error", class |-> 0, code |-> 0]
        in(apdu) ==
            IF Len(apdu) < 3 \/ Pdu(apdu) # ErrorPdu \/ apdu[2] # invoke \/ apdu[3] # ReadProperty
            THEN Unheard
            ELSE says(ReadParams(From(apdu, 4), <<ApplicationParam(9), ApplicationParam(9)>>)) IN
    in(Apdu(d, {Unicast}, 13))

\* The list of a notification, up to its closing tag.
NextCovValue(r, k) ==
    LET params == <<Param(0), Optional(1, NoIndex), Octet(46), ValueOf(1), Octet(47),
                    Optional(3, NoPriority)>>
        value(v) == [property |-> v[1], index |-> v[2], value |-> v[4]]
        after(next) == IF next.ok THEN Read(Append(r.value, value(next.value)), next.rest) ELSE Unread IN
    IF ~r.ok \/ r.rest = <<>> \/ r.rest[1] = 79 THEN r ELSE after(ReadParams(r.rest, params))
ReadValues(os) == Iterated(NextCovValue, Read(<<>>, os), Len(os) \div 5 + 1)

\* The device is read and forgotten; the value that counts is the last
\* Present_Value, or the first of all.
NotificationIn(apdu, isConfirmed, maxProperties) ==
    LET main(values) ==
            LET present == {i \in DOMAIN values : i = 1 \/ values[i].property = PresentValueId} IN
            values[CHOOSE i \in present : \A j \in present : j <= i]
        says(v) ==
            [heard |-> "Notification", confirmed |-> isConfirmed,
             invoke |-> IF isConfirmed THEN apdu[3] ELSE 0,
             processId |-> v[1], object |-> v[3], main |-> main(v[6]),
             values |-> SubSeq(v[6], 1, IF Len(v[6]) < maxProperties THEN Len(v[6]) ELSE maxProperties)]
        withValues(r) ==
            IF r.ok THEN Mapped(ReadValues(r.rest), LAMBDA values : Append(r.value, values)) ELSE Unread
        whole(r) == IF r.ok /\ r.rest = <<79>> /\ r.value[6] # <<>> THEN says(r.value) ELSE Unheard IN
    whole(withValues(ReadParams(From(apdu, IF isConfirmed THEN 5 ELSE 3),
                                <<Param(0), Param(1), ObjectParam(2), Param(3), Octet(78)>>)))
ParseCovNotification(d, maxProperties) ==
    LET in(apdu) ==
            IF Len(apdu) >= 4 /\ Pdu(apdu) = Confirmed /\ apdu[4] = ConfirmedCovNotification
            THEN NotificationIn(apdu, TRUE, maxProperties)
            ELSE IF Len(apdu) >= 2 /\ apdu[1] = 16 * Unconfirmed /\ apdu[2] = UnconfirmedCovNotification
            THEN NotificationIn(apdu, FALSE, maxProperties)
            ELSE Unheard IN
    in(Apdu(d, {Unicast, Broadcast}, 20))

\* Octets after the last parameter are passed over.
ParseIAm(d) ==
    LET fits(v) == ObjectFrom(v[1]).type = DeviceType /\ v[3] \in 0..255 /\ v[4] \in Below(65536)
        says(v) == [heard |-> "IAm", device |->
            [instance |-> ObjectFrom(v[1]).instance, maxApdu |-> v[2],
             segmentation |-> v[3], vendor |-> v[4]]]
        ended(r) == IF r.ok /\ fits(r.value) THEN says(r.value) ELSE Unheard
        in(apdu) ==
            IF Len(apdu) < 2 \/ apdu[1] # 16 * Unconfirmed \/ apdu[2] # IAm THEN Unheard
            ELSE ended(ReadParams(From(apdu, 3),
                     <<ApplicationParam(12), ApplicationParam(2), ApplicationParam(9),
                       ApplicationParam(2)>>)) IN
    in(Apdu(d, {Unicast, Broadcast}, 14))
================================================================================
