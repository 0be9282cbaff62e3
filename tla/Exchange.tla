------------------------------- MODULE Exchange -------------------------------
(***************************************************************************)
(* A client and a server that talk in octets: the requests and polls of    *)
(* BacnetClient, the dispatch of BacnetServer::poll() with its answers and *)
(* notifications, and a network that loses, repeats and reorders.          *)
(*                                                                         *)
(* Beside its octets a datagram has the number of the request it belongs   *)
(* to and what its sender means to be heard; only the octets are read.     *)
(* What the server keeps is reduced to one commandable output, one COV     *)
(* entry and the contents of other properties: ServerObjects, Commandable- *)
(* Object and CovServer have these in full.                                *)
(***************************************************************************)
EXTENDS Codec, FiniteSets

CONSTANTS
    Device,         \* what the server's I-Am says
    Output,         \* its commandable object, an Analog Output
    Contents,       \* what its other properties say at first
    Changes,        \* properties that the application changes, with what to
    Requests,       \* what the client asks
    ClientBuffer,   \* kMaxDiscoveryPacketSize, 512 in the code
    ServerBuffer,   \* kMaxDatagramSize, 1476 in the code
    QueueSize,      \* kMaxQueuedCovNotifications, 32 in the code
    MaxRequests, MaxNotices, MaxInFlight    \* bounds

StatusFlagsId == 111
OutOfServiceId == 81
RelinquishDefaultId == 104
MaxProperties == 4      \* BacnetCovNotification::kMaxProperties

Served == {ReadProperty, WriteProperty, SubscribeCov, SubscribeCovProperty}

Int32 == {n \in Int : -2147483647 - 1 <= n /\ n <= 2147483647}
ObjectIds == [type : 0..1023, instance : Instances]
Values ==
    {Null} \union ({"Boolean"} \X BOOLEAN)
    \union ({"Unsigned", "Signed", "Real", "Enumerated"} \X Int32)
    \union ({"CharacterString"} \X Seq(0..255)) \union ({"BitString"} \X Seq(BOOLEAN))
    \union ({"ObjectIdentifier"} \X ObjectIds)

\* The lists of a device are those the client can read as a whole.
IsContentOf(property, content) ==
    CASE property = ObjectListId -> content \in {"List"} \X Seq({"ObjectIdentifier"} \X ObjectIds)
      [] property = PropertyListId -> content \in {"List"} \X Seq({"Enumerated"} \X Int32)
      [] property = DeviceAddressBindingId -> content = <<"List", <<>>>>
      [] OTHER -> property # PriorityArrayId /\ content \in Values

Asked == [object : [type : 0..1023, instance : Int32], property : Int32, index : Int32]
Subscriptions ==
    [ofProperty : BOOLEAN, processId : Int32, object : [type : 0..1023, instance : Int32],
     property : Int32, index : Int32, confirmed : BOOLEAN, lifetime : Int32,
     increment : {Null} \union ({"Real"} \X Int32)]
IsRequestOfAClient(r) ==
    CASE r.kind = "Discover" -> TRUE
      [] r.kind = "Read" -> r.request \in Asked
      [] r.kind = "Write" -> r.request \in Asked /\ r.value \in Values /\ r.priority \in -1..255
      [] r.kind = "Subscribe" -> r.subscription \in Subscriptions
      [] OTHER -> r.kind = "Other" /\ r.service \in 0..255 \ Served

\* Invoke ids, an octet each, do not come round.
ASSUME ExchangeAssumption ==
    /\ Device \in [instance : Instances, maxApdu : Int32, segmentation : 0..255, vendor : Below(65536)]
    /\ Output \in ObjectIds
    /\ \A point \in DOMAIN Contents :
          /\ point \in ObjectIds \X Int32
          /\ IsContentOf(point[2], Contents[point])
    /\ <<Output, RelinquishDefaultId>> \in DOMAIN Contents
    /\ <<Output, OutOfServiceId>> \in DOMAIN Contents
    /\ \A change \in Changes :
          change.point \in DOMAIN Contents /\ IsContentOf(change.point[2], change.content)
    /\ \A r \in Requests : IsRequestOfAClient(r)
    /\ MaxRequests \in 0..255 /\ MaxNotices \in 0..255
    /\ ClientBuffer \in Nat /\ ServerBuffer \in Nat /\ QueueSize \in Nat \ {0} /\ MaxInFlight \in Nat

VARIABLES
    held,       \* the contents of properties, by object and property
    slots,      \* the priority array of Output
    entry,      \* the server's COV subscription, or Inactive
    awaited,    \* the invoke id of the notification it awaits the answer to, or 0
    notices,    \* how many notifications it has sent
    asked,      \* the requests so far: the n-th has invoke id n
    pending,    \* whether the client polls for the answer to the last of them
    queued,     \* queuedCovNotifications_
    network,    \* the datagrams on their way
    concluded,  \* number and outcome of the requests that were answered
    answered    \* number and outcome of the answers that were given

serverVars == <<held, slots, entry, awaited, notices>>
clientVars == <<asked, pending, queued, concluded>>
vars == <<serverVars, clientVars, network, answered>>

\* One datagram, or none when nothing could be built.
Message(to, number, octets, said) ==
    IF octets = <<>> THEN {} ELSE {[to |-> to, number |-> number, octets |-> octets, said |-> said]}

\* Datagrams arrive once, again, or not at all.
Exchanged(taken, sent) ==
    /\ network' = (network \ taken) \union sent
    /\ Cardinality(network') <= MaxInFlight
Kept(d) == {{d}, {}}
Arrived(d, size) == SubSeq(d.octets, 1, IF Len(d.octets) < size THEN Len(d.octets) ELSE size)

-----------------------------------------------------------------------------
\* What the server answers.

Objects == {point[1] : point \in DOMAIN held}
Effective ==
    LET occupied == {p \in 1..16 : slots[p] # Null} IN
    IF occupied = {} THEN held[<<Output, RelinquishDefaultId>>]
    ELSE slots[CHOOSE p \in occupied : \A q \in occupied : p <= q]
Points == DOMAIN held \union {<<Output, PresentValueId>>, <<Output, PriorityArrayId>>}
Content(point) ==
    CASE point = <<Output, PresentValueId>> -> Effective
      [] point = <<Output, PriorityArrayId>> -> <<"List", slots>>
      [] OTHER -> held[point]
IsList(content) == content[1] = "List"

Reply(outcome, octets) == [outcome |-> outcome, octets |-> octets]
ReplyError(invoke, service, class, code) ==
    Reply([heard |-> "Error", class |-> class, code |-> code],
          BuildError(ServerBuffer, invoke, service, class, code))
ReplyAck(invoke, service) == Reply([heard |-> "Ack"], BuildSimpleAck(ServerBuffer, invoke, service))

\* The value a peer should make of a list, of its length or of an entry.
ListMeant(request, entries) ==
    LET contents == [i \in DOMAIN entries |-> entries[i][2]]
        value(v) == [heard |-> "Value", value |-> v] IN
    IF request.index = 0 THEN value(<<"Unsigned", Len(entries)>>)
    ELSE IF request.index \in DOMAIN entries THEN value(entries[request.index])
    ELSE CASE request.property = ObjectListId -> value(<<"ObjectIdentifierList", contents>>)
           [] request.property = PropertyListId -> value(<<"PropertyIdentifierList", contents>>)
           [] request.property = PriorityArrayId -> [heard |-> "Slots", slots |-> entries]
           [] OTHER -> value(<<"Empty">>)

\* handleReadProperty().
ReadReply(invoke, request) ==
    LET point == <<request.object, request.property>>
        error(class, code) == ReplyError(invoke, ReadProperty, class, code) IN
    IF request.object \notin Objects THEN error(1, 31)
    ELSE IF point \in Points /\ IsList(Content(point)) THEN
        LET entries == Content(point)[2] IN
        IF request.index \notin {NoIndex} \union 0..Len(entries)
           \/ (entries = <<>> /\ request.index # NoIndex)
        THEN error(2, 42)
        ELSE Reply(ListMeant(request, entries),
                   IF entries = <<>> THEN BuildEmptyListAck(ServerBuffer, invoke, request)
                   ELSE BuildListAck(ServerBuffer, invoke, request, entries))
    ELSE IF request.index # NoIndex THEN error(2, 42)
    ELSE IF point \notin Points THEN error(2, 32)
    ELSE Reply([heard |-> "Value", value |-> Content(point)],
               BuildReadAck(ServerBuffer, invoke, request, Content(point)))

\* handleWriteProperty(): priority 16 when there is none.
Priority(write) == IF write.priority = NoPriority THEN 16 ELSE write.priority
WriteError(write) ==
    LET request == write.request IN
    CASE request.object # Output -> <<1, 31>>
      [] request.object = Output /\ request.index # NoIndex -> <<2, 42>>
      [] request.object = Output /\ request.index = NoIndex ->
            CASE request.property = PresentValueId ->
                    IF Priority(write) \notin 1..16 THEN <<2, 37>>
                    ELSE IF write.value[1] \notin {"Null", "Real"} THEN <<2, 9>> ELSE <<>>
              [] request.property = OutOfServiceId ->
                    IF write.priority # NoPriority \/ write.value[1] # "Boolean" THEN <<2, 9>> ELSE <<>>
              [] OTHER -> <<2, 40>>

\* handleSubscribeCov(), with a table of one entry.
Inactive == [lifetime |-> 0]
SameEntry(subscription) ==
    /\ entry # Inactive
    /\ \A key \in {"ofProperty", "processId", "object", "property", "index"} :
          entry[key] = subscription[key]
CovReadable(object, property) ==
    object.type # DeviceType /\ <<object, property>> \in Points /\ ~IsList(Content(<<object, property>>))
SubscribeError(subscription) ==
    LET object == subscription.object IN
    IF \/ subscription.index # NoIndex \/ ~CovReadable(object, subscription.property)
       \/ ~subscription.ofProperty /\ ~CovReadable(object, StatusFlagsId)
    THEN <<2, 32>>
    ELSE IF subscription.increment # Null
            /\ (subscription.property # PresentValueId \/ Content(<<object, PresentValueId>>)[1] # "Real")
    THEN <<2, 37>>
    ELSE IF subscription.lifetime # 0 /\ entry # Inactive /\ ~SameEntry(subscription) THEN <<2, 18>>
    ELSE <<>>

-----------------------------------------------------------------------------
Init ==
    /\ held = Contents
    /\ slots = [p \in 1..16 |-> Null]
    /\ entry = Inactive
    /\ awaited = 0
    /\ notices = 0
    /\ asked = <<>>
    /\ pending = FALSE
    /\ queued = <<>>
    /\ network = {}
    /\ concluded = {}
    /\ answered = {}

-----------------------------------------------------------------------------
\* The client asks.

Requested(request, n) ==
    CASE request.kind = "Discover" -> BuildWhoIs(8)
      [] request.kind = "Read" -> BuildReadRequest(25, n, request.request)
      [] request.kind = "Write" ->
            BuildWriteRequest(544, n, request.request, request.value, request.priority)
      [] request.kind = "Subscribe" ->
            IF request.subscription.ofProperty
            THEN BuildSubscribeCovProperty(40, n, request.subscription)
            ELSE BuildSubscribeCov(40, n, request.subscription)
      [] OTHER -> ConfirmedRequest(n, request.service, <<>>)
RequestMeant(request, n) ==
    CASE request.kind = "Discover" -> [heard |-> "WhoIs", low |-> 0, high |-> 4194303]
      [] request.kind = "Read" -> [heard |-> "ReadProperty", invoke |-> n, request |-> request.request]
      [] request.kind = "Write" ->
            [heard |-> "WriteProperty", invoke |-> n, request |-> request.request,
             value |-> request.value, priority |-> request.priority]
      [] request.kind = "Subscribe" ->
            [heard |-> "Subscribe", invoke |-> n, subscription |-> request.subscription]
      [] OTHER -> [heard |-> "Other", invoke |-> n]

\* sendReadProperty() and the others; a request of another kind is another
\* program's, and its answer goes elsewhere.
Ask(request) ==
    LET n == Len(asked) + 1 IN
    /\ n <= MaxRequests /\ ~pending
    /\ Requested(request, n) # <<>>
    /\ asked' = Append(asked, request)
    /\ pending' = (request.kind # "Other")
    /\ Exchanged({}, Message("Server", n, Requested(request, n), RequestMeant(request, n)))
    /\ UNCHANGED <<serverVars, queued, concluded, answered>>

\* The caller stops polling when its time is up.
GiveUp ==
    /\ pending
    /\ pending' = FALSE
    /\ UNCHANGED <<serverVars, asked, queued, network, concluded, answered>>

-----------------------------------------------------------------------------
\* The server polls.  A datagram that none of these takes is dropped.

\* To the source of d, and noted.
Respond(d, taken, reply) ==
    LET said == [heard |-> "Answer", number |-> d.number,
                 request |-> asked[d.number], outcome |-> reply.outcome] IN
    /\ Exchanged(taken, Message("Client", d.number, reply.octets, said))
    /\ answered' = answered \union {<<d.number, reply.outcome>>}

\* Any final answer ends the wait.
TakeNotificationAnswer(d, taken) ==
    /\ awaited # 0 /\ ClassifyNotificationAnswer(Arrived(d, ServerBuffer), awaited) # "Unrelated"
    /\ awaited' = 0
    /\ Exchanged(taken, {})
    /\ UNCHANGED <<held, slots, entry, notices, clientVars, answered>>

AnswerWhoIs(d, taken) ==
    LET iAm == [heard |-> "IAm", device |-> Device] IN
    /\ \E whoIs \in {ParseWhoIs(Arrived(d, ServerBuffer))} \ {Unheard} :
          Device.instance \in whoIs.low .. whoIs.high
    /\ Exchanged(taken, Message("Client", d.number, BuildIAm(26, Device), iAm))
    /\ answered' = answered \union {<<d.number, iAm>>}
    /\ UNCHANGED <<serverVars, clientVars>>

AnswerRead(d, taken) ==
    /\ \E read \in {ParseReadRequest(Arrived(d, ServerBuffer))} \ {Unheard} :
          Respond(d, taken, ReadReply(read.invoke, read.request))
    /\ UNCHANGED <<serverVars, clientVars>>

AnswerWrite(d, taken) ==
    /\ \E write \in {ParseWriteRequest(Arrived(d, ServerBuffer))} \ {Unheard} :
       \E error \in {WriteError(write)} :
          \/ /\ error # <<>>
             /\ Respond(d, taken, ReplyError(write.invoke, WriteProperty, error[1], error[2]))
             /\ UNCHANGED <<held, slots>>
          \/ /\ error = <<>>
             /\ Respond(d, taken, ReplyAck(write.invoke, WriteProperty))
             /\ IF write.request.property = PresentValueId
                THEN /\ slots' = [slots EXCEPT ![Priority(write)] = write.value]
                     /\ UNCHANGED held
                ELSE /\ held' = [held EXCEPT ![<<Output, OutOfServiceId>>] = write.value]
                     /\ UNCHANGED slots
    /\ UNCHANGED <<entry, awaited, notices, clientVars>>

\* A registration anew awaits nothing.
AnswerSubscribe(d, taken) ==
    /\ \E heard \in {ParseSubscribe(Arrived(d, ServerBuffer))} \ {Unheard} :
       \E error \in {SubscribeError(heard.subscription)} :
          LET subscription == heard.subscription
              service == IF subscription.ofProperty THEN SubscribeCovProperty ELSE SubscribeCov
              ends == subscription.lifetime = 0 IN
          \/ /\ error # <<>>
             /\ Respond(d, taken, ReplyError(heard.invoke, service, error[1], error[2]))
             /\ UNCHANGED <<entry, awaited>>
          \/ /\ error = <<>>
             /\ Respond(d, taken, ReplyAck(heard.invoke, service))
             /\ IF ends /\ ~SameEntry(subscription)
                THEN UNCHANGED <<entry, awaited>>
                ELSE entry' = (IF ends THEN Inactive ELSE subscription) /\ awaited' = 0
    /\ UNCHANGED <<held, slots, notices, clientVars>>

RejectOther(d, taken) ==
    /\ \E header \in {ConfirmedHeader(Arrived(d, ServerBuffer))} :
          /\ header.status = "Confirmed" /\ header.service \notin Served
          /\ Respond(d, taken, Reply([heard |-> "Reject"], BuildReject(9, header.invoke, 9)))
    /\ UNCHANGED <<serverVars, clientVars>>

ServerDrops(d, taken) ==
    LET octets == Arrived(d, ServerBuffer) IN
    /\ awaited = 0 \/ ClassifyNotificationAnswer(octets, awaited) = "Unrelated"
    /\ {ParseWhoIs(octets), ParseReadRequest(octets), ParseWriteRequest(octets),
        ParseSubscribe(octets)} = {Unheard}
    /\ ConfirmedHeader(octets).status = "Confirmed" => IsRequest(octets, Served)
    /\ Exchanged(taken, {})
    /\ UNCHANGED <<serverVars, clientVars, answered>>

\* processCovSubscriptions(): when to send is the subject of CovServer.
CovValues ==
    LET value(property) ==
            [property |-> property, index |-> entry.index, value |-> Content(<<entry.object, property>>)] IN
    IF entry.ofProperty THEN <<value(entry.property)>> ELSE <<value(PresentValueId), value(StatusFlagsId)>>
Notify ==
    LET notification ==
            [processId |-> entry.processId, device |-> Device.instance, object |-> entry.object,
             remaining |-> entry.lifetime, confirmed |-> entry.confirmed, values |-> CovValues]
        invoke == IF entry.confirmed THEN notices + 1 ELSE 0
    IN
    /\ entry # Inactive /\ awaited = 0 /\ notices < MaxNotices
    /\ Exchanged({}, Message("Client", 0, BuildCovNotification(ServerBuffer, invoke, notification),
            [heard |-> "Notification", confirmed |-> entry.confirmed, invoke |-> invoke,
             processId |-> entry.processId, object |-> entry.object,
             main |-> CovValues[1], values |-> CovValues]))
    /\ awaited' = invoke
    /\ notices' = notices + 1
    /\ UNCHANGED <<held, slots, entry, clientVars, answered>>

ChangeContent(change) ==
    /\ held[change.point] # change.content
    /\ held' = [held EXCEPT ![change.point] = change.content]
    /\ UNCHANGED <<slots, entry, awaited, notices, clientVars, network, answered>>

-----------------------------------------------------------------------------
\* The client polls.

\* What the poll for a request makes of a datagram.
OutcomeOf(d, n, value) ==
    LET decoded(parsed) == IF parsed = Unheard THEN [heard |-> "DecodeError"] ELSE parsed
        as(kind) ==
            CASE kind = "Unrelated" -> Unheard
              [] kind \in {"Reject", "Abort"} -> [heard |-> kind]
              [] kind = "Ack" -> decoded(value)
              [] kind = "Error" -> decoded(ParseReadError(d, n)) IN
    as(ClassifyRead(d, n))
ReadOutcome(d, n, request) ==
    OutcomeOf(d, n, IF request.property = PriorityArrayId /\ request.index = NoIndex
                    THEN ParsePriorityArrayAck(d, n, request) ELSE ParseReadAck(d, n, request))
\* The poll that is given only the property it waits for.
PropertyOutcome(d, n, property) == OutcomeOf(d, n, ParsePropertyAck(d, n, property))
\* Which error it was is known for one of them only, in one place.
WriteOutcome(d, n) ==
    LET kind == ClassifyWrite(d, n) IN
    CASE kind = "Unrelated" -> Unheard
      [] kind = "Error" ->
            [heard |-> IF Len(d) >= 13 /\ SubSeq(d, 10, 13) = <<145, 2, 145, 40>>
                       THEN "NotCommandable" ELSE "Refused"]
      [] OTHER -> [heard |-> kind]
SubscribeOutcome(d, n, subscription) ==
    LET kind == ClassifySubscribe(d, n,
                    IF subscription.ofProperty THEN SubscribeCovProperty ELSE SubscribeCov) IN
    CASE kind = "Unrelated" -> Unheard
      [] kind = "Error" -> [heard |-> "Refused"]
      [] OTHER -> [heard |-> kind]
Outcome(d, n, request) ==
    CASE request.kind = "Discover" -> ParseIAm(d)
      [] request.kind = "Read" -> ReadOutcome(d, n, request.request)
      [] request.kind = "Write" -> WriteOutcome(d, n)
      [] request.kind = "Subscribe" -> SubscribeOutcome(d, n, request.subscription)
      [] OTHER -> Unheard

Acknowledgement(notification) ==
    IF ~notification.confirmed THEN {}
    ELSE Message("Server", 0, BuildSimpleAck(16, notification.invoke, ConfirmedCovNotification),
                 [heard |-> "NotificationAnswer", invoke |-> notification.invoke, kind |-> "Ack"])

\* The poll for a registration keeps notifications, the others drop them.
PollRequest(d, taken) ==
    LET n == Len(asked)
        octets == Arrived(d, ClientBuffer) IN
    /\ pending
    /\ \E notification \in {ParseCovNotification(octets, MaxProperties)} :
       \E keeps \in {asked[n].kind = "Subscribe" /\ notification # Unheard} :
       \E outcome \in {IF keeps THEN Unheard ELSE Outcome(octets, n, asked[n])} :
          /\ pending' = (outcome = Unheard)
          /\ concluded' = IF outcome = Unheard THEN concluded ELSE concluded \union {<<n, outcome>>}
          /\ queued' = IF ~keeps THEN queued
                       ELSE Append(IF Len(queued) = QueueSize THEN Tail(queued) ELSE queued, notification)
    /\ Exchanged(taken, {})
    /\ UNCHANGED <<serverVars, asked, answered>>

\* pollCovNotification(): what is queued first.
PollQueued ==
    /\ ~pending /\ queued # <<>>
    /\ queued' = Tail(queued)
    /\ Exchanged({}, Acknowledgement(Head(queued)))
    /\ UNCHANGED <<serverVars, asked, pending, concluded, answered>>
PollNotification(d, taken) ==
    LET notification == ParseCovNotification(Arrived(d, ClientBuffer), MaxProperties) IN
    /\ ~pending /\ queued = <<>>
    /\ Exchanged(taken, IF notification = Unheard THEN {} ELSE Acknowledgement(notification))
    /\ UNCHANGED <<serverVars, clientVars, answered>>

Lose(d) ==
    /\ network' = network \ {d}
    /\ UNCHANGED <<serverVars, clientVars, answered>>

-----------------------------------------------------------------------------
ServerPolls(d, taken) ==
    \/ TakeNotificationAnswer(d, taken)
    \/ AnswerWhoIs(d, taken)
    \/ AnswerRead(d, taken)
    \/ AnswerWrite(d, taken)
    \/ AnswerSubscribe(d, taken)
    \/ RejectOther(d, taken)
    \/ ServerDrops(d, taken)
ClientPolls(d, taken) == PollRequest(d, taken) \/ PollNotification(d, taken)

Next ==
    \/ \E request \in Requests : Ask(request)
    \/ GiveUp \/ Notify \/ PollQueued
    \/ \E change \in Changes : ChangeContent(change)
    \/ \E d \in network : Lose(d)
    \/ \E d \in network : \E taken \in Kept(d) :
          IF d.to = "Server" THEN ServerPolls(d, taken) ELSE ClientPolls(d, taken)

Spec == Init /\ [][Next]_vars

-----------------------------------------------------------------------------
\* What can be heard in octets, on either side.

AtServer(octets) ==
    ({ParseWhoIs(octets), ParseReadRequest(octets), ParseWriteRequest(octets), ParseSubscribe(octets)}
        \ {Unheard})
    \union {[heard |-> "NotificationAnswer", invoke |-> n, kind |-> ClassifyNotificationAnswer(octets, n)] :
                n \in {n \in 1..MaxNotices : ClassifyNotificationAnswer(octets, n) # "Unrelated"}}
    \union (IF IsRequest(octets, 0..255 \ Served)
            THEN {[heard |-> "Other", invoke |-> ConfirmedHeader(octets).invoke]} ELSE {})

ToAll(octets) == {ParseIAm(octets), ParseCovNotification(octets, MaxProperties)} \ {Unheard}
ToRequests(octets) ==
    {a \in {[heard |-> "Answer", number |-> n, request |-> r, outcome |-> Outcome(octets, n, r)] :
                n \in 1..MaxRequests, r \in {r \in Requests : r.kind # "Discover"}} :
        a.outcome \notin {Unheard, [heard |-> "DecodeError"]}}

\* The polls that know only a property hear the answers to their requests too.
ToProperties(octets) ==
    {a \in {[number |-> n, property |-> p, outcome |-> PropertyOutcome(octets, n, p)] :
                n \in 1..MaxRequests, p \in {r.request.property : r \in {r \in Requests : r.kind = "Read"}}} :
        a.outcome \notin {Unheard, [heard |-> "DecodeError"]}}

\* A router adds the sender's network and address to the header.
Forwarded(octets) ==
    SubSeq(octets, 1, 2) \o Octets(Len(octets) + 4, 2) \o <<1, octets[6] + 8, 0, 9, 1, 44>>
    \o From(octets, 7)

\* The errors of a write and of a registration are not told apart, except
\* one, when it came directly.
Told(request, outcome, direct) ==
    IF outcome.heard = "Error" /\ request.kind \in {"Write", "Subscribe"}
    THEN [heard |-> IF direct /\ request.kind = "Write" /\ outcome.class = 2 /\ outcome.code = 40
                    THEN "NotCommandable" ELSE "Refused"]
    ELSE outcome

IsHeardAsSaid(d, octets) ==
    LET asker == d.said.request
        isAnswer(heard) ==
            /\ asker.kind # "Other" => \E a \in heard : a.request = asker
            /\ \A a \in heard :
                  /\ a.number = d.number
                  /\ a.outcome = Told(a.request, d.said.outcome, octets = d.octets)
                  /\ a.outcome.heard # "Reject" => a.request.kind = asker.kind
                  /\ a.outcome.heard \in {"Value", "Slots"} =>
                        /\ a.request.request.object = asker.request.object
                        /\ a.request.request.property = asker.request.property
                        /\ a.request.request.index \in {asker.request.index, NoIndex}
        isAnswerToAny(heard) ==
            /\ asker.kind = "Read" /\ d.said.outcome.heard # "Slots" =>
                  \E a \in heard : a.property = asker.request.property
            /\ \A a \in heard :
                  /\ a.number = d.number /\ a.outcome = d.said.outcome
                  /\ a.outcome.heard # "Reject" => asker.kind = "Read"
                  /\ a.outcome.heard = "Value" => a.property = asker.request.property
        answers == d.said.heard = "Answer"
    IN
    IF d.to = "Server" THEN AtServer(octets) = {d.said}
    ELSE /\ ToAll(octets) = IF answers THEN {} ELSE {d.said}
         /\ \E heard \in {ToRequests(octets)} : IF answers THEN isAnswer(heard) ELSE heard = {}
         /\ \E heard \in {ToProperties(octets)} : IF answers THEN isAnswerToAny(heard) ELSE heard = {}

\* Every datagram that is sent is heard, and as nothing but what its sender
\* means: not as a message of another kind, not by the poll for a request of
\* another invoke id, service, object, property or index (an entry also
\* passes for the whole array, and for a poll that is given only a property
\* the object and the index are not looked at), and with the value it was
\* built from -- sent directly or through a router.
HeardAsSaid ==
    [][\A d \in network' \ network :
          \A octets \in {d.octets, Forwarded(d.octets)} : IsHeardAsSaid(d, octets)]_vars

\* Of a datagram that arrives cut off nothing is heard.  Without the length
\* in its header a registration would be heard as a cancellation.
CutIsUnheard ==
    [][\A d \in network' \ network : \A k \in 1..(Len(d.octets) - 1) :
          LET cut == SubSeq(d.octets, 1, k) IN
          IF d.to = "Server" THEN AtServer(cut) = {}
          ELSE /\ ToAll(cut) = {}
               /\ d.said.heard = "Answer" => Outcome(cut, d.number, d.said.request) = Unheard]_vars

\* What a poll makes of an answer is what the server answered to that
\* request, however late, often or out of order answers arrive; any I-Am
\* answers a Who-Is.
AnswersAreMeant ==
    \A c \in concluded : \E a \in answered :
        /\ c[2] = Told(asked[c[1]], a[2], TRUE)
        /\ a[1] = c[1] \/ c[2].heard = "IAm"

\* The client has room for what the properties say: its text of MaxText
\* characters for a list, whose length is a number of 32 bits, and no list
\* but Device_Address_Binding is empty.
WidthOf(v) == IF v[1] = "ObjectIdentifier" THEN ObjectWidth(v[2]) ELSE Digits(v[2])
TextLength(entries) ==
    Iterated(LAMBDA used, k : Extended(used, WidthOf(entries[k])), 0, Len(entries))
HasRoom(value) == value[1] = "CharacterString" => Len(value[2]) < MaxText
Fits(property, content) ==
    IF IsList(content)
    THEN property # DeviceAddressBindingId =>
            content[2] # <<>> /\ Len(content[2]) \in Int32 /\ TextLength(content[2]) < MaxText
    ELSE Encode(content) # <<>> => HasRoom(content)
ContentsFit ==
    /\ \A point \in DOMAIN Contents : Fits(point[2], Contents[point])
    /\ \A change \in Changes : Fits(change.point[2], change.content)

\* The Object_List read as a whole has an entry for every object.
WholeListIsWhole ==
    \A c \in concluded :
        LET asks == asked[c[1]] IN
        (asks.kind = "Read" /\ c[2].heard = "Value" /\ c[2].value[1] = "ObjectIdentifierList") =>
            Len(c[2].value[2]) = Len(Content(<<asks.request.object, ObjectListId>>)[2])
================================================================================
