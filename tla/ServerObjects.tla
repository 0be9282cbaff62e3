----------------------------- MODULE ServerObjects -----------------------------
(***************************************************************************)
(* The objects a server answers for: how the application registers them,   *)
(* and what ReadProperty and WriteProperty of a peer find.                 *)
(*                                                                         *)
(* The application owns the objects, here Objects, and hands over arrays   *)
(* of them by kind, or single ones (addObject) that may carry properties   *)
(* of their own.  Nothing is copied: the server reads them when asked.     *)
(* What the server says of itself -- Object_List, Property_List, the       *)
(* supported types and services -- is put together from other tables than  *)
(* what it answers to a read, and registrations may change while it runs.  *)
(*                                                                         *)
(* A value is the pair of its type and its content.  A call the server     *)
(* refuses changes nothing and is no step.                                 *)
(***************************************************************************)
EXTENDS Integers, FiniteSets, FiniteSetsExt, SequencesExt

CONSTANTS
    MaxArray,       \* bounds the arrays
    RegistrationSets, Properties, WriteRequests,   \* inputs
    Objects,        \* the object structures of the application
    KindOf,         \* the structure each of them is
    Single,         \* those given to addObject, the others stand in arrays
    NumberOf,       \* the instance each has at first
    Instances,      \* valid instance numbers
    SlotCount,      \* kSlotCount, 16 in the code
    MaxAdded,       \* kMaxObjectCentric..., 8 in the code
    MaxStored       \* kMaxOptionalProperties, by kind

Kinds == {"AnalogValue", "CommandableAnalogValue", "AnalogInput", "BinaryInput",
          "AnalogOutput", "BinaryOutput", "BinaryValue", "MultiStateValue"}
AddedKinds == {"AnalogInput", "BinaryInput", "BinaryOutput"}
Commandable == {"CommandableAnalogValue", "AnalogOutput", "BinaryOutput", "BinaryValue"}
Analog == {"CommandableAnalogValue", "AnalogOutput"}

TypeOf(kind) == IF kind = "CommandableAnalogValue" THEN "AnalogValue" ELSE kind

NoIndex == -1      \* kBacnetNoArrayIndex
NoPriority == -1
Null == <<"Null">>
Nobody == "nobody"
Value(type, content) == <<type, content>>

ObjectName == [type : {"Device"} \cup {TypeOf(k) : k \in Kinds}, number : Nat]
PropertyRegistration == [name : ObjectName, property : STRING]

ASSUME ObjectsAssumption ==
    /\ Nobody \notin Objects
    /\ RegistrationSets \subseteq Seq(PropertyRegistration)
    /\ \A r \in WriteRequests :
        /\ DOMAIN r = {"name", "property", "index", "priority", "value"}
        /\ r.name \in ObjectName /\ r.priority \in Int
    /\ KindOf \in [Objects -> Kinds] /\ NumberOf \in [Objects -> Instances]
    /\ Single \subseteq {o \in Objects : KindOf[o] \in AddedKinds}
    /\ SlotCount \in Nat \ {0} /\ MaxAdded \in Nat
    /\ MaxStored \in [AddedKinds -> Nat]
    /\ Instances \subseteq Nat \ {0}

VARIABLES
    number,        \* instance of each object
    valid,         \* whether its configuration is one the server accepts
    status,        \* configurationStatus_ of a single object
    stored,        \* the properties a single object carries, with their types
    slots,         \* priority.slots and occupied of a commandable object
    outOfService,  \* outOfService
    arrays,        \* by kind, the array that is set: analogValues_ and the others
    added,         \* by kind, objectCentric...
    registered,    \* propertyRegistrations_
    device,        \* device_.deviceInstance
    running        \* running_

objectVars == <<number, valid, status, stored>>
commandVars == <<slots, outOfService>>
tableVars == <<arrays, added, registered>>
vars == <<objectVars, commandVars, tableVars, device, running>>

-----------------------------------------------------------------------------
\* The property tables.

Common == <<"ObjectIdentifier", "ObjectName", "ObjectType", "PresentValue",
            "StatusFlags", "EventState", "OutOfService">>

BaseProperties == LET With(s) == Common \o s \o <<"PropertyList">> IN
    [AnalogValue |-> With(<<"Units">>), AnalogInput |-> With(<<"Units">>),
     CommandableAnalogValue |-> With(<<"Units", "PriorityArray", "RelinquishDefault">>),
     AnalogOutput |-> With(<<"Units", "PriorityArray", "RelinquishDefault">>),
     BinaryInput |-> With(<<>>),
     BinaryOutput |-> With(<<"Reliability", "Polarity", "PriorityArray", "RelinquishDefault">>),
     BinaryValue |-> With(<<"PriorityArray", "RelinquishDefault">>),
     MultiStateValue |-> With(<<"NumberOfStates", "StateText">>)]

DeviceProperties ==
    <<"ObjectIdentifier", "ObjectName", "ObjectType", "SystemStatus", "VendorName",
      "VendorIdentifier", "ModelName", "FirmwareRevision", "ApplicationSoftwareVersion",
      "ProtocolVersion", "ProtocolRevision", "ProtocolServicesSupported",
      "ProtocolObjectTypesSupported", "ObjectList", "MaxApduLengthAccepted",
      "SegmentationSupported", "ApduTimeout", "NumberOfApduRetries",
      "DeviceAddressBinding", "DatabaseRevision", "PropertyList">>

\* Those the application gives as texts, which may be missing or too long.
DeviceTexts == {"ObjectName", "VendorName", "ModelName", "FirmwareRevision",
                "ApplicationSoftwareVersion"}

Metadata == {"Description", "Location", "SerialNumber"}

\* What an object structure answers from its own members.
OwnProperties(kind) ==
    {"ObjectIdentifier", "ObjectName", "ObjectType", "PresentValue", "StatusFlags",
     "EventState", "OutOfService"}
    \cup (IF kind \in Analog \cup {"AnalogValue", "AnalogInput"} THEN {"Units"} ELSE {})
    \cup (IF kind \in Commandable THEN {"RelinquishDefault"} ELSE {})
    \cup (IF kind = "BinaryOutput" THEN {"Reliability", "Polarity"} ELSE {})
    \cup (IF kind = "MultiStateValue" THEN {"NumberOfStates"} ELSE {})

DeviceOwnProperties == ToSet(DeviceProperties) \ {"ObjectList", "PropertyList", "DeviceAddressBinding"}

\* The types a property may be stored with, and the kinds that take it.
StorableTypes(p) ==
    CASE p = "Description" -> {"CharacterString"}
      [] p \in {"MinPresentValue", "MaxPresentValue", "Resolution"} -> {"Real"}
      [] p = "OutOfService" -> {"Boolean"}
      [] p \in {"Reliability", "EventState", "Units"} -> {"Enumerated"}
      [] p = "StatusFlags" -> {"BitString"}
      [] OTHER -> {}
Storable(kind) ==
    {"Description"}
    \cup (IF kind \in {"AnalogInput", "BinaryInput"}
          THEN {"Reliability", "EventState", "StatusFlags"} ELSE {})
    \cup (IF kind = "AnalogInput" THEN {"MinPresentValue", "MaxPresentValue", "Resolution"} ELSE {})

-----------------------------------------------------------------------------
\* Lookup.

Count(kind) == IF kind \in AddedKinds /\ added[kind] # <<>> THEN Len(added[kind])
               ELSE Len(arrays[kind])
Serving(kind) == IF kind \in AddedKinds /\ added[kind] # <<>> THEN added[kind]
                 ELSE arrays[kind]

\* The first object of a kind with that instance.
Find(kind, n) ==
    LET at == {i \in 1..Count(kind) : number[Serving(kind)[i]] = n} IN
    IF at = {} THEN Nobody ELSE Serving(kind)[Min(at)]

Name(o) == [type |-> TypeOf(KindOf[o]), number |-> number[o]]
DeviceName == [type |-> "Device", number |-> device]

\* A name of the type AnalogValue is looked up in two arrays.
Found(name) ==
    (IF name.type = "Device" THEN {} ELSE {Find(name.type, name.number)}
     \cup IF name.type = "AnalogValue" THEN {Find("CommandableAnalogValue", name.number)} ELSE {})
    \ {Nobody}

\* What is read of the commandable one replaces what is read of the other.
ObjectOf(name) ==
    LET found == Found(name)
        commandable == {o \in found : KindOf[o] \in Commandable} IN
    CASE commandable # {} -> CHOOSE o \in commandable : TRUE
      [] found = {} -> Nobody
      [] OTHER -> CHOOSE o \in found : TRUE

ObjectCount ==
    1 + Count("AnalogValue") + Count("CommandableAnalogValue") + Count("AnalogInput")
      + Count("BinaryInput") + Count("AnalogOutput") + Count("BinaryOutput")
      + Count("BinaryValue") + Count("MultiStateValue")
ObjectList ==
    LET all == Serving("AnalogValue") \o Serving("CommandableAnalogValue")
               \o Serving("AnalogInput") \o Serving("BinaryInput") \o Serving("AnalogOutput")
               \o Serving("BinaryOutput") \o Serving("BinaryValue") \o Serving("MultiStateValue")
    IN
    <<DeviceName>> \o [i \in 1..(ObjectCount - 1) |-> Name(all[i])]

Registrations(name) == {i \in DOMAIN registered : registered[i].name = name}
IsRegistered(name, p) == \E r \in ToSet(registered) : r.name = name /\ r.property = p

\* findObjectPropertySource: a single object answers from stored first.
StoredProperties(o) == IF o \in Single THEN stored[o] ELSE <<>>

\* Mutant: by the type of the name, as isBaseProperty does.
ListedKindByType(name) == name.type

ListedKind(name) ==
    IF name.type = "AnalogValue" /\ Find("CommandableAnalogValue", name.number) # Nobody
    THEN "CommandableAnalogValue" ELSE name.type

-----------------------------------------------------------------------------
\* Property_List: its length and its entries are counted out separately.

\* The registrations and the stored properties that are not in the table.
Optional(name) ==
    {i \in Registrations(name) : registered[i].property \notin ToSet(BaseProperties[ListedKind(name)])}

PropertyCount(name) ==
    IF name = DeviceName
    THEN Len(DeviceProperties) + Cardinality(Registrations(name))
    ELSE LET base == BaseProperties[ListedKind(name)]
             carried == StoredProperties(ObjectOf(name)) IN
         Len(base) + Cardinality(Optional(name))
         + Cardinality({i \in DOMAIN carried : carried[i].property \notin ToSet(base)})

\* isBaseProperty goes by the type of the name alone, and does not know them all.
IsBaseProperty(name, p) == name.type # "AnalogOutput" /\ p \in ToSet(BaseProperties[name.type])

\* The n-th of some positions, which the code comes to by counting down.
Nth(positions, n) == CHOOSE i \in positions : Cardinality({j \in positions : j <= i}) = n
Picked(s, positions) == [n \in 1..Cardinality(positions) |-> s[Nth(positions, n)].property]

PropertyEntries(name) ==
    IF name = DeviceName
    THEN DeviceProperties \o Picked(registered, Registrations(name))
    ELSE LET carried == StoredProperties(ObjectOf(name)) IN
         BaseProperties[ListedKind(name)] \o Picked(registered, Optional(name))
         \o Picked(carried, {i \in DOMAIN carried : ~IsBaseProperty(name, carried[i].property)})

-----------------------------------------------------------------------------
\* ReadProperty.

Ack(value) == [kind |-> "ack", value |-> value]
Error(class, code) == [kind |-> "error", class |-> class, code |-> code]
UnknownObject == Error(1, 31)
UnknownProperty == Error(2, 32)
InvalidIndex == Error(2, 42)

\* A list is sent whole, its length for index 0, or one entry.
ListAnswer(length, entries, index) ==
    CASE index = NoIndex -> Ack(Value("List", [i \in 1..length |-> entries[i]]))
      [] index = 0 -> Ack(Value("Unsigned", length))
      [] index \in 1..length -> Ack(entries[index])
      [] OTHER -> InvalidIndex

Identifiers(names) == [i \in DOMAIN names |-> Value("ObjectIdentifier", names[i])]
StateTexts == <<Value("CharacterString", "first"), Value("CharacterString", "second")>>
PropertyIds(ids) == [i \in DOMAIN ids |-> Value("Enumerated", ids[i])]

Occupied(o) == {p \in 1..SlotCount : slots[o][p] # Null}

\* Mutant: the entry written for the lowest priority.
EffectiveLast(o) == IF Occupied(o) = {} THEN Value("Default", o) ELSE slots[o][Max(Occupied(o))]

Effective(o) == IF Occupied(o) = {} THEN Value("Default", o)
                ELSE slots[o][Min(Occupied(o))]

\* From the structure: the command state of a commandable object, the flag
\* the network writes, or a member that the application keeps.
OwnValue(o, p) ==
    CASE p = "ObjectIdentifier" -> Value("ObjectIdentifier", Name(o))
      [] p = "PresentValue" /\ KindOf[o] \in Commandable -> Effective(o)
      [] p = "RelinquishDefault" -> Value("Default", o)
      [] p = "OutOfService" -> Value("Boolean", outOfService[o])
      [] p = "StatusFlags" -> Value("BitString", IF outOfService[o] THEN {3} ELSE {})
      [] OTHER -> Value(p, o)

\* A scaled input may have no finite value.
OwnAnswers(o, p) ==
    (IF p \in OwnProperties(KindOf[o]) THEN {Ack(OwnValue(o, p))} ELSE {UnknownProperty})
    \cup (IF KindOf[o] = "AnalogInput" /\ p = "PresentValue" THEN {UnknownProperty} ELSE {})

\* The provider of a registration may have no value to give.  A stored
\* property may have none either, unless it is enumerated, and then the
\* others are asked.
RegisteredAnswers(name, p) == {Ack(Value("Registered", <<name, p>>)), UnknownProperty}
Answers(o, p) ==
    LET carried == {s \in ToSet(StoredProperties(o)) : s.property = p} IN
    (IF carried # {} THEN {Ack(Value("Stored", <<Name(o), p>>))} ELSE {})
    \cup (IF \E s \in carried : s.type = "Enumerated" THEN {}
          ELSE IF IsRegistered(Name(o), p) THEN RegisteredAnswers(Name(o), p)
          ELSE OwnAnswers(o, p))

TypesSupported == {"Device"} \cup {TypeOf(k) : k \in {k \in Kinds : Count(k) # 0}}
ServicesSupported ==
    {"SubscribeCOV", "ReadProperty"}
    \cup (IF \E k \in Commandable : Count(k) # 0 THEN {"WriteProperty"} ELSE {})

DeviceAnswers(p) ==
    IF IsRegistered(DeviceName, p) THEN RegisteredAnswers(DeviceName, p)
    ELSE IF p \notin DeviceOwnProperties THEN {UnknownProperty}
    ELSE (IF p \in DeviceTexts THEN {UnknownProperty} ELSE {}) \cup
         {Ack(CASE p = "ProtocolObjectTypesSupported" -> Value("BitString", TypesSupported)
                [] p = "ProtocolServicesSupported" -> Value("BitString", ServicesSupported)
                [] p = "ObjectIdentifier" -> Value("ObjectIdentifier", DeviceName)
                [] OTHER -> Value(p, "device"))}

DeviceReadAnswers(p, index) ==
    CASE p = "ObjectList" -> {ListAnswer(ObjectCount, Identifiers(ObjectList), index)}
      [] p = "PropertyList" ->
            {ListAnswer(PropertyCount(DeviceName), PropertyIds(PropertyEntries(DeviceName)), index)}
      [] p \notin {"ObjectList", "PropertyList"} /\ index # NoIndex -> {InvalidIndex}
      [] p = "DeviceAddressBinding" /\ index = NoIndex -> {Ack(Value("List", <<>>))}
      [] OTHER -> DeviceAnswers(p)

\* handleReadProperty, up to the answer it builds.
ReadAnswers(name, p, index) ==
    LET o == ObjectOf(name) IN
    IF name = DeviceName THEN DeviceReadAnswers(p, index)
    ELSE IF o = Nobody THEN {UnknownObject}
    ELSE IF KindOf[o] = "MultiStateValue" /\ ~valid[o] THEN {Error(2, 37)}
    ELSE IF KindOf[o] = "MultiStateValue" /\ p = "StateText"
         THEN {ListAnswer(Len(StateTexts), StateTexts, index)}
    ELSE IF p = "PropertyList"
         THEN {ListAnswer(PropertyCount(name), PropertyIds(PropertyEntries(name)), index)}
    ELSE IF KindOf[o] \in Commandable /\ p = "PriorityArray"
         THEN {ListAnswer(SlotCount, slots[o], index)}
    ELSE IF index # NoIndex THEN {InvalidIndex}
    ELSE Answers(o, p)

-----------------------------------------------------------------------------
\* The application configures the server.  Nothing is refused for running.

Init ==
    /\ number = NumberOf
    /\ valid = [o \in Objects |-> TRUE]
    /\ status = [o \in Objects |-> "Ok"]
    /\ stored = [o \in Objects |-> <<>>]
    /\ slots = [o \in Objects |-> [p \in 1..SlotCount |-> Null]]
    /\ outOfService = [o \in Objects |-> FALSE]
    /\ arrays = [k \in Kinds |-> <<>>]
    /\ added = [k \in AddedKinds |-> <<>>]
    /\ registered = <<>>
    /\ device = 0
    /\ running = FALSE

\* Mutant: each array is checked alone.
AcceptableAlone(kind, array) ==
    /\ kind \in AddedKinds => added[kind] = <<>>
    /\ \A i \in DOMAIN array :
        /\ valid[array[i]]
        /\ \A j \in 1..(i - 1) : number[array[j]] # number[array[i]]

\* The two kinds of Analog Values may not share an instance.
Acceptable(kind, array) ==
    LET other == [AnalogValue |-> "CommandableAnalogValue", CommandableAnalogValue |-> "AnalogValue"]
    IN
    /\ kind \in AddedKinds => added[kind] = <<>>
    /\ \A i \in DOMAIN array :
        /\ valid[array[i]]
        /\ \A j \in 1..(i - 1) : number[array[j]] # number[array[i]]
        /\ kind \in DOMAIN other => Find(other[kind], number[array[i]]) = Nobody

\* setAnalogValues to setMultiStateValues.
SetArray(kind, array) ==
    /\ Acceptable(kind, array)
    /\ arrays' = [arrays EXCEPT ![kind] = array]
    /\ UNCHANGED <<objectVars, commandVars, added, registered, device, running>>

AddObject(o) ==
    LET kind == KindOf[o] IN
    /\ o \in Single
    /\ status[o] = "Ok" /\ valid[o]
    /\ arrays[kind] = <<>>
    /\ \A i \in DOMAIN added[kind] : number[added[kind][i]] # number[o]
    /\ Len(added[kind]) < MaxAdded
    /\ added' = [added EXCEPT ![kind] = Append(@, o)]
    /\ UNCHANGED <<objectVars, commandVars, arrays, registered, device, running>>

SetPropertyRegistrations(registrations) ==
    /\ \A i \in DOMAIN registrations :
        /\ registrations[i].property # "PropertyList"
        /\ registrations[i].name.type = "Device" => registrations[i].property \in Metadata
        /\ \A j \in 1..(i - 1) : registrations[j] # registrations[i]
    /\ registered' = registrations
    /\ UNCHANGED <<objectVars, commandVars, arrays, added, device, running>>

\* A single object is named, or named anew; the server is not told.
Configure(o, n) ==
    /\ o \in Single
    /\ number' = [number EXCEPT ![o] = n]
    /\ UNCHANGED <<valid, status, stored, commandVars, tableVars, device, running>>

\* The first failure sticks, and addObject refuses the object for it.
AddProperty(o, p, type) ==
    LET kind == KindOf[o]
        problem == CASE type \notin StorableTypes(p) -> "PropertyTypeMismatch"
                     [] type \in StorableTypes(p) /\ p \notin Storable(kind) -> "PropertyNotSupported"
                     [] type \in StorableTypes(p) /\ p \in Storable(kind)
                            /\ (\E s \in ToSet(stored[o]) : s.property = p) -> "DuplicateProperty"
                     [] OTHER -> IF Len(stored[o]) = MaxStored[kind]
                                 THEN "PropertyCapacityExceeded" ELSE "Ok"
    IN
    /\ o \in Single
    /\ status' = [status EXCEPT ![o] = IF @ = "Ok" THEN problem ELSE @]
    /\ stored' = IF problem # "Ok" THEN stored
                 ELSE [stored EXCEPT ![o] = Append(@, [property |-> p, type |-> type])]
    /\ UNCHANGED <<number, valid, commandVars, tableVars, device, running>>

\* The application moves a Multi-state Value to a state that it may not have.
SetState(o, isValid) ==
    /\ KindOf[o] = "MultiStateValue"
    /\ valid' = [valid EXCEPT ![o] = isValid]
    /\ UNCHANGED <<number, status, stored, commandVars, tableVars, device, running>>

Begin(n) ==
    /\ \A r \in ToSet(registered) : r.name.type = "Device" => r.name.number = n
    /\ device' = n
    /\ running' = TRUE
    /\ UNCHANGED <<objectVars, commandVars, tableVars>>

End ==
    /\ running
    /\ running' = FALSE
    /\ UNCHANGED <<objectVars, commandVars, tableVars, device>>

-----------------------------------------------------------------------------
\* WriteProperty.

Priority(request) == IF request.priority = NoPriority THEN 16 ELSE request.priority

\* The object a write goes to; the others do not exist for it.
WriteTarget(name) ==
    LET o == ObjectOf(name) IN
    IF o # Nobody /\ KindOf[o] \in Commandable THEN o ELSE Nobody

TakesValue(o, value) ==
    \/ value = Null
    \/ IF KindOf[o] \in Analog THEN value[1] = "Real"
       ELSE value[1] = "Enumerated" /\ value[2] <= 1

WriteAnswer(request) ==
    LET o == WriteTarget(request.name) IN
    IF o = Nobody THEN UnknownObject
    ELSE IF request.index # NoIndex THEN InvalidIndex
    ELSE CASE request.property = "PresentValue" ->
                IF Priority(request) \notin 1..SlotCount THEN Error(2, 37)
                ELSE IF ~TakesValue(o, request.value) THEN Error(2, 9)
                ELSE [kind |-> "simpleAck"]
           [] request.property = "OutOfService" ->
                IF request.priority # NoPriority \/ request.value[1] # "Boolean" THEN Error(2, 9)
                ELSE [kind |-> "simpleAck"]
           [] OTHER -> Error(2, 40)

\* A command at a priority, and the flag.
WriteProperty(request) ==
    LET o == WriteTarget(request.name) IN
    /\ running
    /\ WriteAnswer(request).kind = "simpleAck"
    /\ IF request.property = "PresentValue"
       THEN /\ slots' = [slots EXCEPT ![o][Priority(request)] = request.value]
            /\ UNCHANGED outOfService
       ELSE /\ outOfService' = [outOfService EXCEPT ![o] = request.value[2]]
            /\ UNCHANGED slots
    /\ UNCHANGED <<objectVars, tableVars, device, running>>

-----------------------------------------------------------------------------
Next ==
    \/ \E k \in Kinds, n \in 0..MaxArray :
        \E array \in [1..n -> {o \in Objects \ Single : KindOf[o] = k}] : SetArray(k, array)
    \/ \E o \in Objects :
        \/ AddObject(o)
        \/ \E n \in Instances : Configure(o, n)
        \/ \E p \in Properties : \E type \in StorableTypes(p) \cup {"Real"} : AddProperty(o, p, type)
        \/ \E isValid \in BOOLEAN : SetState(o, isValid)
    \/ \E registrations \in RegistrationSets : SetPropertyRegistrations(registrations)
    \/ \E n \in Instances : Begin(n)
    \/ End
    \/ \E request \in WriteRequests : WriteProperty(request)

Spec == Init /\ [][Next]_vars

-----------------------------------------------------------------------------
\* Properties.

Names == {DeviceName} \cup {Name(o) : o \in Objects}
AnsweredNames == {name \in Names : ReadAnswers(name, "ObjectIdentifier", NoIndex) # {UnknownObject}}
CanAnswer(name, p) == \E a \in ReadAnswers(name, p, NoIndex) : a.kind = "ack"
AskedProperties ==
    [device |-> ToSet(DeviceProperties) \cup Metadata \cup {"Units"},
     object |-> (UNION {ToSet(BaseProperties[k]) : k \in Kinds}) \cup Properties
                \cup {r.property : r \in UNION {ToSet(s) : s \in RegistrationSets}}]
Asked(name) == IF name = DeviceName THEN AskedProperties.device ELSE AskedProperties.object

\* What the server lists of itself is what it answers for.  Object_List, as
\* long as its count says, names the objects a read finds and no other; the
\* Property_List of each names the properties that can be read and no other;
\* the supported object types are those of Object_List, and WriteProperty is
\* a supported service if and only if some object takes a command.
DescribesItself ==
    LET answered == AnsweredNames IN
    /\ ToSet(ObjectList) = answered
    /\ \A name \in answered :
        \/ name.type = "MultiStateValue" /\ ReadAnswers(name, "PropertyList", NoIndex) = {Error(2, 37)}
        \/ LET entries == PropertyEntries(name) IN
           /\ Len(entries) = PropertyCount(name)
           /\ ToSet(entries) = {p \in Asked(name) : CanAnswer(name, p)}
    /\ TypesSupported = {name.type : name \in answered}
    /\ "WriteProperty" \in ServicesSupported
        <=> \E name \in answered, r \in WriteRequests :
                WriteAnswer([r EXCEPT !.name = name]).kind = "simpleAck"

\* A name stands for one object, whatever the application registers and in
\* whatever order: only an object that is named anew after the server has it
\* can be listed twice.
OneObjectPerName == IsInjective(ObjectList)
OnlyRenamingMakesTwins ==
    [][number' = number => (OneObjectPerName => OneObjectPerName')]_<<arrays, added>>

\* What a write is acknowledged for is what the next read of that name
\* shows: the priority array entry, and as Present_Value the entry of the
\* highest priority; nothing changes of an object the request does not name.
WritesShow ==
    [][\A r \in WriteRequests : WriteProperty(r) =>
        /\ r.property = "PresentValue" =>
            LET shown(i) == ReadAnswers(r.name, "PriorityArray", i)
                entries == {i \in 1..SlotCount : shown(i) # {Ack(Null)}}
            IN
            /\ shown(Priority(r))' = {Ack(r.value)}
            /\ entries' # {} /\ ~IsRegistered(r.name, "PresentValue") =>
                ReadAnswers(r.name, "PresentValue", NoIndex)' = (shown(Min(entries)))'
        /\ \A name \in Names \ {r.name}, p \in {"PresentValue", "OutOfService", "PriorityArray"} :
            ReadAnswers(name, p, NoIndex)' = ReadAnswers(name, p, NoIndex)]_commandVars
================================================================================
