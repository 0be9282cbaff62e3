------------------------------ MODULE MCExchange ------------------------------
(***************************************************************************)
(* A device with an output and an input whose properties need every form   *)
(* of number, text, list and bit string.                                   *)
(***************************************************************************)
EXTENDS Exchange, TLC

TheDevice == [instance |-> 1234, maxApdu |-> 1476, segmentation |-> 3, vendor |-> 999]
DeviceObject == [type |-> 8, instance |-> 1234]
TheOutput == [type |-> 1, instance |-> 7]
TheInput == [type |-> 0, instance |-> 70000]
NoObject == [type |-> 5, instance |-> 300]

One == <<"Real", 1065353216>>
MinusTwo == <<"Real", -1073741824>>
Flags == <<"BitString", <<FALSE, FALSE, TRUE, FALSE>>>>
Text(octets) == <<"CharacterString", octets>>

ObjectNameId == 77
UnitsId == 117
SignedId == 600      \* a registered property with a number below zero
UnsignedId == 70001  \* and one of three octets, whose number has three octets

TheContents ==
    (<<DeviceObject, ObjectNameId>> :> Text(<<66, 65, 67, 110, 101, 116>>)
    @@ <<DeviceObject, ObjectListId>> :>
        <<"List", <<<<"ObjectIdentifier", DeviceObject>>, <<"ObjectIdentifier", TheOutput>>,
                    <<"ObjectIdentifier", TheInput>>>>>>
    @@ <<DeviceObject, PropertyListId>> :>
        <<"List", <<<<"Enumerated", ObjectNameId>>, <<"Enumerated", PropertyListId>>>>>>
    @@ <<DeviceObject, DeviceAddressBindingId>> :> <<"List", <<>>>>
    @@ <<TheInput, PresentValueId>> :> One
    @@ <<TheInput, StatusFlagsId>> :> Flags
    @@ <<TheInput, SignedId>> :> <<"Signed", -2>>
    @@ <<TheInput, UnsignedId>> :> <<"Unsigned", 70000>>
    @@ <<TheInput, ObjectNameId>> :> Text(<<65>>)
    @@ <<TheOutput, RelinquishDefaultId>> :> One
    @@ <<TheOutput, OutOfServiceId>> :> <<"Boolean", FALSE>>
    @@ <<TheOutput, StatusFlagsId>> :> Flags)
TheChanges == {[point |-> <<TheInput, PresentValueId>>, content |-> MinusTwo]}

At(object, property, index) == [object |-> object, property |-> property, index |-> index]
ReadOf(object, property, index) == [kind |-> "Read", request |-> At(object, property, index)]
WriteOf(property, value, priority) ==
    [kind |-> "Write", request |-> At(TheOutput, property, NoIndex), value |-> value, priority |-> priority]
SubscribeTo(ofProperty, property, confirmed, lifetime, increment) ==
    [kind |-> "Subscribe", subscription |->
        [ofProperty |-> ofProperty, processId |-> 3, object |-> TheInput, property |-> property,
         index |-> NoIndex, confirmed |-> confirmed, lifetime |-> lifetime, increment |-> increment]]

Reads == {ReadOf(DeviceObject, ObjectNameId, NoIndex), ReadOf(DeviceObject, ObjectNameId, 1),
          ReadOf(DeviceObject, ObjectListId, NoIndex), ReadOf(DeviceObject, ObjectListId, 0),
          ReadOf(DeviceObject, ObjectListId, 3), ReadOf(DeviceObject, ObjectListId, 300),
          ReadOf(DeviceObject, PropertyListId, NoIndex), ReadOf(DeviceObject, PropertyListId, 2),
          ReadOf(DeviceObject, DeviceAddressBindingId, NoIndex),
          ReadOf(TheInput, PresentValueId, NoIndex),
          ReadOf(TheInput, SignedId, NoIndex), ReadOf(TheInput, UnsignedId, NoIndex),
          ReadOf(TheOutput, PriorityArrayId, NoIndex), ReadOf(TheOutput, PriorityArrayId, 16),
          ReadOf(TheOutput, PresentValueId, NoIndex), ReadOf(TheOutput, OutOfServiceId, NoIndex),
          ReadOf(TheOutput, UnitsId, NoIndex), ReadOf(NoObject, UnitsId, NoIndex)}
Writes == {WriteOf(PresentValueId, MinusTwo, NoPriority), WriteOf(PresentValueId, Null, 8),
           WriteOf(PresentValueId, One, 8), WriteOf(PresentValueId, <<"Signed", -200>>, 8),
           WriteOf(OutOfServiceId, <<"Boolean", TRUE>>, NoPriority), WriteOf(UnitsId, One, NoPriority)}
Subscribes == {SubscribeTo(FALSE, PresentValueId, TRUE, 300, Null),
               SubscribeTo(FALSE, PresentValueId, TRUE, 0, Null),
               SubscribeTo(TRUE, PresentValueId, FALSE, 100000, <<"Real", 1056964608>>),
               SubscribeTo(TRUE, SignedId, FALSE, 60, <<"Real", 1056964608>>),
               SubscribeTo(TRUE, ObjectNameId, TRUE, 60, Null)}
AllRequests == Reads \union Writes \union Subscribes
               \union {[kind |-> "Discover"], [kind |-> "Other", service |-> 14]}

ASSUME TheContentsFit == Contents = TheContents => ContentsFit

\* A device with sixty-four values, whose list has more characters than fit.
LongContents ==
    <<DeviceObject, ObjectListId>> :>
        <<"List", <<<<"ObjectIdentifier", DeviceObject>>>> \o
                  [i \in 1..64 |-> <<"ObjectIdentifier", [type |-> 2, instance |-> 10000 + i]>>]>>
    @@ TheContents
ListRequests == {ReadOf(DeviceObject, ObjectListId, index) : index \in {NoIndex, 0, 1, 2, 3}}

\* Bound: what may be asked after another request.
Seconds == {ReadOf(TheInput, PresentValueId, NoIndex),
            SubscribeTo(TRUE, ObjectNameId, TRUE, 60, Null)}
BoundedNext == Next /\ (Len(asked') = 2 => asked'[2] \in Seconds)
BoundedSpec == Init /\ [][BoundedNext]_vars
================================================================================
