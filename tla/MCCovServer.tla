------------------------------ MODULE MCCovServer ------------------------------
(***************************************************************************)
(* Instances of CovServerHistory for TLC.                                  *)
(***************************************************************************)
EXTENDS CovServerHistory

CONSTANTS p1, p2, o1

KeyOf(peer, object, form) ==
    [peer |-> peer, processId |-> 1, object |-> object, form |-> form]

Ask(key, lifetime, confirmed, increment) ==
    [key |-> key, lifetime |-> lifetime, confirmed |-> confirmed, increment |-> increment]

\* Three tuples for two slots, one object, a confirmed and an unconfirmed form.
objectKey == KeyOf(p1, o1, "object")
valueKey == KeyOf(p1, o1, "PresentValue")
otherKey == KeyOf(p2, o1, "PresentValue")

TableKeys == {objectKey, valueKey, otherKey}
TableRequests ==
    {Ask(objectKey, 2, TRUE, NoIncrement), Ask(objectKey, 0, TRUE, NoIncrement),
     Ask(valueKey, 1, FALSE, 2), Ask(otherKey, 2, FALSE, 3)}

\* Without a clock entries live until they are cancelled.
SettlingRequests ==
    {Ask(objectKey, 2, TRUE, NoIncrement), Ask(valueKey, 1, FALSE, 2),
     Ask(otherKey, 2, FALSE, NoIncrement), Ask(otherKey, 0, FALSE, NoIncrement)}

=============================================================================
