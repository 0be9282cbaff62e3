--------------------------- MODULE CommandableObject ---------------------------
(***************************************************************************)
(* One commandable object of the server: an Analog or Binary Output or a   *)
(* commandable Analog or Binary Value.  Local code and WriteProperty       *)
(* command it at a priority; the output binding and the change callbacks   *)
(* run inside the call that changed it, and may call the object again.     *)
(*                                                                         *)
(* A call is not one step here: pending holds what is left to run of the   *)
(* calls in progress, innermost first, and its head is what runs now.      *)
(* Attached says what there is to run: a Binary Value has nothing, a       *)
(* commandable Analog Value no "output".                                   *)
(***************************************************************************)
EXTENDS Integers, Sequences

CONSTANTS
    SlotCount,   \* kSlotCount, 16 in the code
    Values,      \* the values of Present_Value
    Null,        \* an unoccupied slot; written, it relinquishes
    Attached,    \* the bindings and callbacks that are set
    Reentrant    \* where the application calls the object from inside a call

Priorities == 1..SlotCount

\* In the order in which one command runs them.
ChangeCallbacks == {"output", "slot", "effectivePriority", "presentValue", "relinquish"}

ASSUME CommandableAssumption ==
    /\ SlotCount \in Nat \ {0}
    /\ Values # {} /\ Null \notin Values
    /\ Attached \subseteq ChangeCallbacks
    /\ Reentrant \subseteq ChangeCallbacks \cup {"outOfService"}

VARIABLES
    slots,               \* the priority array
    relinquishDefault,   \* relinquishDefault
    outOfService,        \* outOfService
    callbackInProgress,  \* callbackInProgress
    ownPriority,         \* localWritePriority of the object, 0 when not set
    serverPriority,      \* localWritePriority_ of the server
    pending              \* what is left of the calls in progress

vars == <<slots, relinquishDefault, outOfService, callbackInProgress,
          ownPriority, serverPriority, pending>>

-----------------------------------------------------------------------------
\* Command priority.

Occupied(array) == {p \in Priorities : array[p] # Null}

\* The highest occupied priority, 0 when the relinquish default is effective.
EffectivePriority(array) ==
    IF Occupied(array) = {} THEN 0
    ELSE CHOOSE p \in Occupied(array) : \A q \in Occupied(array) : p <= q

EffectiveValue(array, default) ==
    IF EffectivePriority(array) = 0 THEN default ELSE array[EffectivePriority(array)]

PresentValue == EffectiveValue(slots, relinquishDefault)

-----------------------------------------------------------------------------
\* What a call leaves to run.

Callback(to, at, old, new) == [to |-> to, at |-> at, old |-> old, new |-> new]

\* Mutant: callbacks run whether or not something changed.
WhenAlways(happened, callback) ==
    IF callback.to \in Attached THEN <<callback>> ELSE <<>>

When(happened, callback) ==
    IF happened /\ callback.to \in Attached THEN <<callback>> ELSE <<>>

\* The callbacks of a command that turns the array into new, in their order;
\* releasing a slot is reported even when nothing was in it.
CommandCallbacks(p, new) ==
    LET oldValue == PresentValue
        newValue == EffectiveValue(new, relinquishDefault)
        oldPriority == EffectivePriority(slots)
        newPriority == EffectivePriority(new)
    IN  When(oldValue # newValue, Callback("output", 0, oldValue, newValue))
        \o When(slots[p] # new[p], Callback("slot", p, slots[p], new[p]))
        \o When(oldPriority # newPriority,
                Callback("effectivePriority", 0, oldPriority, newPriority))
        \o When(oldValue # newValue, Callback("presentValue", 0, oldValue, newValue))
        \o When(new[p] = Null, Callback("relinquish", p, oldValue, newValue))

\* Mutants: a new relinquish default is not reported; it is not output.
DefaultCallbacksSilent(default) ==
    LET oldValue == PresentValue
        newValue == EffectiveValue(slots, default)
    IN  When(oldValue # newValue, Callback("output", 0, oldValue, newValue))

DefaultCallbacksUndriven(default) ==
    LET oldValue == PresentValue
        newValue == EffectiveValue(slots, default)
    IN  When(oldValue # newValue, Callback("presentValue", 0, oldValue, newValue))

DefaultCallbacks(default) ==
    LET oldValue == PresentValue
        newValue == EffectiveValue(slots, default)
    IN  When(oldValue # newValue, Callback("output", 0, oldValue, newValue))
        \o When(oldValue # newValue, Callback("presentValue", 0, oldValue, newValue))

\* The end of a guarded call, where ~CallbackInProgressGuard runs, and the
\* answer to a WriteProperty of value v at priority p (0 and Null where it was
\* Out_Of_Service that was written).
Return == Callback("return", 0, Null, Null)
Reply(p, v) == Callback("reply", p, Null, v)

Idle == pending = <<>>

\* Application code runs when no call is in progress, and inside a callback.
ApplicationRuns == Idle \/ (~Idle /\ Head(pending).to \in Reentrant)

-----------------------------------------------------------------------------
\* The calls.

\* The object comes up with nothing commanded.
Init ==
    /\ slots = [p \in Priorities |-> Null]
    /\ relinquishDefault \in Values
    /\ outOfService = FALSE
    /\ callbackInProgress = FALSE
    /\ ownPriority = 0
    /\ serverPriority = SlotCount
    /\ pending = <<>>

\* Mutant: the guard is not consulted.
CommandUnguarded(p, v, answer) ==
    LET new == [slots EXCEPT ![p] = v]
    IN  /\ slots' = new
        /\ callbackInProgress' = TRUE
        /\ pending' = CommandCallbacks(p, new) \o <<Return>> \o answer \o pending
        /\ UNCHANGED <<relinquishDefault, outOfService, ownPriority, serverPriority>>

\* applyPriorityValue: refused while a guarded call of this object is in
\* progress; otherwise committed before anything runs.
Command(p, v, answer) ==
    LET new == [slots EXCEPT ![p] = v]
    IN  /\ ~callbackInProgress
        /\ slots' = new
        /\ callbackInProgress' = TRUE
        /\ pending' = CommandCallbacks(p, new) \o <<Return>> \o answer \o pending
        /\ UNCHANGED <<relinquishDefault, outOfService, ownPriority, serverPriority>>

\* setRelinquishDefaultValue.
SetRelinquishDefault(v) ==
    /\ ApplicationRuns
    /\ ~callbackInProgress
    /\ relinquishDefault' = v
    /\ callbackInProgress' = TRUE
    /\ pending' = DefaultCallbacks(v) \o <<Return>> \o pending
    /\ UNCHANGED <<slots, outOfService, ownPriority, serverPriority>>

\* Local code commands or relinquishes at a priority it names.
WriteAt(p, v) ==
    /\ ApplicationRuns
    /\ Command(p, v, <<>>)

\* writeValue without a priority: the object's own, else the server's.
LocalPriority == IF ownPriority # 0 THEN ownPriority ELSE serverPriority

WriteValue(v) ==
    /\ ApplicationRuns
    /\ Command(LocalPriority, v, <<>>)

\* Mutant: the slot's index is taken for its priority.
SetOwnPriorityShifted(p) ==
    /\ ApplicationRuns
    /\ ownPriority' = p + 1
    /\ UNCHANGED <<slots, relinquishDefault, outOfService, callbackInProgress,
                   serverPriority, pending>>

\* setLocalWritePriority of the object, and of the server.
SetOwnPriority(p) ==
    /\ ApplicationRuns
    /\ ownPriority' = p
    /\ UNCHANGED <<slots, relinquishDefault, outOfService, callbackInProgress,
                   serverPriority, pending>>

SetServerPriority(p) ==
    /\ ApplicationRuns
    /\ serverPriority' = p
    /\ UNCHANGED <<slots, relinquishDefault, outOfService, callbackInProgress,
                   ownPriority, pending>>

\* Mutant: the priority of the request is overlooked.
WritePresentValueLowest(p, v) ==
    /\ Idle
    /\ Command(SlotCount, v, <<Reply(p, v)>>)

\* A poll that receives a valid WriteProperty of Present_Value; an omitted
\* priority is the lowest.  poll() is not called from inside a callback.
WritePresentValue(p, v) ==
    /\ Idle
    /\ Command(p, v, <<Reply(p, v)>>)

\* A poll that receives a WriteProperty of Out_Of_Service: the binding is
\* called with the value it has and the new flag, outside the guard.
WriteOutOfService(flag) ==
    /\ Idle
    /\ outOfService' = flag
    /\ pending' = (IF "output" \in Attached
                   THEN <<Callback("outOfService", 0, PresentValue, PresentValue)>>
                   ELSE <<>>) \o <<Reply(0, Null)>>
    /\ UNCHANGED <<slots, relinquishDefault, callbackInProgress, ownPriority, serverPriority>>

\* Mutant: the guard covers the output binding only.
ProceedDroppingGuard ==
    /\ ~Idle
    /\ pending' = Tail(pending)
    /\ callbackInProgress' = (callbackInProgress /\ Head(pending).to \notin {"output", "return"})
    /\ UNCHANGED <<slots, relinquishDefault, outOfService, ownPriority, serverPriority>>

\* What runs now returns.  The end of a guarded call lets the next one in.
Proceed ==
    /\ ~Idle
    /\ pending' = Tail(pending)
    /\ callbackInProgress' = (callbackInProgress /\ Head(pending).to # "return")
    /\ UNCHANGED <<slots, relinquishDefault, outOfService, ownPriority, serverPriority>>

Application ==
    \/ \E p \in Priorities, v \in Values \cup {Null} : WriteAt(p, v)
    \/ \E v \in Values : WriteValue(v)
    \/ \E v \in Values : SetRelinquishDefault(v)
    \/ \E p \in Priorities : SetOwnPriority(p)
    \/ \E p \in Priorities : SetServerPriority(p)

Network ==
    \/ \E p \in Priorities, v \in Values \cup {Null} : WritePresentValue(p, v)
    \/ \E flag \in BOOLEAN : WriteOutOfService(flag)

Next == Application \/ Network \/ Proceed

Spec == Init /\ [][Next]_vars

-----------------------------------------------------------------------------
\* Safety.

Steps == ChangeCallbacks \cup {"outOfService", "return", "reply"}

Step == [to : Steps, at : 0..SlotCount,
         old : Values \cup {Null} \cup 0..SlotCount,
         new : Values \cup {Null} \cup 0..SlotCount]

\* The type of every variable: the priorities that local writes use are 1..16,
\* and the array never holds anything but a value or nothing.
TypeOK ==
    /\ slots \in [Priorities -> Values \cup {Null}]
    /\ relinquishDefault \in Values
    /\ outOfService \in BOOLEAN
    /\ callbackInProgress \in BOOLEAN
    /\ ownPriority \in 0..SlotCount
    /\ serverPriority \in Priorities
    /\ pending \in Seq(Step)

\* What a callback is told is the state the object is in.
Committed(c) ==
    CASE c.to \in {"output", "outOfService", "presentValue", "relinquish"} ->
            c.new = PresentValue
      [] c.to = "slot" -> c.new = slots[c.at]
      [] c.to = "effectivePriority" -> c.new = EffectivePriority(slots)
      [] OTHER -> TRUE

\* The output binding and every callback of a call, from the first to the last
\* and whatever they call themselves, see the state that the call committed.
CallbacksSeeCommitted == ~Idle => Committed(Head(pending))

\* When WriteProperty is acknowledged, the object holds what was written, in
\* spite of what the callbacks did in between.
AckMeansWritten ==
    (~Idle /\ Head(pending).to = "reply" /\ Head(pending).at # 0)
        => slots[Head(pending).at] = Head(pending).new

\* The guard is down exactly when no guarded call is in progress: it neither
\* stays up after the last one nor comes down inside one.
GuardMatchesCalls ==
    callbackInProgress <=> \E k \in 1..Len(pending) : pending[k].to = "return"

=============================================================================
