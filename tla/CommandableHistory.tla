--------------------------- MODULE CommandableHistory ---------------------------
(***************************************************************************)
(* CommandableObject with what the application has been told so far: the   *)
(* array, effective priority and value that the change callbacks reported, *)
(* and the value the output binding was last called with.  A callback      *)
(* counts when it returns: a binding that calls the object itself sets its *)
(* output last.                                                            *)
(***************************************************************************)
EXTENDS CommandableObject

VARIABLES
    reported,   \* the state the change callbacks amount to
    driven      \* the value the output has, Null before the first call

history == <<reported, driven>>
allVars == <<vars, history>>

Current == [slots |-> slots, priority |-> EffectivePriority(slots), value |-> PresentValue]

HInit == Init /\ reported = Current /\ driven = Null

Called == (Application \/ Network) /\ UNCHANGED history

\* The callback that runs now returns.
Told ==
    /\ Proceed
    /\ LET c == Head(pending)
       IN  /\ reported' =
                CASE c.to = "slot" -> [reported EXCEPT !.slots[c.at] = c.new]
                  [] c.to = "effectivePriority" -> [reported EXCEPT !.priority = c.new]
                  [] c.to = "presentValue" -> [reported EXCEPT !.value = c.new]
                  [] OTHER -> reported
           /\ driven' = IF c.to \in {"output", "outOfService"} THEN c.new ELSE driven

HNext == Called \/ Told

HSpec == HInit /\ [][HNext]_allVars

-----------------------------------------------------------------------------
\* Each change callback starts from what the last of its kind reported and
\* reports something else, so that an application that keeps a copy of the
\* object from its callbacks never has to guess, nor sees one change twice.
ReportsChain ==
    ~Idle =>
        LET c == Head(pending)
        IN  /\ c.to = "slot" => c.old = reported.slots[c.at] /\ c.new # c.old
            /\ c.to = "effectivePriority" => c.old = reported.priority /\ c.new # c.old
            /\ c.to = "presentValue" => c.old = reported.value /\ c.new # c.old

\* Between calls, with every callback set, that copy is the object: no change by
\* any writer, at any priority or by the relinquish default, went unreported.
NothingUnreported ==
    (Idle /\ {"slot", "effectivePriority", "presentValue"} \subseteq Attached)
        => reported = Current

\* Between calls the output has the value of the object, once it was driven.
OutputFollows ==
    (Idle /\ "output" \in Attached) => driven \in {Null, PresentValue}

=============================================================================
