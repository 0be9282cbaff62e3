--------------------------- MODULE CommandableProofs ---------------------------
(***************************************************************************)
(* TLAPS proofs about CommandableObject and CommandableHistory, for every  *)
(* number of priorities, set of values and choice of callbacks: what any   *)
(* callback is told, what the change callbacks add up to, and that the     *)
(* output has the object's value.                                          *)
(***************************************************************************)
EXTENDS CommandableHistory, SequenceTheorems, WellFoundedInduction, TLAPS

-----------------------------------------------------------------------------
\* The effective command.

\* A set of priorities that is not empty has a highest one.
LEMMA HighestPriority ==
    ASSUME NEW T \in SUBSET Priorities, T # {}
    PROVE  \E p \in T : \A q \in T : p <= q
<1>1. T \subseteq Nat
  BY CommandableAssumption DEF Priorities
<1>2. PICK p \in T : \A q \in T : ~(<<q, p>> \in OpToRel(<, Nat))
  BY <1>1, NatLessThanWellFounded, WFMin
<1>3. \A q \in T : ~(q < p)
  BY <1>1, <1>2 DEF OpToRel
<1>. QED BY <1>1, <1>3

Array == [Priorities -> Values \cup {Null}]

\* effectivePriority() returns the highest occupied priority, or 0.
LEMMA EffectivePriorityIsHighest ==
    ASSUME NEW array \in Array
    PROVE  /\ EffectivePriority(array) \in 0..SlotCount
           /\ EffectivePriority(array) = 0 => \A p \in Priorities : array[p] = Null
           /\ EffectivePriority(array) # 0 =>
                /\ EffectivePriority(array) \in Priorities
                /\ array[EffectivePriority(array)] # Null
                /\ \A p \in Priorities : p < EffectivePriority(array) => array[p] = Null
<1>1. 0 \in 0..SlotCount /\ Priorities \subseteq 0..SlotCount /\ 0 \notin Priorities
  BY CommandableAssumption DEF Priorities
<1>2. CASE Occupied(array) = {}
  BY <1>1, <1>2 DEF EffectivePriority, Occupied
<1>3. CASE Occupied(array) # {}
  <2> DEFINE e == EffectivePriority(array)
  <2>1. Occupied(array) \in SUBSET Priorities
    BY DEF Occupied
  <2>2. \E p \in Occupied(array) : \A q \in Occupied(array) : p <= q
    BY <1>3, <2>1, HighestPriority
  <2>3. e \in Occupied(array) /\ \A q \in Occupied(array) : e <= q
    BY <1>3, <2>2 DEF EffectivePriority
  <2> HIDE DEF e
  <2>4. e \in Priorities /\ array[e] # Null
    BY <2>3 DEF Occupied
  <2>5. \A p \in Priorities : p < e => array[p] = Null
    BY <2>3, <2>4 DEF Occupied, Priorities
  <2>. QED BY <1>1, <2>4, <2>5 DEF e
<1>. QED BY <1>2, <1>3

\* effectiveValue() is always a value.
LEMMA EffectiveValueType ==
    ASSUME NEW array \in Array, NEW default \in Values
    PROVE  EffectiveValue(array, default) \in Values
BY EffectivePriorityIsHighest DEF EffectiveValue, Array

-----------------------------------------------------------------------------
\* What a call leaves to run.

\* A callback c is told the state of an object with this array and default.
CommittedTo(c, array, default) ==
    CASE c.to \in {"output", "outOfService", "presentValue", "relinquish"} ->
            c.new = EffectiveValue(array, default)
      [] c.to = "slot" -> c.new = array[c.at]
      [] c.to = "effectivePriority" -> c.new = EffectivePriority(array)
      [] OTHER -> TRUE

\* The change callbacks that may run in that state.
Changes(array, default) ==
    {c \in Step : c.to \in ChangeCallbacks /\ CommittedTo(c, array, default)}

\* When adds one step or none.
LEMMA WhenType ==
    ASSUME NEW S, NEW happened, NEW c, c \in S
    PROVE  When(happened, c) \in Seq(S)
BY DEF When

\* Everything a command runs is told the state the command commits.
LEMMA CommandCallbacksType ==
    ASSUME slots \in Array, relinquishDefault \in Values,
           NEW p \in Priorities, NEW new \in Array
    PROVE  CommandCallbacks(p, new) \in Seq(Changes(new, relinquishDefault))
<1> DEFINE S == Changes(new, relinquishDefault)
           oldValue == PresentValue
           newValue == EffectiveValue(new, relinquishDefault)
           oldPriority == EffectivePriority(slots)
           newPriority == EffectivePriority(new)
           c1 == Callback("output", 0, oldValue, newValue)
           c2 == Callback("slot", p, slots[p], new[p])
           c3 == Callback("effectivePriority", 0, oldPriority, newPriority)
           c4 == Callback("presentValue", 0, oldValue, newValue)
           c5 == Callback("relinquish", p, oldValue, newValue)
           w1 == When(oldValue # newValue, c1)
           w2 == When(slots[p] # new[p], c2)
           w3 == When(oldPriority # newPriority, c3)
           w4 == When(oldValue # newValue, c4)
           w5 == When(new[p] = Null, c5)
<1>1. /\ oldValue \in Values /\ newValue \in Values
      /\ oldPriority \in 0..SlotCount /\ newPriority \in 0..SlotCount
      /\ slots[p] \in Values \cup {Null} /\ new[p] \in Values \cup {Null}
      /\ p \in 0..SlotCount /\ 0 \in 0..SlotCount
  BY EffectiveValueType, EffectivePriorityIsHighest, CommandableAssumption
     DEF PresentValue, Array, Priorities
<1>2. /\ c1 \in S /\ c2 \in S /\ c3 \in S /\ c4 \in S /\ c5 \in S
  BY <1>1 DEF Changes, Callback, Step, Steps, ChangeCallbacks, CommittedTo
<1>3. /\ w1 \in Seq(S) /\ w2 \in Seq(S) /\ w3 \in Seq(S)
      /\ w4 \in Seq(S) /\ w5 \in Seq(S)
  BY <1>2, WhenType
<1>4. CommandCallbacks(p, new) = w1 \o w2 \o w3 \o w4 \o w5
  BY DEF CommandCallbacks
<1> HIDE DEF w1, w2, w3, w4, w5, S
<1>5. w1 \o w2 \in Seq(S)
  BY <1>3, ConcatProperties
<1>6. w1 \o w2 \o w3 \in Seq(S)
  BY <1>3, <1>5, ConcatProperties
<1>7. w1 \o w2 \o w3 \o w4 \in Seq(S)
  BY <1>3, <1>6, ConcatProperties
<1>8. w1 \o w2 \o w3 \o w4 \o w5 \in Seq(S)
  BY <1>3, <1>7, ConcatProperties
<1>. QED BY <1>4, <1>8 DEF S

\* So is what a new relinquish default runs.
LEMMA DefaultCallbacksType ==
    ASSUME slots \in Array, relinquishDefault \in Values, NEW v \in Values
    PROVE  DefaultCallbacks(v) \in Seq(Changes(slots, v))
<1> DEFINE S == Changes(slots, v)
           oldValue == PresentValue
           newValue == EffectiveValue(slots, v)
           c1 == Callback("output", 0, oldValue, newValue)
           c2 == Callback("presentValue", 0, oldValue, newValue)
           w1 == When(oldValue # newValue, c1)
           w2 == When(oldValue # newValue, c2)
<1>1. oldValue \in Values /\ newValue \in Values /\ 0 \in 0..SlotCount
  BY EffectiveValueType, CommandableAssumption DEF PresentValue
<1>2. c1 \in S /\ c2 \in S
  BY <1>1 DEF Changes, Callback, Step, Steps, ChangeCallbacks, CommittedTo
<1>3. w1 \in Seq(S) /\ w2 \in Seq(S)
  BY <1>2, WhenType
<1>4. DefaultCallbacks(v) = w1 \o w2
  BY DEF DefaultCallbacks
<1> HIDE DEF w1, w2, S
<1>. QED BY <1>3, <1>4, ConcatProperties DEF S

\* The elements of a concatenation.
LEMMA ConcatElements ==
    ASSUME NEW S, NEW s \in Seq(S), NEW t \in Seq(S)
    PROVE  /\ s \o t \in Seq(S)
           /\ Len(s) \in Nat /\ Len(t) \in Nat
           /\ Len(s \o t) = Len(s) + Len(t)
           /\ \A i \in 1..Len(s) : (s \o t)[i] = s[i]
           /\ \A i \in 1..Len(t) : (s \o t)[Len(s) + i] = t[i]
           /\ \A i \in 1..Len(s \o t) : i <= Len(s) \/ i - Len(s) \in 1..Len(t)
<1>1. Len(s) \in Nat /\ Len(t) \in Nat
  BY LenProperties
<1>2. /\ s \o t \in Seq(S)
      /\ Len(s \o t) = Len(s) + Len(t)
      /\ \A i \in 1..(Len(s) + Len(t)) :
            (s \o t)[i] = IF i <= Len(s) THEN s[i] ELSE t[i - Len(s)]
  BY ConcatProperties
<1>. QED BY <1>1, <1>2

\* The steps of a new call, A, its end and the answer B, come before those of
\* the calls C it was made from.
LEMMA CallLayout ==
    ASSUME NEW S, NEW A \in Seq(S), NEW r \in S, NEW B \in Seq(S), NEW C \in Seq(S)
    PROVE  /\ A \o <<r>> \o B \o C \in Seq(S)
           /\ Len(A \o <<r>> \o B \o C) = Len(A) + 1 + Len(B) + Len(C)
           /\ Len(A) \in Nat /\ Len(B) \in Nat /\ Len(C) \in Nat
           /\ \A k \in 1..Len(A) : (A \o <<r>> \o B \o C)[k] = A[k]
           /\ (A \o <<r>> \o B \o C)[Len(A) + 1] = r
           /\ \A k \in 1..Len(B) : (A \o <<r>> \o B \o C)[Len(A) + 1 + k] = B[k]
           /\ \A k \in 1..Len(C) : (A \o <<r>> \o B \o C)[Len(A) + 1 + Len(B) + k] = C[k]
<1> DEFINE D == A \o <<r>>
           E == D \o B
           F == E \o C
<1>1. <<r>> \in Seq(S) /\ Len(<<r>>) = 1 /\ <<r>>[1] = r
  OBVIOUS
<1>2. /\ D \in Seq(S) /\ Len(A) \in Nat /\ Len(D) = Len(A) + 1
      /\ \A k \in 1..Len(A) : D[k] = A[k]
      /\ D[Len(A) + 1] = r
  <2>1. /\ D \in Seq(S) /\ Len(A) \in Nat /\ Len(D) = Len(A) + Len(<<r>>)
        /\ \A k \in 1..Len(A) : D[k] = A[k]
        /\ \A k \in 1..Len(<<r>>) : D[Len(A) + k] = <<r>>[k]
    BY <1>1, ConcatElements
  <2> HIDE DEF D
  <2>. QED BY <1>1, <2>1
<1> HIDE DEF D
<1>3. /\ E \in Seq(S) /\ Len(B) \in Nat /\ Len(E) = Len(D) + Len(B)
      /\ \A k \in 1..Len(D) : E[k] = D[k]
      /\ \A k \in 1..Len(B) : E[Len(D) + k] = B[k]
  <2>1. D \in Seq(S)
    BY <1>2
  <2>. QED BY <2>1, ConcatElements
<1> HIDE DEF E
<1>4. /\ F \in Seq(S) /\ Len(C) \in Nat /\ Len(F) = Len(E) + Len(C)
      /\ \A k \in 1..Len(E) : F[k] = E[k]
      /\ \A k \in 1..Len(C) : F[Len(E) + k] = C[k]
  <2>1. E \in Seq(S)
    BY <1>3
  <2>. QED BY <2>1, ConcatElements
<1>5. F = A \o <<r>> \o B \o C
  BY DEF F, E, D
<1> HIDE DEF F
<1>6. \A k \in 1..Len(A) : k \in 1..Len(D) /\ k \in 1..Len(E)
  BY <1>2, <1>3
<1>7. \A k \in 1..Len(B) : Len(D) + k \in 1..Len(E)
  BY <1>2, <1>3
<1>8. \A k \in 1..Len(A) : F[k] = A[k]
  BY <1>2, <1>3, <1>4, <1>6
<1>9. F[Len(A) + 1] = r
  <2>1. Len(A) + 1 \in 1..Len(D) /\ Len(A) + 1 \in 1..Len(E)
    BY <1>2, <1>3
  <2>. QED BY <1>2, <1>3, <1>4, <2>1
<1>10. \A k \in 1..Len(B) : F[Len(A) + 1 + k] = B[k]
  BY <1>2, <1>3, <1>4, <1>7
<1>11. \A k \in 1..Len(C) : F[Len(A) + 1 + Len(B) + k] = C[k]
  BY <1>2, <1>3, <1>4
<1>. QED BY <1>2, <1>3, <1>4, <1>5, <1>8, <1>9, <1>10, <1>11

-----------------------------------------------------------------------------
\* The inductive invariant.

\* What is pending: at most one guarded call, whose callbacks come before its
\* end and are told the state that is committed, and the answer to a
\* WriteProperty, which comes last and directly after the end of its command.
Layout ==
    \A k \in 1..Len(pending) :
        /\ pending[k].to = "return" =>
              \A i \in 1..Len(pending) : pending[i].to = "return" => i = k
        /\ pending[k].to \in ChangeCallbacks =>
              /\ \E i \in 1..Len(pending) : k < i /\ pending[i].to = "return"
              /\ Committed(pending[k])
        /\ pending[k].to = "reply" =>
              /\ k = Len(pending)
              /\ pending[k].at # 0 =>
                    /\ slots[pending[k].at] = pending[k].new
                    /\ k = 1 \/ pending[k - 1].to = "return"

CInv == TypeOK /\ GuardMatchesCalls /\ Layout

\* The object comes up with the invariant.
LEMMA InitCInv == Init => CInv
<1> SUFFICES ASSUME Init PROVE CInv
  OBVIOUS
<1>1. Len(pending) = 0 /\ pending \in Seq(Step) /\ 1..Len(pending) = {}
  BY DEF Init
<1>2. TypeOK
  <2>1. SlotCount \in Priorities /\ 0 \in 0..SlotCount
    BY CommandableAssumption DEF Priorities
  <2>. QED BY <1>1, <2>1 DEF Init, TypeOK
<1>. QED BY <1>1, <1>2 DEF Init, CInv, GuardMatchesCalls, Layout

\* A guarded call can only start when none is in progress, and then nothing is
\* pending that its commit could make stale, the answer included.
LEMMA BeforeCall ==
    ASSUME CInv, ApplicationRuns, ~callbackInProgress
    PROVE  \A k \in 1..Len(pending) :
              /\ pending[k].to \notin ChangeCallbacks \cup {"return"}
              /\ pending[k].to = "reply" => pending[k].at = 0
<1>1. \A k \in 1..Len(pending) : pending[k].to \notin ChangeCallbacks \cup {"return"}
  BY DEF CInv, GuardMatchesCalls, Layout
<1>2. ASSUME NEW k \in 1..Len(pending), pending[k].to = "reply", pending[k].at # 0
      PROVE  FALSE
  <2>1. pending \in Seq(Step) /\ Len(pending) \in Nat /\ pending # <<>>
    BY <1>2, LenProperties DEF CInv, TypeOK
  <2>2. k = 1
    <3>1. k = 1 \/ pending[k - 1].to = "return"
      BY <1>2 DEF CInv, Layout
    <3>2. k # 1 => k - 1 \in 1..Len(pending)
      BY <2>1
    <3>. QED BY <1>1, <3>1, <3>2
  <2>3. Head(pending) = pending[1]
    BY <2>1
  <2>4. pending[1].to \in Reentrant
    BY <2>1, <2>3 DEF ApplicationRuns, Idle
  <2>. QED BY <1>2, <2>2, <2>4, CommandableAssumption DEF ChangeCallbacks
<1>. QED BY <1>1, <1>2

\* A guarded call that commits a state runs A and then ends; its answer B, if it
\* has one, tells of what the committed state holds.
LEMMA GuardedCall ==
    ASSUME CInv, ApplicationRuns, ~callbackInProgress, callbackInProgress' = TRUE,
           slots' \in Array, relinquishDefault' \in Values,
           UNCHANGED <<outOfService, ownPriority, serverPriority>>,
           NEW A \in Seq(Changes(slots', relinquishDefault')),
           NEW B \in Seq(Step), Len(B) \in {0, 1},
           Len(B) = 1 => /\ Idle
                         /\ B[1].to = "reply"
                         /\ B[1].at # 0 => slots'[B[1].at] = B[1].new,
           pending' = A \o <<Return>> \o B \o pending
    PROVE  CInv'
<1> DEFINE r == Len(A) + 1
           n == Len(A) + 1 + Len(B)
<1>1. Return \in Step /\ Return.to = "return"
  BY CommandableAssumption DEF Return, Callback, Step, Steps
<1>2. /\ A \in Seq(Step)
      /\ \A k \in 1..Len(A) : /\ A[k].to \in ChangeCallbacks
                              /\ CommittedTo(A[k], slots', relinquishDefault')
  <2>1. Changes(slots', relinquishDefault') \subseteq Step
    BY DEF Changes
  <2>2. A \in Seq(Step)
    BY <2>1
  <2>3. \A k \in 1..Len(A) : A[k] \in Changes(slots', relinquishDefault')
    BY ElementOfSeq
  <2>. QED BY <2>2, <2>3 DEF Changes
<1>3. pending \in Seq(Step)
  BY DEF CInv, TypeOK
<1>4. /\ Len(A) \in Nat /\ Len(B) \in Nat /\ Len(pending) \in Nat
      /\ pending' \in Seq(Step) /\ Len(pending') = n + Len(pending)
      /\ \A k \in 1..Len(A) : pending'[k] = A[k]
      /\ pending'[r] = Return
      /\ \A k \in 1..Len(B) : pending'[r + k] = B[k]
      /\ \A k \in 1..Len(pending) : pending'[n + k] = pending[k]
  <2>1. Len(pending) \in Nat
    BY <1>3, LenProperties
  <2>. QED BY <1>1, <1>2, <1>3, <2>1, CallLayout
<1>5. \A k \in 1..Len(pending') :
         k \in 1..Len(A) \/ k = r \/ (Len(B) = 1 /\ k = r + 1) \/ k - n \in 1..Len(pending)
  <2>1. Len(pending') = n + Len(pending) /\ Len(A) \in Nat /\ Len(pending) \in Nat
    BY <1>4
  <2>2. CASE Len(B) = 0
    BY <2>1, <2>2
  <2>3. CASE Len(B) = 1
    BY <2>1, <2>3
  <2>. QED BY <2>2, <2>3
<1>6. \A k \in 1..Len(pending') : k - n \in 1..Len(pending) => pending'[k] = pending[k - n]
  <2> SUFFICES ASSUME NEW k \in 1..Len(pending'), k - n \in 1..Len(pending)
               PROVE  pending'[k] = pending[k - n]
    OBVIOUS
  <2>1. pending'[n + (k - n)] = pending[k - n]
    BY <1>4
  <2>2. n + (k - n) = k
    BY <1>4
  <2>. QED BY <2>1, <2>2
<1>7. r \in 1..Len(pending') /\ pending'[r].to = "return"
  BY <1>1, <1>4
<1>8. \A k \in 1..Len(pending') : k # r => pending'[k].to # "return"
  <2>1. \A k \in 1..Len(A) : pending'[k].to # "return"
    BY <1>2, <1>4 DEF ChangeCallbacks
  <2>2. Len(B) = 1 => pending'[r + 1].to = "reply"
    BY <1>4
  <2>3. \A k \in 1..Len(pending') : k - n \in 1..Len(pending) => pending'[k].to # "return"
    BY <1>6, BeforeCall
  <2>. QED BY <1>5, <2>1, <2>2, <2>3
<1>9. \A k \in 1..Len(pending') : pending'[k].to \in ChangeCallbacks =>
         k < r /\ CommittedTo(pending'[k], slots', relinquishDefault')
  <2>1. \A k \in 1..Len(A) : k < r
    BY <1>4
  <2>2. Len(B) = 1 => pending'[r + 1].to \notin ChangeCallbacks
    BY <1>4 DEF ChangeCallbacks
  <2>3. pending'[r].to \notin ChangeCallbacks
    BY <1>7 DEF ChangeCallbacks
  <2>4. \A k \in 1..Len(pending') : k - n \in 1..Len(pending) =>
           pending'[k].to \notin ChangeCallbacks
    BY <1>6, BeforeCall
  <2>. QED BY <1>2, <1>4, <1>5, <2>1, <2>2, <2>3, <2>4
<1>10. ASSUME NEW k \in 1..Len(pending'), pending'[k].to = "reply"
       PROVE  /\ k = Len(pending')
              /\ pending'[k].at # 0 => /\ slots'[pending'[k].at] = pending'[k].new
                                       /\ pending'[k - 1].to = "return"
  <2>1. k \notin 1..Len(A) /\ k # r
    BY <1>2, <1>4, <1>7, <1>10 DEF ChangeCallbacks
  <2>2. CASE Len(B) = 1 /\ k = r + 1
    <3>1. Len(pending) = 0
      BY <2>2 DEF Idle
    <3>2. k = Len(pending') /\ k - 1 = r
      BY <1>4, <2>2, <3>1
    <3>3. pending'[k] = B[1]
      BY <1>4, <2>2
    <3>. QED BY <1>7, <2>2, <3>2, <3>3
  <2>3. CASE k - n \in 1..Len(pending)
    <3>1. pending'[k] = pending[k - n]
      BY <1>6, <2>3
    <3>2. pending[k - n].at = 0 /\ k - n = Len(pending)
      BY <1>10, <2>3, <3>1, BeforeCall DEF CInv, Layout
    <3>. QED BY <1>4, <3>1, <3>2
  <2>. QED BY <1>5, <2>1, <2>2, <2>3
<1>11. TypeOK' /\ GuardMatchesCalls'
  BY <1>4, <1>7 DEF CInv, TypeOK, Array, GuardMatchesCalls
<1>12. Layout'
  <2> SUFFICES ASSUME NEW k \in 1..Len(pending')
               PROVE  /\ pending'[k].to = "return" =>
                          \A i \in 1..Len(pending') : pending'[i].to = "return" => i = k
                      /\ pending'[k].to \in ChangeCallbacks =>
                            /\ \E i \in 1..Len(pending') : k < i /\ pending'[i].to = "return"
                            /\ Committed(pending[k])'
                      /\ pending'[k].to = "reply" =>
                            /\ k = Len(pending')
                            /\ pending'[k].at # 0 =>
                                  /\ slots'[pending'[k].at] = pending'[k].new
                                  /\ k = 1 \/ pending'[k - 1].to = "return"
    BY DEF Layout
  <2>1. pending'[k].to = "return" =>
           \A i \in 1..Len(pending') : pending'[i].to = "return" => i = k
    BY <1>8
  <2>2. pending'[k].to \in ChangeCallbacks =>
           \E i \in 1..Len(pending') : k < i /\ pending'[i].to = "return"
    BY <1>7, <1>9
  <2>3. pending'[k].to \in ChangeCallbacks => Committed(pending[k])'
    BY <1>9 DEF Committed, CommittedTo, PresentValue
  <2>. QED BY <1>10, <2>1, <2>2, <2>3
<1>. QED BY <1>11, <1>12 DEF CInv

\* applyPriorityValue keeps the invariant, whoever calls it.
LEMMA CommandKeeps ==
    ASSUME CInv, ApplicationRuns,
           NEW p \in Priorities, NEW v \in Values \cup {Null},
           NEW B \in Seq(Step), Len(B) \in {0, 1},
           Len(B) = 1 => Idle /\ B[1] = Reply(p, v),
           Command(p, v, B)
    PROVE  CInv'
<1> DEFINE new == [slots EXCEPT ![p] = v]
<1>1. /\ slots \in Array /\ relinquishDefault \in Values
      /\ new \in Array /\ slots' = new /\ relinquishDefault' = relinquishDefault
  BY DEF CInv, TypeOK, Array, Command
<1>2. CommandCallbacks(p, new) \in Seq(Changes(slots', relinquishDefault'))
  BY <1>1, CommandCallbacksType
<1>3. pending' = CommandCallbacks(p, new) \o <<Return>> \o B \o pending
  BY DEF Command
<1>4. /\ ~callbackInProgress /\ callbackInProgress' = TRUE
      /\ slots' \in Array /\ relinquishDefault' \in Values
      /\ UNCHANGED <<outOfService, ownPriority, serverPriority>>
  BY <1>1 DEF Command
<1>5. Len(B) = 1 => /\ Idle
                    /\ B[1].to = "reply"
                    /\ B[1].at # 0 => slots'[B[1].at] = B[1].new
  BY <1>1 DEF Reply, Callback, Array
<1> HIDE DEF new
<1>. QED BY <1>2, <1>3, <1>4, <1>5, GuardedCall

\* So does a new relinquish default.
LEMMA DefaultKeeps ==
    ASSUME CInv, NEW v \in Values, SetRelinquishDefault(v)
    PROVE  CInv'
<1> DEFINE A == DefaultCallbacks(v)
<1>1. /\ slots \in Array /\ slots' = slots /\ relinquishDefault \in Values
      /\ relinquishDefault' = v /\ pending \in Seq(Step)
  BY DEF CInv, TypeOK, Array, SetRelinquishDefault
<1>2. A \in Seq(Changes(slots', relinquishDefault'))
  BY <1>1, DefaultCallbacksType
<1>3. pending' = A \o <<Return>> \o <<>> \o pending
  <2>1. A \in Seq(Step) /\ <<Return>> \in Seq(Step)
    <3>1. Changes(slots', relinquishDefault') \subseteq Step
      BY DEF Changes
    <3>2. Return \in Step
      BY CommandableAssumption DEF Return, Callback, Step, Steps
    <3> HIDE DEF A
    <3>. QED BY <1>2, <3>1, <3>2
  <2>2. A \o <<Return>> \in Seq(Step)
    BY <2>1, ConcatProperties
  <2>3. A \o <<Return>> \o <<>> = A \o <<Return>>
    BY <2>2, ConcatEmptySeq
  <2>. QED BY <2>3 DEF SetRelinquishDefault
<1>4. /\ ApplicationRuns /\ ~callbackInProgress /\ callbackInProgress' = TRUE
      /\ slots' \in Array /\ relinquishDefault' \in Values
      /\ UNCHANGED <<outOfService, ownPriority, serverPriority>>
  BY <1>1 DEF SetRelinquishDefault
<1> DEFINE B == <<>>
<1>5. B \in Seq(Step) /\ Len(B) \in {0, 1} /\ Len(B) # 1
  OBVIOUS
<1>6. pending' = A \o <<Return>> \o B \o pending
  BY <1>3
<1> HIDE DEF A, B
<1>. QED BY <1>2, <1>4, <1>5, <1>6, GuardedCall

\* So does a write of Out_Of_Service, which is no guarded call.
LEMMA OutOfServiceKeeps ==
    ASSUME CInv, NEW flag \in BOOLEAN, WriteOutOfService(flag)
    PROVE  CInv'
<1> DEFINE c == Callback("outOfService", 0, PresentValue, PresentValue)
           R == Reply(0, Null)
<1>1. pending = <<>> /\ ~callbackInProgress /\ callbackInProgress' = callbackInProgress
  BY DEF WriteOutOfService, Idle, CInv, GuardMatchesCalls
<1>2. c \in Step /\ R \in Step /\ c.to = "outOfService" /\ R.to = "reply" /\ R.at = 0
  BY EffectiveValueType, CommandableAssumption
     DEF CInv, TypeOK, Array, PresentValue, Callback, Reply, Step, Steps
<1> HIDE DEF c, R
<1>3. pending' = <<c>> \o <<R>> \/ pending' = <<>> \o <<R>>
  BY DEF WriteOutOfService, c, R
<1>4. <<c>> \in Seq(Step) /\ <<R>> \in Seq(Step) /\ Len(<<c>>) = 1 /\ Len(<<R>>) = 1
  BY <1>2
<1>5. /\ pending' \in Seq(Step)
      /\ \A k \in 1..Len(pending') :
            /\ pending'[k].to \in {"outOfService", "reply"}
            /\ pending'[k].to = "reply" => k = Len(pending') /\ pending'[k].at = 0
  <2>1. CASE pending' = <<c>> \o <<R>>
    <3>1. /\ <<c>> \o <<R>> \in Seq(Step) /\ Len(<<c>> \o <<R>>) = 1 + 1
          /\ (<<c>> \o <<R>>)[1] = <<c>>[1] /\ (<<c>> \o <<R>>)[1 + 1] = <<R>>[1]
      BY <1>4, ConcatElements
    <3>2. /\ pending' \in Seq(Step) /\ Len(pending') = 2
          /\ pending'[1] = c /\ pending'[2] = R
      BY <2>1, <3>1
    <3>3. \A k \in 1..Len(pending') : k = 1 \/ k = 2
      BY <3>2
    <3>. QED BY <1>2, <3>2, <3>3
  <2>2. CASE pending' = <<>> \o <<R>>
    <3>1. /\ pending' \in Seq(Step) /\ Len(pending') = 1 /\ pending'[1] = R
      BY <1>4, <2>2, ConcatEmptySeq
    <3>2. \A k \in 1..Len(pending') : k = 1
      BY <3>1
    <3>. QED BY <1>2, <3>1, <3>2
  <2>. QED BY <1>3, <2>1, <2>2
<1>6. TypeOK'
  BY <1>5 DEF CInv, TypeOK, WriteOutOfService
<1>7. GuardMatchesCalls'
  BY <1>1, <1>5 DEF GuardMatchesCalls
<1>8. Layout'
  BY <1>5 DEF Layout, ChangeCallbacks
<1>. QED BY <1>6, <1>7, <1>8 DEF CInv

\* So does the return of what runs now.
LEMMA ProceedKeeps ==
    ASSUME CInv, Proceed
    PROVE  CInv'
<1> DEFINE n == Len(pending)
<1>1. /\ pending \in Seq(Step) /\ pending # <<>> /\ pending' = Tail(pending)
      /\ callbackInProgress' = (callbackInProgress /\ Head(pending).to # "return")
      /\ UNCHANGED <<slots, relinquishDefault, outOfService, ownPriority, serverPriority>>
  BY DEF CInv, TypeOK, Proceed, Idle
<1>2. /\ n \in Nat \ {0} /\ Head(pending) = pending[1]
      /\ pending' \in Seq(Step) /\ Len(pending') = n - 1
      /\ \A k \in 1..(n - 1) : pending'[k] = pending[k + 1]
  BY <1>1
<1>3. TypeOK'
  BY <1>1, <1>2 DEF CInv, TypeOK
<1>4. \A k \in 1..Len(pending') : k + 1 \in 1..n /\ pending'[k] = pending[k + 1]
  BY <1>2
<1>5. \A i \in 1..n : i # 1 => i - 1 \in 1..Len(pending') /\ pending'[i - 1] = pending[i]
  <2> SUFFICES ASSUME NEW i \in 1..n, i # 1
               PROVE  i - 1 \in 1..Len(pending') /\ pending'[i - 1] = pending[i]
    OBVIOUS
  <2>1. i - 1 \in 1..(n - 1) /\ (i - 1) + 1 = i
    BY <1>2
  <2>. QED BY <1>2, <2>1
<1>6. GuardMatchesCalls'
  <2>1. CASE pending[1].to = "return"
    <3>1. \A k \in 1..Len(pending') : pending'[k].to # "return"
      BY <1>2, <1>4, <2>1 DEF CInv, Layout
    <3>. QED BY <1>1, <1>2, <2>1, <3>1 DEF GuardMatchesCalls
  <2>2. CASE pending[1].to # "return"
    <3>1. callbackInProgress' = callbackInProgress
      BY <1>1, <1>2, <2>2 DEF CInv, TypeOK
    <3>2. (\E i \in 1..n : pending[i].to = "return")
             <=> \E k \in 1..Len(pending') : pending'[k].to = "return"
      BY <1>4, <1>5, <2>2
    <3>. QED BY <3>1, <3>2 DEF CInv, GuardMatchesCalls
  <2>. QED BY <2>1, <2>2
<1>7. ASSUME NEW k \in 1..Len(pending')
      PROVE  /\ pending'[k].to = "return" =>
                    \A i \in 1..Len(pending') : pending'[i].to = "return" => i = k
             /\ pending'[k].to \in ChangeCallbacks =>
                    /\ \E i \in 1..Len(pending') : k < i /\ pending'[i].to = "return"
                    /\ Committed(pending[k])'
             /\ pending'[k].to = "reply" =>
                    /\ k = Len(pending')
                    /\ pending'[k].at # 0 =>
                          /\ slots'[pending'[k].at] = pending'[k].new
                          /\ k = 1 \/ pending'[k - 1].to = "return"
  <2>1. k + 1 \in 1..n /\ pending'[k] = pending[k + 1] /\ k \in Nat /\ k # 0
    BY <1>2, <1>4
  <2>2. pending'[k].to = "return" =>
           \A i \in 1..Len(pending') : pending'[i].to = "return" => i = k
    <3> SUFFICES ASSUME pending'[k].to = "return",
                        NEW i \in 1..Len(pending'), pending'[i].to = "return"
                 PROVE  i = k
      OBVIOUS
    <3>1. i + 1 \in 1..n /\ pending[i + 1].to = "return" /\ pending[k + 1].to = "return"
      BY <1>4, <2>1
    <3>2. i + 1 = k + 1
      BY <2>1, <3>1 DEF CInv, Layout
    <3>. QED BY <2>1, <3>1, <3>2
  <2>3. ASSUME pending'[k].to \in ChangeCallbacks
        PROVE  \E i \in 1..Len(pending') : k < i /\ pending'[i].to = "return"
    <3>1. PICK i \in 1..n : k + 1 < i /\ pending[i].to = "return"
      BY <2>1, <2>3 DEF CInv, Layout
    <3>2. k < i - 1 /\ i # 1
      BY <2>1, <3>1
    <3>. QED BY <1>5, <3>1, <3>2
  <2>4. ASSUME pending'[k].to \in ChangeCallbacks
        PROVE  Committed(pending[k])'
    <3>1. Committed(pending[k + 1])
      BY <2>1, <2>4 DEF CInv, Layout
    <3>. QED BY <1>1, <2>1, <3>1 DEF Committed, PresentValue
  <2>5. ASSUME pending'[k].to = "reply"
        PROVE  /\ k = Len(pending')
               /\ pending'[k].at # 0 =>
                     /\ slots'[pending'[k].at] = pending'[k].new
                     /\ k = 1 \/ pending'[k - 1].to = "return"
    <3>1. /\ k + 1 = n
          /\ pending[k + 1].at # 0 =>
                /\ slots[pending[k + 1].at] = pending[k + 1].new
                /\ k + 1 = 1 \/ pending[(k + 1) - 1].to = "return"
      BY <2>1, <2>5 DEF CInv, Layout
    <3>2. (k + 1) - 1 = k /\ k + 1 # 1 /\ k = Len(pending')
      BY <1>2, <2>1, <3>1
    <3>3. k # 1 => pending'[k - 1] = pending[k]
      BY <1>5, <2>1
    <3>. QED BY <1>1, <2>1, <3>1, <3>2, <3>3
  <2>. QED BY <2>2, <2>3, <2>4, <2>5
<1>8. Layout'
  BY <1>7 DEF Layout
<1>. QED BY <1>3, <1>6, <1>8 DEF CInv

\* Every step keeps the invariant.
LEMMA NextCInv == CInv /\ [Next]_vars => CInv'
<1> SUFFICES ASSUME CInv, [Next]_vars PROVE CInv'
  OBVIOUS
<1> DEFINE none == <<>>
<1>1. none \in Seq(Step) /\ Len(none) \in {0, 1} /\ Len(none) # 1
  OBVIOUS
<1>2. ASSUME NEW p \in Priorities, NEW v \in Values \cup {Null}, WriteAt(p, v)
      PROVE  CInv'
  <2>1. ApplicationRuns /\ Command(p, v, none)
    BY <1>2 DEF WriteAt
  <2> HIDE DEF none
  <2>. QED BY <1>1, <2>1, CommandKeeps
<1>3. ASSUME NEW v \in Values, WriteValue(v)
      PROVE  CInv'
  <2>1. LocalPriority \in Priorities
    BY DEF LocalPriority, CInv, TypeOK, Priorities
  <2>2. ApplicationRuns /\ Command(LocalPriority, v, none) /\ v \in Values \cup {Null}
    BY <1>3 DEF WriteValue
  <2> HIDE DEF none
  <2>. QED BY <1>1, <2>1, <2>2, CommandKeeps
<1>4. ASSUME NEW v \in Values, SetRelinquishDefault(v)
      PROVE  CInv'
  BY <1>4, DefaultKeeps
<1>5. ASSUME UNCHANGED <<slots, relinquishDefault, outOfService, callbackInProgress, pending>>,
             ownPriority' \in 0..SlotCount, serverPriority' \in Priorities
      PROVE  CInv'
  BY <1>5 DEF CInv, TypeOK, GuardMatchesCalls, Layout, Committed, PresentValue
<1>6. ASSUME NEW p \in Priorities, SetOwnPriority(p) \/ SetServerPriority(p)
      PROVE  CInv'
  <2>1. /\ UNCHANGED <<slots, relinquishDefault, outOfService, callbackInProgress, pending>>
        /\ ownPriority' \in 0..SlotCount /\ serverPriority' \in Priorities
    BY <1>6, CommandableAssumption
       DEF SetOwnPriority, SetServerPriority, CInv, TypeOK, Priorities
  <2>. QED BY <1>5, <2>1
<1>7. ASSUME NEW p \in Priorities, NEW v \in Values \cup {Null}, WritePresentValue(p, v)
      PROVE  CInv'
  <2> DEFINE answer == <<Reply(p, v)>>
  <2>1. /\ Idle /\ Command(p, v, answer)
        /\ ApplicationRuns
    BY <1>7 DEF WritePresentValue, ApplicationRuns
  <2>2. Reply(p, v) \in Step
    BY DEF Reply, Callback, Step, Steps, Priorities
  <2>3. answer \in Seq(Step) /\ Len(answer) \in {0, 1} /\ answer[1] = Reply(p, v)
    BY <2>2
  <2> HIDE DEF answer
  <2>. QED BY <2>1, <2>3, CommandKeeps
<1>8. ASSUME NEW flag \in BOOLEAN, WriteOutOfService(flag)
      PROVE  CInv'
  BY <1>8, OutOfServiceKeeps
<1>9. ASSUME Proceed
      PROVE  CInv'
  BY <1>9, ProceedKeeps
<1>10. ASSUME UNCHANGED vars
       PROVE  CInv'
  <2>1. /\ UNCHANGED <<slots, relinquishDefault, outOfService, callbackInProgress, pending>>
        /\ ownPriority' \in 0..SlotCount /\ serverPriority' \in Priorities
    BY <1>10 DEF vars, CInv, TypeOK
  <2>. QED BY <1>5, <2>1
<1>. QED BY <1>2, <1>3, <1>4, <1>6, <1>7, <1>8, <1>9, <1>10
         DEF Next, Application, Network

\* The invariant holds throughout, for every caller and every callback.
THEOREM CommandableInvariance == Spec => []CInv
<1>. QED BY InitCInv, NextCInv, PTL DEF Spec

-----------------------------------------------------------------------------
\* What follows from it.

\* The priorities local writes use are always 1..16 and the slots hold values or
\* nothing: the code's range checks are never needed again after the setters.
THEOREM CommandableTypeCorrect == Spec => []TypeOK
<1>1. CInv => TypeOK
  BY DEF CInv
<1>. QED BY <1>1, CommandableInvariance, PTL

\* callbackInProgress is up exactly while a guarded call runs, so a refused
\* command is always one made from inside another.
THEOREM GuardIsExact == Spec => []GuardMatchesCalls
<1>1. CInv => GuardMatchesCalls
  BY DEF CInv
<1>. QED BY <1>1, CommandableInvariance, PTL

\* A SimpleACK for Present_Value is only sent while the slot holds what was
\* written, whatever the callbacks of the write did.
THEOREM AcknowledgedIsWritten == Spec => []AckMeansWritten
<1>1. CInv => AckMeansWritten
  <2> SUFFICES ASSUME CInv, ~Idle, Head(pending).to = "reply", Head(pending).at # 0
               PROVE  slots[Head(pending).at] = Head(pending).new
    BY DEF AckMeansWritten
  <2>1. pending \in Seq(Step) /\ pending # <<>>
    BY DEF CInv, TypeOK, Idle
  <2>2. 1 \in 1..Len(pending) /\ Head(pending) = pending[1]
    BY <2>1
  <2>. QED BY <2>2 DEF CInv, Layout
<1>. QED BY <1>1, CommandableInvariance, PTL

\* The binding as WriteProperty of Out_Of_Service calls it is told the value
\* the object has.
OutOfServiceSeesCommitted ==
    \A k \in 1..Len(pending) : pending[k].to = "outOfService" => Committed(pending[k])

\* A guarded call made with nothing pending leaves no such call to run.
LEMMA GuardedCallAlone ==
    ASSUME NEW array, NEW default,
           NEW A \in Seq(Changes(array, default)),
           NEW B \in Seq(Step), Len(B) \in {0, 1}, Len(B) = 1 => B[1].to = "reply",
           pending = <<>>, pending' = A \o <<Return>> \o B \o pending
    PROVE  OutOfServiceSeesCommitted'
<1> DEFINE r == Len(A) + 1
<1>1. Return \in Step /\ Return.to = "return"
  BY CommandableAssumption DEF Return, Callback, Step, Steps
<1>2. A \in Seq(Step) /\ \A k \in 1..Len(A) : A[k].to \in ChangeCallbacks
  <2>1. Changes(array, default) \subseteq Step
    BY DEF Changes
  <2>2. A \in Seq(Step)
    BY <2>1
  <2>3. \A k \in 1..Len(A) : A[k] \in Changes(array, default)
    BY ElementOfSeq
  <2>. QED BY <2>2, <2>3 DEF Changes
<1>3. pending \in Seq(Step) /\ Len(pending) = 0
  OBVIOUS
<1>4. /\ Len(A) \in Nat /\ Len(pending') = r + Len(B) + Len(pending)
      /\ \A k \in 1..Len(A) : pending'[k] = A[k]
      /\ pending'[r] = Return
      /\ \A k \in 1..Len(B) : pending'[r + k] = B[k]
  BY <1>1, <1>2, <1>3, CallLayout
<1>5. \A k \in 1..Len(A) : pending'[k].to # "outOfService"
  BY <1>2, <1>4 DEF ChangeCallbacks
<1>6. pending'[r].to # "outOfService" /\ (Len(B) = 1 => pending'[r + 1].to # "outOfService")
  BY <1>1, <1>4
<1>7. \A k \in 1..Len(pending') : k \in 1..Len(A) \/ k = r \/ (Len(B) = 1 /\ k = r + 1)
  <2>1. CASE Len(B) = 0
    BY <1>3, <1>4, <2>1
  <2>2. CASE Len(B) = 1
    BY <1>3, <1>4, <2>2
  <2>. QED BY <2>1, <2>2
<1>. QED BY <1>5, <1>6, <1>7 DEF OutOfServiceSeesCommitted

\* Unless the application calls the object from inside the unguarded call, a
\* guarded call starts only with nothing pending.
LEMMA GuardedCallsStartAlone ==
    ASSUME "outOfService" \notin Reentrant, CInv, ApplicationRuns, ~callbackInProgress
    PROVE  pending = <<>>
<1> SUFFICES ASSUME pending # <<>> PROVE FALSE
  OBVIOUS
<1>1. pending \in Seq(Step)
  BY DEF CInv, TypeOK
<1>2. 1 \in 1..Len(pending) /\ Head(pending) = pending[1]
  BY <1>1
<1>3. pending[1].to \in ChangeCallbacks
  BY <1>2, CommandableAssumption DEF ApplicationRuns, Idle
<1>. QED BY <1>2, <1>3, BeforeCall

\* No step makes the value stale that the unguarded call is told.
LEMMA OutOfServiceStaysCommitted ==
    ASSUME "outOfService" \notin Reentrant,
           CInv, OutOfServiceSeesCommitted, [Next]_vars
    PROVE  OutOfServiceSeesCommitted'
<1> DEFINE none == <<>>
<1>1. pending \in Seq(Step) /\ slots \in Array /\ relinquishDefault \in Values
  BY DEF CInv, TypeOK, Array
<1>2. ASSUME NEW p \in Priorities, NEW v \in Values \cup {Null},
             NEW B \in Seq(Step), Len(B) \in {0, 1}, Len(B) = 1 => B[1].to = "reply",
             ApplicationRuns, Command(p, v, B)
      PROVE  OutOfServiceSeesCommitted'
  <2> DEFINE new == [slots EXCEPT ![p] = v]
  <2>1. new \in Array
    BY <1>1 DEF Array
  <2>2. CommandCallbacks(p, new) \in Seq(Changes(new, relinquishDefault))
    BY <1>1, <2>1, CommandCallbacksType
  <2>3. pending = <<>> /\ pending' = CommandCallbacks(p, new) \o <<Return>> \o B \o pending
    BY <1>2, GuardedCallsStartAlone DEF Command
  <2> HIDE DEF new
  <2>. QED BY <1>2, <2>2, <2>3, GuardedCallAlone
<1>3. none \in Seq(Step) /\ Len(none) \in {0, 1} /\ (Len(none) = 1 => none[1].to = "reply")
  OBVIOUS
<1>4. ASSUME NEW p \in Priorities, NEW v \in Values \cup {Null}, WriteAt(p, v)
      PROVE  OutOfServiceSeesCommitted'
  <2>1. ApplicationRuns /\ Command(p, v, none)
    BY <1>4 DEF WriteAt
  <2> HIDE DEF none
  <2>. QED BY <1>2, <1>3, <2>1
<1>5. ASSUME NEW v \in Values, WriteValue(v)
      PROVE  OutOfServiceSeesCommitted'
  <2>1. LocalPriority \in Priorities
    BY DEF LocalPriority, CInv, TypeOK, Priorities
  <2>2. ApplicationRuns /\ Command(LocalPriority, v, none) /\ v \in Values \cup {Null}
    BY <1>5 DEF WriteValue
  <2> HIDE DEF none
  <2>. QED BY <1>2, <1>3, <2>1, <2>2
<1>6. ASSUME NEW v \in Values, SetRelinquishDefault(v)
      PROVE  OutOfServiceSeesCommitted'
  <2> DEFINE A == DefaultCallbacks(v)
  <2>1. A \in Seq(Changes(slots, v))
    BY <1>1, DefaultCallbacksType
  <2>2. pending = <<>> /\ pending' = A \o <<Return>> \o pending
    BY <1>6, GuardedCallsStartAlone DEF SetRelinquishDefault
  <2>3. A \o <<Return>> \o none = A \o <<Return>>
    <3>1. Changes(slots, v) \subseteq Step /\ Return \in Step
      BY CommandableAssumption DEF Changes, Return, Callback, Step, Steps
    <3> HIDE DEF A
    <3>2. A \in Seq(Step) /\ <<Return>> \in Seq(Step)
      BY <2>1, <3>1
    <3>3. A \o <<Return>> \in Seq(Step)
      BY <3>2, ConcatProperties
    <3>. QED BY <3>3, ConcatEmptySeq
  <2>4. pending' = A \o <<Return>> \o none \o pending
    BY <2>2, <2>3
  <2> HIDE DEF A, none
  <2>. QED BY <1>3, <2>1, <2>2, <2>4, GuardedCallAlone
<1>7. ASSUME UNCHANGED <<slots, relinquishDefault, pending>>
      PROVE  OutOfServiceSeesCommitted'
  BY <1>7 DEF OutOfServiceSeesCommitted, Committed, PresentValue
<1>8. ASSUME NEW p \in Priorities, SetOwnPriority(p) \/ SetServerPriority(p)
      PROVE  OutOfServiceSeesCommitted'
  BY <1>7, <1>8 DEF SetOwnPriority, SetServerPriority
<1>9. ASSUME NEW p \in Priorities, NEW v \in Values \cup {Null}, WritePresentValue(p, v)
      PROVE  OutOfServiceSeesCommitted'
  <2> DEFINE answer == <<Reply(p, v)>>
  <2>1. Command(p, v, answer) /\ ApplicationRuns
    BY <1>9 DEF WritePresentValue, ApplicationRuns
  <2>2. Reply(p, v) \in Step /\ Reply(p, v).to = "reply"
    BY DEF Reply, Callback, Step, Steps, Priorities
  <2>3. answer \in Seq(Step) /\ Len(answer) \in {0, 1} /\ answer[1].to = "reply"
    BY <2>2
  <2> HIDE DEF answer
  <2>. QED BY <1>2, <2>1, <2>3
<1>10. ASSUME NEW flag \in BOOLEAN, WriteOutOfService(flag)
       PROVE  OutOfServiceSeesCommitted'
  <2> DEFINE c == Callback("outOfService", 0, PresentValue, PresentValue)
             R == Reply(0, Null)
  <2>1. /\ c \in Step /\ R \in Step /\ c.to = "outOfService" /\ c.new = PresentValue
        /\ R.to = "reply"
    BY <1>1, EffectiveValueType, CommandableAssumption
       DEF PresentValue, Callback, Reply, Step, Steps
  <2>2. PresentValue' = PresentValue
    BY <1>10 DEF WriteOutOfService, PresentValue
  <2> HIDE DEF c, R
  <2>3. pending' = <<c>> \o <<R>> \/ pending' = <<>> \o <<R>>
    BY <1>10 DEF WriteOutOfService, c, R
  <2>4. <<c>> \in Seq(Step) /\ <<R>> \in Seq(Step) /\ Len(<<c>>) = 1 /\ Len(<<R>>) = 1
    BY <2>1
  <2>5. \A k \in 1..Len(pending') : pending'[k] = c \/ pending'[k] = R
    <3>1. CASE pending' = <<c>> \o <<R>>
      <4>1. /\ Len(<<c>> \o <<R>>) = 1 + 1
            /\ (<<c>> \o <<R>>)[1] = <<c>>[1] /\ (<<c>> \o <<R>>)[1 + 1] = <<R>>[1]
        BY <2>4, ConcatElements
      <4>2. Len(pending') = 2 /\ pending'[1] = c /\ pending'[2] = R
        BY <3>1, <4>1
      <4>3. \A k \in 1..Len(pending') : k = 1 \/ k = 2
        BY <4>2
      <4>. QED BY <4>2, <4>3
    <3>2. CASE pending' = <<>> \o <<R>>
      <4>1. Len(pending') = 1 /\ pending'[1] = R
        BY <2>4, <3>2, ConcatEmptySeq
      <4>2. \A k \in 1..Len(pending') : k = 1
        BY <4>1
      <4>. QED BY <4>1, <4>2
    <3>. QED BY <2>3, <3>1, <3>2
  <2>. QED BY <2>1, <2>2, <2>5 DEF OutOfServiceSeesCommitted, Committed
<1>11. ASSUME Proceed
       PROVE  OutOfServiceSeesCommitted'
  <2>1. /\ pending # <<>> /\ pending' = Tail(pending)
        /\ UNCHANGED <<slots, relinquishDefault>>
    BY <1>11 DEF Proceed, Idle
  <2>2. \A k \in 1..Len(pending') : k + 1 \in 1..Len(pending) /\ pending'[k] = pending[k + 1]
    BY <1>1, <2>1
  <2>. QED BY <2>1, <2>2 DEF OutOfServiceSeesCommitted, Committed, PresentValue
<1>12. ASSUME UNCHANGED vars
       PROVE  OutOfServiceSeesCommitted'
  BY <1>7, <1>12 DEF vars
<1>. QED BY <1>4, <1>5, <1>6, <1>8, <1>9, <1>10, <1>11, <1>12
         DEF Next, Application, Network

\* The output binding and every change callback see committed state only, as
\* long as the application does not command the object from inside the binding
\* call that WriteProperty of Out_Of_Service makes; from inside every other
\* call it may try to.
THEOREM CallbacksAreCurrent ==
    ASSUME "outOfService" \notin Reentrant
    PROVE  Spec => []CallbacksSeeCommitted
<1>1. Init => OutOfServiceSeesCommitted
  <2> SUFFICES ASSUME Init PROVE OutOfServiceSeesCommitted
    OBVIOUS
  <2>1. 1..Len(pending) = {}
    BY DEF Init
  <2>. QED BY <2>1 DEF OutOfServiceSeesCommitted
<1>2. CInv /\ OutOfServiceSeesCommitted /\ [Next]_vars => OutOfServiceSeesCommitted'
  BY OutOfServiceStaysCommitted
<1>3. CInv /\ OutOfServiceSeesCommitted => CallbacksSeeCommitted
  <2> SUFFICES ASSUME CInv, OutOfServiceSeesCommitted, ~Idle
               PROVE  Committed(Head(pending))
    BY DEF CallbacksSeeCommitted
  <2>1. pending \in Seq(Step) /\ pending # <<>>
    BY DEF CInv, TypeOK, Idle
  <2>2. 1 \in 1..Len(pending) /\ Head(pending) = pending[1]
    BY <2>1
  <2>3. CASE pending[1].to \in ChangeCallbacks
    BY <2>2, <2>3 DEF CInv, Layout
  <2>4. CASE pending[1].to = "outOfService"
    BY <2>2, <2>4 DEF OutOfServiceSeesCommitted
  <2>5. CASE pending[1].to \notin ChangeCallbacks \cup {"outOfService"}
    BY <2>2, <2>5 DEF Committed, ChangeCallbacks
  <2>. QED BY <2>3, <2>4, <2>5
<1>. QED BY <1>1, <1>2, <1>3, CommandableInvariance, PTL DEF Spec

-----------------------------------------------------------------------------
\* What a sequence of callbacks says of one thing: of a slot (to is "slot" and at
\* its priority), of the effective priority or of the present value.

Tells(c, to, at) == c.to = to /\ c.at = at

Lacks(s, to, at) == \A k \in 1..Len(s) : ~Tells(s[k], to, at)

\* It says that told has become now, once; or nothing, and nothing changed.
Carries(s, to, at, told, now) ==
    \/ told = now /\ Lacks(s, to, at)
    \/ /\ told # now
       /\ \E k \in 1..Len(s) :
             /\ Tells(s[k], to, at) /\ s[k].old = told /\ s[k].new = now
             /\ \A j \in 1..Len(s) : Tells(s[j], to, at) => j = k

\* The elements of a concatenation, by their position in it.
LEMMA ConcatAt ==
    ASSUME NEW s \in Seq(Step), NEW t \in Seq(Step)
    PROVE  /\ s \o t \in Seq(Step) /\ Len(s) \in Nat /\ Len(t) \in Nat
           /\ Len(s \o t) = Len(s) + Len(t)
           /\ \A i \in 1..Len(s \o t) :
                 \/ i \in 1..Len(s) /\ (s \o t)[i] = s[i]
                 \/ i - Len(s) \in 1..Len(t) /\ (s \o t)[i] = t[i - Len(s)]
<1>1. Len(s) \in Nat /\ Len(t) \in Nat
  BY LenProperties
<1>2. /\ s \o t \in Seq(Step) /\ Len(s \o t) = Len(s) + Len(t)
      /\ \A i \in 1..(Len(s) + Len(t)) :
            (s \o t)[i] = IF i <= Len(s) THEN s[i] ELSE t[i - Len(s)]
  BY ConcatProperties
<1>. QED BY <1>1, <1>2

\* Nothing is said of a topic by two sequences that say nothing of it.
LEMMA LacksConcat ==
    ASSUME NEW s \in Seq(Step), NEW t \in Seq(Step), NEW to, NEW at,
           Lacks(s, to, at), Lacks(t, to, at)
    PROVE  Lacks(s \o t, to, at)
BY ConcatAt DEF Lacks

\* A sequence that says nothing of a topic adds nothing to what was said,
LEMMA CarriesLeft ==
    ASSUME NEW s \in Seq(Step), NEW t \in Seq(Step), NEW to, NEW at, NEW told, NEW now,
           Carries(s, to, at, told, now), Lacks(t, to, at)
    PROVE  Carries(s \o t, to, at, told, now)
<1>1. CASE told = now
  BY <1>1, LacksConcat DEF Carries
<1>2. CASE told # now
  <2>1. PICK k \in 1..Len(s) :
            /\ Tells(s[k], to, at) /\ s[k].old = told /\ s[k].new = now
            /\ \A j \in 1..Len(s) : Tells(s[j], to, at) => j = k
    BY <1>2 DEF Carries
  <2>2. k \in 1..Len(s \o t) /\ (s \o t)[k] = s[k]
    BY ConcatElements, ConcatAt
  <2>3. \A j \in 1..Len(s \o t) : Tells((s \o t)[j], to, at) => j = k
    BY <2>1, ConcatAt DEF Lacks
  <2>. QED BY <1>2, <2>1, <2>2, <2>3 DEF Carries
<1>. QED BY <1>1, <1>2

\* and takes nothing from what follows it.
LEMMA CarriesRight ==
    ASSUME NEW s \in Seq(Step), NEW t \in Seq(Step), NEW to, NEW at, NEW told, NEW now,
           Lacks(s, to, at), Carries(t, to, at, told, now)
    PROVE  Carries(s \o t, to, at, told, now)
<1>1. CASE told = now
  BY <1>1, LacksConcat DEF Carries
<1>2. CASE told # now
  <2>1. PICK k \in 1..Len(t) :
            /\ Tells(t[k], to, at) /\ t[k].old = told /\ t[k].new = now
            /\ \A j \in 1..Len(t) : Tells(t[j], to, at) => j = k
    BY <1>2 DEF Carries
  <2> DEFINE m == Len(s) + k
  <2>2. m \in 1..Len(s \o t) /\ (s \o t)[m] = t[k]
    BY ConcatElements, ConcatAt
  <2>3. \A j \in 1..Len(s \o t) : Tells((s \o t)[j], to, at) => j = m
    <3>1. ASSUME NEW j \in 1..Len(s \o t), Tells((s \o t)[j], to, at) PROVE j = m
      <4>1. j - Len(s) \in 1..Len(t) /\ (s \o t)[j] = t[j - Len(s)]
        BY <3>1, ConcatAt DEF Lacks
      <4>2. j - Len(s) = k
        BY <2>1, <3>1, <4>1
      <4>. QED BY <4>1, <4>2, ConcatAt
    <3>. QED BY <3>1
  <2>. QED BY <1>2, <2>1, <2>2, <2>3 DEF Carries
<1>. QED BY <1>1, <1>2

\* The change that When() may add, and what it says of anything else.
LEMMA WhenCarries ==
    ASSUME NEW c \in Step, c.to \in Attached
    PROVE  Carries(When(c.old # c.new, c), c.to, c.at, c.old, c.new)
<1>1. CASE c.old = c.new
  BY <1>1 DEF When, Carries, Lacks
<1>2. CASE c.old # c.new
  <2>1. When(c.old # c.new, c) = <<c>>
    BY <1>2 DEF When
  <2> DEFINE s == <<c>>
  <2>2. 1 \in 1..Len(s) /\ s[1] = c /\ \A j \in 1..Len(s) : j = 1
    OBVIOUS
  <2> HIDE DEF s
  <2>3. Carries(s, c.to, c.at, c.old, c.new)
    BY <1>2, <2>2 DEF Carries, Tells
  <2>. QED BY <2>1, <2>3 DEF s
<1>. QED BY <1>1, <1>2

\* It says nothing of another topic.
LEMMA WhenLacks ==
    ASSUME NEW c \in Step, NEW happened, NEW to, NEW at, ~Tells(c, to, at)
    PROVE  When(happened, c) \in Seq(Step) /\ Lacks(When(happened, c), to, at)
BY DEF When, Lacks

\* What is left to say after the first callback.
LEMMA CarriesTail ==
    ASSUME NEW s \in Seq(Step), s # <<>>, NEW to, NEW at, NEW told, NEW now,
           Carries(s, to, at, told, now)
    PROVE  /\ Tells(Head(s), to, at) =>
                 /\ Head(s).old = told /\ Head(s).new = now /\ told # now
                 /\ Carries(Tail(s), to, at, now, now)
           /\ ~Tells(Head(s), to, at) => Carries(Tail(s), to, at, told, now)
<1>1. /\ Len(s) \in Nat \ {0} /\ Head(s) = s[1] /\ Len(Tail(s)) = Len(s) - 1
      /\ \A k \in 1..Len(Tail(s)) : k + 1 \in 1..Len(s) /\ Tail(s)[k] = s[k + 1]
  BY HeadTailProperties, LenProperties
<1>2. CASE told = now
  <2>1. ~Tells(Head(s), to, at) /\ Lacks(Tail(s), to, at)
    BY <1>1, <1>2 DEF Carries, Lacks
  <2>. QED BY <1>2, <2>1 DEF Carries
<1>3. CASE told # now
  <2>1. PICK k \in 1..Len(s) :
            /\ Tells(s[k], to, at) /\ s[k].old = told /\ s[k].new = now
            /\ \A j \in 1..Len(s) : Tells(s[j], to, at) => j = k
    BY <1>3 DEF Carries
  <2>2. CASE k = 1
    <3>1. Lacks(Tail(s), to, at)
      BY <1>1, <2>1, <2>2 DEF Lacks
    <3>. QED BY <1>1, <1>3, <2>1, <2>2, <3>1 DEF Carries
  <2>3. CASE k # 1
    <3>1. ~Tells(Head(s), to, at)
      BY <1>1, <2>1, <2>3
    <3>2. k - 1 \in 1..Len(Tail(s)) /\ Tail(s)[k - 1] = s[k]
      BY <1>1, <2>1, <2>3
    <3>3. \A j \in 1..Len(Tail(s)) : Tells(Tail(s)[j], to, at) => j = k - 1
      BY <1>1, <2>1
    <3>. QED BY <1>3, <2>1, <3>1, <3>2, <3>3 DEF Carries
  <2>. QED BY <2>2, <2>3
<1>. QED BY <1>2, <1>3

-----------------------------------------------------------------------------
\* What a call says of the object it changes.

\* The change callbacks that are set, each about what it can be about.
Heard == {c \in Step :
            /\ c.to \in ChangeCallbacks \cap Attached
            /\ c.to = "slot" => c.at \in Priorities
            /\ c.to \in {"output", "effectivePriority", "presentValue"} => c.at = 0}

\* When() adds callbacks that are set.
LEMMA WhenHeard ==
    ASSUME NEW happened, NEW c, c.to \in Attached => c \in Heard
    PROVE  When(happened, c) \in Seq(Heard)
BY DEF When

\* They are steps.
LEMMA HeardIsStep ==
    ASSUME NEW s \in Seq(Heard)
    PROVE  /\ s \in Seq(Step)
           /\ \A k \in 1..Len(s) : s[k] \in Heard
<1>1. Heard \subseteq Step
  BY DEF Heard
<1>2. s \in Seq(Step)
  BY <1>1
<1>. QED BY <1>2, ElementOfSeq

\* The five callbacks of a command, of which one at most says anything of a
\* topic.
LEMMA FiveCarry ==
    ASSUME NEW w1 \in Seq(Step), NEW w2 \in Seq(Step), NEW w3 \in Seq(Step),
           NEW w4 \in Seq(Step), NEW w5 \in Seq(Step),
           NEW to, NEW at, NEW told, NEW now,
           Lacks(w5, to, at),
           \/ Carries(w1, to, at, told, now) /\ Lacks(w2, to, at) /\ Lacks(w3, to, at)
              /\ Lacks(w4, to, at)
           \/ Lacks(w1, to, at) /\ Carries(w2, to, at, told, now) /\ Lacks(w3, to, at)
              /\ Lacks(w4, to, at)
           \/ Lacks(w1, to, at) /\ Lacks(w2, to, at) /\ Carries(w3, to, at, told, now)
              /\ Lacks(w4, to, at)
           \/ Lacks(w1, to, at) /\ Lacks(w2, to, at) /\ Lacks(w3, to, at)
              /\ Carries(w4, to, at, told, now)
    PROVE  Carries(w1 \o w2 \o w3 \o w4 \o w5, to, at, told, now)
<1> DEFINE v2 == w1 \o w2
           v3 == v2 \o w3
           v4 == v3 \o w4
<1>1. v2 \in Seq(Step) /\ (Lacks(w1, to, at) /\ Lacks(w2, to, at) => Lacks(v2, to, at))
  BY ConcatAt, LacksConcat
<1>2. \/ Carries(v2, to, at, told, now) /\ Lacks(w3, to, at) /\ Lacks(w4, to, at)
      \/ Lacks(v2, to, at) /\ Carries(w3, to, at, told, now) /\ Lacks(w4, to, at)
      \/ Lacks(v2, to, at) /\ Lacks(w3, to, at) /\ Carries(w4, to, at, told, now)
  BY <1>1, CarriesLeft, CarriesRight
<1> HIDE DEF v2
<1>3. v3 \in Seq(Step) /\ (Lacks(v2, to, at) /\ Lacks(w3, to, at) => Lacks(v3, to, at))
  BY <1>1, ConcatAt, LacksConcat
<1>4. \/ Carries(v3, to, at, told, now) /\ Lacks(w4, to, at)
      \/ Lacks(v3, to, at) /\ Carries(w4, to, at, told, now)
  BY <1>1, <1>2, <1>3, CarriesLeft, CarriesRight
<1> HIDE DEF v3
<1>5. v4 \in Seq(Step) /\ Carries(v4, to, at, told, now)
  BY <1>3, <1>4, ConcatAt, CarriesLeft, CarriesRight
<1> HIDE DEF v4
<1>6. Carries(v4 \o w5, to, at, told, now)
  BY <1>5, CarriesLeft
<1>. QED BY <1>6 DEF v4, v3, v2

\* What has been reported of a topic, and what the object is.
Actual(array, default, to, at) ==
    CASE to = "slot" -> array[at]
      [] to = "effectivePriority" -> EffectivePriority(array)
      [] OTHER -> EffectiveValue(array, default)

Topics == ({"slot"} \X Priorities) \cup ({"effectivePriority", "presentValue", "output"} \X {0})

\* A command says once of everything that it changed what it was and has become.
LEMMA CommandSays ==
    ASSUME slots \in Array, relinquishDefault \in Values,
           NEW p \in Priorities, NEW v \in Values \cup {Null},
           NEW to, NEW at, <<to, at>> \in Topics
    PROVE  LET new == [slots EXCEPT ![p] = v]
           IN  /\ CommandCallbacks(p, new) \in Seq(Heard)
               /\ to \in Attached =>
                    Carries(CommandCallbacks(p, new), to, at,
                            Actual(slots, relinquishDefault, to, at),
                            Actual(new, relinquishDefault, to, at))
<1> DEFINE new == [slots EXCEPT ![p] = v]
           oldValue == PresentValue
           newValue == EffectiveValue(new, relinquishDefault)
           oldPriority == EffectivePriority(slots)
           newPriority == EffectivePriority(new)
           c1 == Callback("output", 0, oldValue, newValue)
           c2 == Callback("slot", p, slots[p], new[p])
           c3 == Callback("effectivePriority", 0, oldPriority, newPriority)
           c4 == Callback("presentValue", 0, oldValue, newValue)
           c5 == Callback("relinquish", p, oldValue, newValue)
           w1 == When(c1.old # c1.new, c1)
           w2 == When(c2.old # c2.new, c2)
           w3 == When(c3.old # c3.new, c3)
           w4 == When(c4.old # c4.new, c4)
           w5 == When(new[p] = Null, c5)
           told == Actual(slots, relinquishDefault, to, at)
           now == Actual(new, relinquishDefault, to, at)
<1>1. new \in Array /\ \A q \in Priorities : q # p => new[q] = slots[q]
  BY DEF Array
<1>2. CommandCallbacks(p, new) = w1 \o w2 \o w3 \o w4 \o w5
  BY DEF CommandCallbacks, Callback
<1> HIDE DEF new
<1>3. /\ oldValue \in Values /\ newValue \in Values
      /\ oldPriority \in 0..SlotCount /\ newPriority \in 0..SlotCount
      /\ slots[p] \in Values \cup {Null} /\ new[p] \in Values \cup {Null}
      /\ p \in 0..SlotCount /\ 0 \in 0..SlotCount
  <2>1. oldValue \in Values /\ newValue \in Values
    BY <1>1, EffectiveValueType DEF PresentValue
  <2>2. oldPriority \in 0..SlotCount /\ newPriority \in 0..SlotCount
    BY <1>1, EffectivePriorityIsHighest
  <2>3. slots[p] \in Values \cup {Null} /\ new[p] \in Values \cup {Null}
    BY <1>1 DEF Array
  <2>4. p \in 0..SlotCount /\ 0 \in 0..SlotCount
    BY CommandableAssumption DEF Priorities
  <2>. QED BY <2>1, <2>2, <2>3, <2>4
<1> HIDE DEF oldValue, newValue, oldPriority, newPriority
<1>4. /\ c1 \in Step /\ c1.to = "output" /\ c1.at = 0 /\ c1.old = oldValue /\ c1.new = newValue
      /\ c2 \in Step /\ c2.to = "slot" /\ c2.at = p /\ c2.old = slots[p] /\ c2.new = new[p]
      /\ c3 \in Step /\ c3.to = "effectivePriority" /\ c3.at = 0
      /\ c3.old = oldPriority /\ c3.new = newPriority
      /\ c4 \in Step /\ c4.to = "presentValue" /\ c4.at = 0
      /\ c4.old = oldValue /\ c4.new = newValue
      /\ c5 \in Step /\ c5.to = "relinquish"
  BY <1>3 DEF Callback, Step, Steps, ChangeCallbacks
<1> HIDE DEF c1, c2, c3, c4, c5
<1>5. \A c \in {c1, c2, c3, c4, c5} : c.to \in Attached => c \in Heard
  BY <1>4 DEF Heard, ChangeCallbacks
<1>6. /\ w1 \in Seq(Heard) /\ w2 \in Seq(Heard) /\ w3 \in Seq(Heard)
      /\ w4 \in Seq(Heard) /\ w5 \in Seq(Heard)
  BY <1>5, WhenHeard
<1>7. /\ w1 \in Seq(Step) /\ w2 \in Seq(Step) /\ w3 \in Seq(Step)
      /\ w4 \in Seq(Step) /\ w5 \in Seq(Step)
  BY <1>6, HeardIsStep
<1>8. CommandCallbacks(p, new) \in Seq(Heard)
  <2> HIDE DEF w1, w2, w3, w4, w5
  <2>1. w1 \o w2 \in Seq(Heard)
    BY <1>6, ConcatProperties
  <2>2. w1 \o w2 \o w3 \in Seq(Heard)
    BY <1>6, <2>1, ConcatProperties
  <2>3. w1 \o w2 \o w3 \o w4 \in Seq(Heard)
    BY <1>6, <2>2, ConcatProperties
  <2>4. w1 \o w2 \o w3 \o w4 \o w5 \in Seq(Heard)
    BY <1>6, <2>3, ConcatProperties
  <2>. QED BY <1>2, <2>4
<1> SUFFICES ASSUME to \in Attached
             PROVE  Carries(CommandCallbacks(p, new), to, at, told, now)
  BY <1>8 DEF new
<1>9. Topics \subseteq ({"slot"} \X Priorities) \cup
                       {<<"effectivePriority", 0>>, <<"presentValue", 0>>, <<"output", 0>>}
  BY DEF Topics
<1>10. Lacks(w5, to, at)
  <2>1. ~Tells(c5, to, at)
    BY <1>4, <1>9 DEF Tells
  <2>. QED BY <1>4, <2>1, WhenLacks
<1>11. (~Tells(c1, to, at) => Lacks(w1, to, at)) /\ (~Tells(c2, to, at) => Lacks(w2, to, at))
  BY <1>4, WhenLacks
<1>12. (~Tells(c3, to, at) => Lacks(w3, to, at)) /\ (~Tells(c4, to, at) => Lacks(w4, to, at))
  BY <1>4, WhenLacks
<1>13. CASE to = "slot" /\ at = p
  <2>1. Carries(w2, c2.to, c2.at, c2.old, c2.new)
    BY <1>4, <1>13, WhenCarries
  <2>2. Carries(w2, to, at, told, now)
    BY <1>4, <1>13, <2>1 DEF Actual
  <2>3. ~Tells(c1, to, at) /\ ~Tells(c3, to, at) /\ ~Tells(c4, to, at)
    BY <1>4, <1>13 DEF Tells
  <2> HIDE DEF w1, w2, w3, w4, w5, told, now
  <2>4. Carries(w1 \o w2 \o w3 \o w4 \o w5, to, at, told, now)
    BY <1>7, <1>10, <1>11, <1>12, <2>2, <2>3, FiveCarry
  <2>. QED BY <1>2, <2>4 DEF told, now
<1>14. CASE to = "slot" /\ at # p
  <2>1. told = now
    BY <1>1, <1>9, <1>14 DEF Actual
  <2>2. ~Tells(c1, to, at) /\ ~Tells(c2, to, at) /\ ~Tells(c3, to, at) /\ ~Tells(c4, to, at)
    BY <1>4, <1>14 DEF Tells
  <2> HIDE DEF w1, w2, w3, w4, w5, told, now
  <2>3. Carries(w1, to, at, told, now)
    BY <1>11, <2>1, <2>2 DEF Carries
  <2>4. Carries(w1 \o w2 \o w3 \o w4 \o w5, to, at, told, now)
    BY <1>7, <1>10, <1>11, <1>12, <2>2, <2>3, FiveCarry
  <2>. QED BY <1>2, <2>4 DEF told, now
<1>15. CASE to = "effectivePriority"
  <2>0. at = 0
    BY <1>9, <1>15
  <2>1. Carries(w3, c3.to, c3.at, c3.old, c3.new)
    BY <1>4, <1>15, WhenCarries
  <2>2. Carries(w3, to, at, told, now)
    BY <1>4, <1>15, <2>0, <2>1 DEF Actual, oldPriority, newPriority
  <2>3. ~Tells(c1, to, at) /\ ~Tells(c2, to, at) /\ ~Tells(c4, to, at)
    BY <1>4, <1>15 DEF Tells
  <2> HIDE DEF w1, w2, w3, w4, w5, told, now
  <2>4. Carries(w1 \o w2 \o w3 \o w4 \o w5, to, at, told, now)
    BY <1>7, <1>10, <1>11, <1>12, <2>2, <2>3, FiveCarry
  <2>. QED BY <1>2, <2>4 DEF told, now
<1>16. CASE to = "presentValue"
  <2>0. at = 0
    BY <1>9, <1>16
  <2>1. Carries(w4, c4.to, c4.at, c4.old, c4.new)
    BY <1>4, <1>16, WhenCarries
  <2>2. Carries(w4, to, at, told, now)
    BY <1>4, <1>16, <2>0, <2>1 DEF Actual, oldValue, newValue, PresentValue
  <2>3. ~Tells(c1, to, at) /\ ~Tells(c2, to, at) /\ ~Tells(c3, to, at)
    BY <1>4, <1>16 DEF Tells
  <2> HIDE DEF w1, w2, w3, w4, w5, told, now
  <2>4. Carries(w1 \o w2 \o w3 \o w4 \o w5, to, at, told, now)
    BY <1>7, <1>10, <1>11, <1>12, <2>2, <2>3, FiveCarry
  <2>. QED BY <1>2, <2>4 DEF told, now
<1>17. CASE to = "output"
  <2>0. at = 0
    BY <1>9, <1>17
  <2>1. Carries(w1, c1.to, c1.at, c1.old, c1.new)
    BY <1>4, <1>17, WhenCarries
  <2>2. Carries(w1, to, at, told, now)
    BY <1>4, <1>17, <2>0, <2>1 DEF Actual, oldValue, newValue, PresentValue
  <2>3. ~Tells(c2, to, at) /\ ~Tells(c3, to, at) /\ ~Tells(c4, to, at)
    BY <1>4, <1>17 DEF Tells
  <2> HIDE DEF w1, w2, w3, w4, w5, told, now
  <2>4. Carries(w1 \o w2 \o w3 \o w4 \o w5, to, at, told, now)
    BY <1>7, <1>10, <1>11, <1>12, <2>2, <2>3, FiveCarry
  <2>. QED BY <1>2, <2>4 DEF told, now
<1>. QED BY <1>9, <1>13, <1>14, <1>15, <1>16, <1>17

\* So does a new relinquish default, of the value.
LEMMA DefaultSays ==
    ASSUME slots \in Array, relinquishDefault \in Values, NEW v \in Values,
           NEW to, NEW at, <<to, at>> \in Topics
    PROVE  /\ DefaultCallbacks(v) \in Seq(Heard)
           /\ to \in Attached =>
                Carries(DefaultCallbacks(v), to, at,
                        Actual(slots, relinquishDefault, to, at), Actual(slots, v, to, at))
<1> DEFINE oldValue == PresentValue
           newValue == EffectiveValue(slots, v)
           c1 == Callback("output", 0, oldValue, newValue)
           c2 == Callback("presentValue", 0, oldValue, newValue)
           w1 == When(c1.old # c1.new, c1)
           w2 == When(c2.old # c2.new, c2)
           told == Actual(slots, relinquishDefault, to, at)
           now == Actual(slots, v, to, at)
<1>1. DefaultCallbacks(v) = w1 \o w2
  BY DEF DefaultCallbacks, Callback
<1>2. oldValue \in Values /\ newValue \in Values /\ 0 \in 0..SlotCount
  BY EffectiveValueType, CommandableAssumption DEF PresentValue
<1> HIDE DEF oldValue, newValue
<1>3. /\ c1 \in Step /\ c1.to = "output" /\ c1.at = 0 /\ c1.old = oldValue /\ c1.new = newValue
      /\ c2 \in Step /\ c2.to = "presentValue" /\ c2.at = 0
      /\ c2.old = oldValue /\ c2.new = newValue
  BY <1>2 DEF Callback, Step, Steps, ChangeCallbacks
<1> HIDE DEF c1, c2
<1>4. \A c \in {c1, c2} : c.to \in Attached => c \in Heard
  BY <1>3 DEF Heard, ChangeCallbacks
<1>5. w1 \in Seq(Heard) /\ w2 \in Seq(Heard)
  BY <1>4, WhenHeard
<1>6. w1 \in Seq(Step) /\ w2 \in Seq(Step)
  BY <1>5, HeardIsStep
<1>7. w1 \o w2 \in Seq(Heard)
  <2> HIDE DEF w1, w2
  <2>. QED BY <1>5, ConcatProperties
<1> SUFFICES ASSUME to \in Attached
             PROVE  Carries(DefaultCallbacks(v), to, at, told, now)
  BY <1>1, <1>7
<1>8. Topics \subseteq ({"slot"} \X Priorities) \cup
                       {<<"effectivePriority", 0>>, <<"presentValue", 0>>, <<"output", 0>>}
  BY DEF Topics
<1>9. (~Tells(c1, to, at) => Lacks(w1, to, at)) /\ (~Tells(c2, to, at) => Lacks(w2, to, at))
  BY <1>3, WhenLacks
<1>10. CASE to \in {"slot", "effectivePriority"}
  <2>1. told = now /\ ~Tells(c1, to, at) /\ ~Tells(c2, to, at)
    BY <1>3, <1>10 DEF Actual, Tells
  <2> HIDE DEF w1, w2, told, now
  <2>2. Lacks(w1 \o w2, to, at)
    BY <1>6, <1>9, <2>1, LacksConcat
  <2>3. Carries(w1 \o w2, to, at, told, now)
    BY <2>1, <2>2 DEF Carries
  <2>. QED BY <1>1, <2>3 DEF told, now
<1>11. CASE to = "presentValue"
  <2>0. at = 0
    BY <1>8, <1>11
  <2>1. Carries(w2, c2.to, c2.at, c2.old, c2.new)
    BY <1>3, <1>11, WhenCarries
  <2>2. Carries(w2, to, at, told, now)
    BY <1>3, <1>11, <2>0, <2>1 DEF Actual, oldValue, newValue, PresentValue
  <2>3. ~Tells(c1, to, at)
    BY <1>3, <1>11 DEF Tells
  <2> HIDE DEF w1, w2, told, now
  <2>4. Carries(w1 \o w2, to, at, told, now)
    BY <1>6, <1>9, <2>2, <2>3, CarriesRight
  <2>. QED BY <1>1, <2>4 DEF told, now
<1>12. CASE to = "output"
  <2>0. at = 0
    BY <1>8, <1>12
  <2>1. Carries(w1, c1.to, c1.at, c1.old, c1.new)
    BY <1>3, <1>12, WhenCarries
  <2>2. Carries(w1, to, at, told, now)
    BY <1>3, <1>12, <2>0, <2>1 DEF Actual, oldValue, newValue, PresentValue
  <2>3. ~Tells(c2, to, at)
    BY <1>3, <1>12 DEF Tells
  <2> HIDE DEF w1, w2, told, now
  <2>4. Carries(w1 \o w2, to, at, told, now)
    BY <1>6, <1>9, <2>2, <2>3, CarriesLeft
  <2>. QED BY <1>1, <2>4 DEF told, now
<1>. QED BY <1>8, <1>10, <1>11, <1>12

-----------------------------------------------------------------------------
\* The inductive invariant.

\* What the application was told of a topic; of the output it is told, too.
ReportedOf(to, at) ==
    CASE to = "slot" -> reported.slots[at]
      [] to = "effectivePriority" -> reported.priority
      [] OTHER -> reported.value

ActualOf(to, at) == Actual(slots, relinquishDefault, to, at)

Reports == {"slot", "effectivePriority", "presentValue"}

\* What is pending takes the application from what it was told to what the
\* object is; the output has the object's value or is about to be driven.
HInv ==
    /\ reported \in [slots : Array, priority : 0..SlotCount, value : Values]
    /\ \A k \in 1..Len(pending) : pending[k].to \in ChangeCallbacks => pending[k] \in Heard
    /\ \A to \in Reports \cap Attached : \A at \in 0..SlotCount :
          <<to, at>> \in Topics =>
              Carries(pending, to, at, ReportedOf(to, at), ActualOf(to, at))

Driving ==
    "output" \in Attached =>
        driven \in {Null, PresentValue} \/ ~Lacks(pending, "output", 0)

\* The object comes up with everything told and nothing driven.
LEMMA InitHistory == HInit => HInv /\ Driving
<1> SUFFICES ASSUME HInit PROVE HInv /\ Driving
  OBVIOUS
<1>1. pending = <<>> /\ 1..Len(pending) = {} /\ slots \in Array /\ relinquishDefault \in Values
  BY DEF HInit, Init, Array
<1>2. reported = [slots |-> slots, priority |-> EffectivePriority(slots), value |-> PresentValue]
  BY DEF HInit, Current
<1>3. reported \in [slots : Array, priority : 0..SlotCount, value : Values]
  BY <1>1, <1>2, EffectivePriorityIsHighest, EffectiveValueType DEF PresentValue
<1>4. \A to \in Reports, at \in 0..SlotCount : ReportedOf(to, at) = ActualOf(to, at)
  BY <1>2 DEF Reports, ReportedOf, ActualOf, Actual, PresentValue
<1>5. \A to \in Reports, at \in 0..SlotCount : Lacks(pending, to, at)
  BY <1>1 DEF Lacks
<1>6. HInv
  BY <1>1, <1>3, <1>4, <1>5 DEF HInv, Carries
<1>. QED BY <1>6 DEF Driving, HInit

-----------------------------------------------------------------------------
\* Every step keeps it.

AllHeard(s) == \A k \in 1..Len(s) : s[k].to \in ChangeCallbacks => s[k] \in Heard

\* Concatenation keeps that every callback is one that is set.
LEMMA AllHeardConcat ==
    ASSUME NEW s \in Seq(Step), NEW t \in Seq(Step), AllHeard(s), AllHeard(t)
    PROVE  s \o t \in Seq(Step) /\ AllHeard(s \o t)
BY ConcatAt DEF AllHeard

\* A guarded call starts with everything told, and says what it changes.
LEMMA CallHistory ==
    ASSUME CInv, HInv, ApplicationRuns, ~callbackInProgress, UNCHANGED history,
           NEW A \in Seq(Heard),
           \A to \in Attached : \A at \in 0..SlotCount :
              <<to, at>> \in Topics =>
                 Carries(A, to, at, ActualOf(to, at),
                         Actual(slots', relinquishDefault', to, at)),
           NEW B \in Seq(Step), \A k \in 1..Len(B) : B[k].to = "reply",
           pending' = A \o <<Return>> \o B \o pending
    PROVE  HInv' /\ (Driving => Driving')
<1> DEFINE R == <<Return>>
           D == A \o R
           E == D \o B
           F == E \o pending
<1>1. A \in Seq(Step) /\ AllHeard(A)
  BY HeardIsStep DEF AllHeard
<1>2. R \in Seq(Step) /\ Len(R) = 1 /\ \A k \in 1..Len(R) : R[k].to = "return"
  <2>1. Return \in Step /\ Return.to = "return"
    BY CommandableAssumption DEF Return, Callback, Step, Steps
  <2>. QED BY <2>1
<1>3. pending \in Seq(Step)
  BY DEF CInv, TypeOK
<1> HIDE DEF R
<1>4. \A k \in 1..Len(pending) : pending[k].to \notin ChangeCallbacks
  BY BeforeCall
<1>5. AllHeard(R) /\ AllHeard(B) /\ AllHeard(pending)
  BY <1>2, <1>4 DEF AllHeard, ChangeCallbacks
<1>6. D \in Seq(Step) /\ AllHeard(D)
  BY <1>1, <1>2, <1>5, AllHeardConcat
<1> HIDE DEF D
<1>7. E \in Seq(Step) /\ AllHeard(E)
  BY <1>5, <1>6, AllHeardConcat
<1> HIDE DEF E
<1>8. F \in Seq(Step) /\ AllHeard(F)
  BY <1>3, <1>5, <1>7, AllHeardConcat
<1>9. pending' = F
  BY DEF F, E, D, R
<1> HIDE DEF F
<1>10. ASSUME NEW to \in ChangeCallbacks, NEW at
       PROVE  Lacks(R, to, at) /\ Lacks(B, to, at) /\ Lacks(pending, to, at)
  BY <1>2, <1>4, <1>10 DEF Lacks, Tells, ChangeCallbacks
<1>11. ASSUME NEW to \in ChangeCallbacks, NEW at, NEW told, NEW now,
              Carries(A, to, at, told, now)
       PROVE  Carries(pending', to, at, told, now)
  <2>0. Lacks(R, to, at) /\ Lacks(B, to, at) /\ Lacks(pending, to, at)
    BY <1>10
  <2>1. Carries(D, to, at, told, now)
    BY <1>1, <1>2, <1>11, <2>0, CarriesLeft DEF D
  <2>2. Carries(E, to, at, told, now)
    BY <1>6, <2>0, <2>1, CarriesLeft DEF E
  <2>3. Carries(F, to, at, told, now)
    BY <1>3, <1>7, <2>0, <2>2, CarriesLeft DEF F
  <2>. QED BY <1>9, <2>3
<1>12. reported' = reported /\ driven' = driven
  BY DEF history
<1>13. ASSUME NEW to \in Reports \cap Attached, NEW at \in 0..SlotCount, <<to, at>> \in Topics
       PROVE  Carries(pending', to, at, ReportedOf(to, at)', ActualOf(to, at)')
  <2>1. to \in ChangeCallbacks /\ Carries(pending, to, at, ReportedOf(to, at), ActualOf(to, at))
    BY <1>13 DEF HInv, Reports, ChangeCallbacks
  <2>2. ReportedOf(to, at) = ActualOf(to, at)
    <3>1. ~ \E k \in 1..Len(pending) : Tells(pending[k], to, at)
      BY <1>10, <2>1 DEF Lacks
    <3>. QED BY <2>1, <3>1 DEF Carries
  <2>3. Carries(A, to, at, ReportedOf(to, at), Actual(slots', relinquishDefault', to, at))
    BY <1>13, <2>2
  <2>4. Carries(pending', to, at, ReportedOf(to, at), Actual(slots', relinquishDefault', to, at))
    BY <1>11, <2>1, <2>3
  <2>5. ReportedOf(to, at)' = ReportedOf(to, at)
    BY <1>12 DEF ReportedOf
  <2>. QED BY <2>4, <2>5 DEF ActualOf
<1>14. HInv'
  <2>1. reported' \in [slots : Array, priority : 0..SlotCount, value : Values]
    BY <1>12 DEF HInv
  <2>2. \A k \in 1..Len(pending') :
           pending'[k].to \in ChangeCallbacks => pending'[k] \in Heard
    BY <1>8, <1>9 DEF AllHeard
  <2>. QED BY <1>13, <2>1, <2>2 DEF HInv
<1>15. ASSUME Driving, "output" \in Attached
       PROVE  driven' \in {Null, PresentValue'} \/ ~Lacks(pending', "output", 0)
  <2>1. "output" \in ChangeCallbacks /\ <<"output", 0>> \in Topics /\ 0 \in 0..SlotCount
    BY CommandableAssumption DEF ChangeCallbacks, Topics
  <2>2. driven \in {Null, PresentValue}
    BY <1>10, <1>15, <2>1 DEF Driving
  <2>3. Actual(slots, relinquishDefault, "output", 0) = PresentValue
        /\ Actual(slots', relinquishDefault', "output", 0) = PresentValue'
    BY DEF Actual, PresentValue
  <2>4. Carries(A, "output", 0, PresentValue, PresentValue')
    BY <1>15, <2>1, <2>3 DEF ActualOf
  <2>5. Carries(pending', "output", 0, PresentValue, PresentValue')
    BY <1>11, <2>1, <2>4
  <2>. QED BY <1>12, <2>2, <2>5 DEF Carries, Lacks
<1>. QED BY <1>14, <1>15 DEF Driving

\* There is a topic.
LEMMA ATopic == <<"presentValue", 0>> \in Topics
BY DEF Topics

\* Every command, local or from the network, keeps it.
LEMMA CommandHistory ==
    ASSUME CInv, HInv, ApplicationRuns, UNCHANGED history,
           NEW p \in Priorities, NEW v \in Values \cup {Null},
           NEW B \in Seq(Step), \A k \in 1..Len(B) : B[k].to = "reply",
           Command(p, v, B)
    PROVE  HInv' /\ (Driving => Driving')
<1> DEFINE new == [slots EXCEPT ![p] = v]
           A == CommandCallbacks(p, new)
<1>1. slots \in Array /\ relinquishDefault \in Values
  BY DEF CInv, TypeOK, Array
<1>2. /\ ~callbackInProgress /\ slots' = new /\ relinquishDefault' = relinquishDefault
      /\ pending' = A \o <<Return>> \o B \o pending
  BY DEF Command
<1>3. ASSUME NEW to \in Attached, NEW at \in 0..SlotCount, <<to, at>> \in Topics
      PROVE  /\ A \in Seq(Heard)
             /\ Carries(A, to, at, ActualOf(to, at),
                        Actual(slots', relinquishDefault', to, at))
  BY <1>1, <1>2, <1>3, CommandSays DEF ActualOf
<1>4. A \in Seq(Heard)
  BY <1>1, CommandSays, ATopic
<1> HIDE DEF A, new
<1>. QED BY <1>2, <1>3, <1>4, CallHistory

\* A new relinquish default keeps it.
LEMMA DefaultHistory ==
    ASSUME CInv, HInv, UNCHANGED history,
           NEW v \in Values, SetRelinquishDefault(v)
    PROVE  HInv' /\ (Driving => Driving')
<1> DEFINE A == DefaultCallbacks(v)
           none == <<>>
<1>1. slots \in Array /\ relinquishDefault \in Values
  BY DEF CInv, TypeOK, Array
<1>2. /\ ApplicationRuns /\ ~callbackInProgress
      /\ slots' = slots /\ relinquishDefault' = v
      /\ pending' = A \o <<Return>> \o pending
  BY DEF SetRelinquishDefault
<1>3. ASSUME NEW to \in Attached, NEW at \in 0..SlotCount, <<to, at>> \in Topics
      PROVE  Carries(A, to, at, ActualOf(to, at), Actual(slots', relinquishDefault', to, at))
  BY <1>1, <1>2, <1>3, DefaultSays DEF ActualOf
<1>4. A \in Seq(Heard)
  BY <1>1, DefaultSays, ATopic
<1> HIDE DEF A
<1>5. pending' = A \o <<Return>> \o none \o pending
  <2>0. Return \in Step
    BY CommandableAssumption DEF Return, Callback, Step, Steps
  <2>1. A \in Seq(Step)
    BY <1>4, HeardIsStep
  <2>2. <<Return>> \in Seq(Step)
    BY <2>0
  <2>3. A \o <<Return>> \in Seq(Step)
    BY <2>1, <2>2, ConcatProperties
  <2>4. A \o <<Return>> \o none = A \o <<Return>>
    BY <2>3, ConcatEmptySeq
  <2>. QED BY <1>2, <2>4
<1>6. none \in Seq(Step) /\ \A k \in 1..Len(none) : none[k].to = "reply"
  OBVIOUS
<1> HIDE DEF none
<1>. QED BY <1>2, <1>3, <1>4, <1>5, <1>6, CallHistory

\* Steps that change neither the object nor what it was told, and leave nothing
\* pending that reports a change unless it was there.
LEMMA QuietHistory ==
    ASSUME CInv, HInv, UNCHANGED history, UNCHANGED <<slots, relinquishDefault>>,
           \/ pending' = pending
           \/ /\ pending = <<>>
              /\ \A k \in 1..Len(pending') : pending'[k].to \notin ChangeCallbacks
    PROVE  HInv' /\ (Driving => Driving')
<1>1. reported' = reported /\ driven' = driven /\ PresentValue' = PresentValue
  BY DEF history, PresentValue
<1>2. ASSUME NEW to, NEW at
      PROVE  ReportedOf(to, at)' = ReportedOf(to, at) /\ ActualOf(to, at)' = ActualOf(to, at)
  BY <1>1 DEF ReportedOf, ActualOf
<1>3. CASE pending' = pending
  <2>1. HInv'
    BY <1>1, <1>2, <1>3 DEF HInv
  <2>. QED BY <1>1, <1>3, <2>1 DEF Driving
<1>4. CASE /\ pending = <<>>
           /\ \A k \in 1..Len(pending') : pending'[k].to \notin ChangeCallbacks
  <2>1. 1..Len(pending) = {}
    BY <1>4
  <2>2. \A to \in ChangeCallbacks : \A at : Lacks(pending', to, at) /\ Lacks(pending, to, at)
    BY <1>4, <2>1 DEF Lacks, Tells
  <2>3. ASSUME NEW to \in Reports \cap Attached, NEW at \in 0..SlotCount, <<to, at>> \in Topics
        PROVE  Carries(pending', to, at, ReportedOf(to, at)', ActualOf(to, at)')
    <3>1. to \in ChangeCallbacks /\ Carries(pending, to, at, ReportedOf(to, at), ActualOf(to, at))
      BY <2>3 DEF HInv, Reports, ChangeCallbacks
    <3>2. ReportedOf(to, at) = ActualOf(to, at)
      BY <2>1, <3>1 DEF Carries
    <3>. QED BY <1>2, <2>2, <3>1, <3>2 DEF Carries
  <2>4. HInv'
    BY <1>1, <1>4, <2>3 DEF HInv
  <2>5. Driving => Driving'
    BY <1>1, <2>2 DEF Driving, ChangeCallbacks
  <2>. QED BY <2>4, <2>5
<1>. QED BY <1>3, <1>4

\* A callback returns: the application knows what it was told.
LEMMA ToldHistory ==
    ASSUME CInv, HInv, Told
    PROVE  HInv'
<1> DEFINE c == Head(pending)
<1>1. /\ pending \in Seq(Step) /\ pending # <<>> /\ pending' = Tail(pending)
      /\ slots' = slots /\ relinquishDefault' = relinquishDefault
  BY DEF CInv, TypeOK, Told, Proceed, Idle
<1>2. /\ c = pending[1] /\ 1 \in 1..Len(pending) /\ c \in Step
      /\ \A k \in 1..Len(pending') : k + 1 \in 1..Len(pending) /\ pending'[k] = pending[k + 1]
  BY <1>1
<1>3. \A to, at : ActualOf(to, at)' = ActualOf(to, at)
  BY <1>1 DEF ActualOf
<1>4. reported' = CASE c.to = "slot" -> [reported EXCEPT !.slots[c.at] = c.new]
                    [] c.to = "effectivePriority" -> [reported EXCEPT !.priority = c.new]
                    [] c.to = "presentValue" -> [reported EXCEPT !.value = c.new]
                    [] OTHER -> reported
  BY DEF Told
<1>5. c.to \in ChangeCallbacks => c \in Heard /\ Committed(c)
  BY <1>2 DEF HInv, CInv, Layout
<1> HIDE DEF c
<1>6. \A k \in 1..Len(pending') : pending'[k].to \in ChangeCallbacks => pending'[k] \in Heard
  BY <1>2 DEF HInv
<1>7. slots \in Array /\ relinquishDefault \in Values /\ PresentValue \in Values
      /\ EffectivePriority(slots) \in 0..SlotCount
  BY EffectivePriorityIsHighest, EffectiveValueType DEF CInv, TypeOK, Array, PresentValue
<1>8. /\ c.to = "slot" => c.at \in Priorities /\ c.new = slots[c.at]
                          /\ c.new \in Values \cup {Null}
      /\ c.to = "effectivePriority" => c.at = 0 /\ c.new = EffectivePriority(slots)
      /\ c.to = "presentValue" => c.at = 0 /\ c.new = PresentValue
  BY <1>5, <1>7 DEF Heard, Committed, ChangeCallbacks, Array
<1>9. reported \in [slots : Array, priority : 0..SlotCount, value : Values]
  BY DEF HInv
<1>10. /\ reported' \in [slots : Array, priority : 0..SlotCount, value : Values]
       /\ \A to \in Reports : \A at \in 0..SlotCount :
             <<to, at>> \in Topics =>
                 ReportedOf(to, at)' = IF Tells(c, to, at) THEN c.new ELSE ReportedOf(to, at)
  <2>0. \A to \in Reports : \A at \in 0..SlotCount : <<to, at>> \in Topics =>
            \/ to = "slot" /\ at \in Priorities
            \/ to \in {"effectivePriority", "presentValue"} /\ at = 0
    BY DEF Topics, Reports
  <2>1. CASE c.to = "slot"
    <3>1. reported' = [reported EXCEPT !.slots = [reported.slots EXCEPT ![c.at] = c.new]]
      BY <1>4, <2>1
    <3>2. [reported.slots EXCEPT ![c.at] = c.new] \in Array
      BY <1>8, <1>9, <2>1 DEF Array
    <3>3. reported' \in [slots : Array, priority : 0..SlotCount, value : Values]
      BY <1>9, <3>1, <3>2
    <3>4. reported'.priority = reported.priority /\ reported'.value = reported.value
          /\ \A q \in Priorities :
                reported'.slots[q] = IF q = c.at THEN c.new ELSE reported.slots[q]
      BY <1>8, <1>9, <2>1, <3>1 DEF Array
    <3>. QED BY <2>0, <2>1, <3>3, <3>4 DEF ReportedOf, Tells
  <2>2. CASE c.to = "effectivePriority"
    <3>1. reported' = [reported EXCEPT !.priority = c.new]
      BY <1>4, <2>2
    <3>2. reported' \in [slots : Array, priority : 0..SlotCount, value : Values]
      BY <1>7, <1>8, <1>9, <2>2, <3>1
    <3>3. reported'.priority = c.new /\ reported'.value = reported.value
          /\ reported'.slots = reported.slots
      BY <1>9, <3>1
    <3>. QED BY <1>8, <2>0, <2>2, <3>2, <3>3 DEF ReportedOf, Tells
  <2>3. CASE c.to = "presentValue"
    <3>1. reported' = [reported EXCEPT !.value = c.new]
      BY <1>4, <2>3
    <3>2. reported' \in [slots : Array, priority : 0..SlotCount, value : Values]
      BY <1>7, <1>8, <1>9, <2>3, <3>1
    <3>3. reported'.value = c.new /\ reported'.priority = reported.priority
          /\ reported'.slots = reported.slots
      BY <1>9, <3>1
    <3>. QED BY <1>8, <2>0, <2>3, <3>2, <3>3 DEF ReportedOf, Tells
  <2>4. CASE c.to \notin Reports
    <3>1. reported' = reported
      BY <1>4, <2>4 DEF Reports
    <3>. QED BY <1>9, <2>4, <3>1 DEF ReportedOf, Tells, Reports
  <2>. QED BY <2>1, <2>2, <2>3, <2>4 DEF Reports
<1>11. ASSUME NEW to \in Reports \cap Attached, NEW at \in 0..SlotCount, <<to, at>> \in Topics
       PROVE  Carries(pending', to, at, ReportedOf(to, at)', ActualOf(to, at)')
  <2>1. Carries(pending, to, at, ReportedOf(to, at), ActualOf(to, at))
    BY <1>11 DEF HInv
  <2>2. /\ Tells(c, to, at) =>
              /\ c.new = ActualOf(to, at)
              /\ Carries(pending', to, at, ActualOf(to, at), ActualOf(to, at))
        /\ ~Tells(c, to, at) =>
              Carries(pending', to, at, ReportedOf(to, at), ActualOf(to, at))
    BY <1>1, <2>1, CarriesTail DEF c
  <2>. QED BY <1>3, <1>10, <1>11, <2>2
<1>. QED BY <1>6, <1>10, <1>11 DEF HInv

\* The binding returns: the output has the value the object has.
LEMMA ToldDriving ==
    ASSUME CInv, OutOfServiceSeesCommitted, Driving, Told
    PROVE  Driving'
<1> DEFINE c == Head(pending)
<1>1. /\ pending \in Seq(Step) /\ pending # <<>> /\ pending' = Tail(pending)
      /\ slots' = slots /\ relinquishDefault' = relinquishDefault
      /\ driven' = IF c.to \in {"output", "outOfService"} THEN c.new ELSE driven
  BY DEF CInv, TypeOK, Told, Proceed, Idle
<1>2. /\ c = pending[1] /\ 1 \in 1..Len(pending)
      /\ Len(pending) \in Nat /\ Len(pending') = Len(pending) - 1
      /\ \A k \in 1..Len(pending) : k # 1 => /\ k - 1 \in 1..Len(pending')
                                             /\ pending'[k - 1] = pending[k]
  BY <1>1
<1>3. PresentValue' = PresentValue
  BY <1>1 DEF PresentValue
<1> HIDE DEF c
<1>4. CASE c.to \in {"output", "outOfService"}
  <2>1. Committed(c)
    BY <1>2, <1>4 DEF CInv, Layout, OutOfServiceSeesCommitted, ChangeCallbacks
  <2>2. driven' = PresentValue'
    BY <1>1, <1>3, <1>4, <2>1 DEF Committed
  <2>. QED BY <2>2 DEF Driving
<1>5. CASE c.to \notin {"output", "outOfService"}
  <2>1. driven' = driven
    BY <1>1, <1>5
  <2>2. ASSUME ~Lacks(pending, "output", 0) PROVE ~Lacks(pending', "output", 0)
    <3>1. PICK k \in 1..Len(pending) : Tells(pending[k], "output", 0)
      BY <2>2 DEF Lacks
    <3>2. k # 1
      BY <1>2, <1>5, <3>1 DEF Tells
    <3>. QED BY <1>2, <3>1, <3>2 DEF Lacks
  <2>. QED BY <1>3, <2>1, <2>2 DEF Driving
<1>. QED BY <1>4, <1>5

\* A step of HSpec is one of Spec.
LEMMA HistoryStep == [HNext]_allVars => [Next]_vars
BY DEF HNext, Called, Told, Next, allVars

\* Every step keeps it; Driving, as long as the unguarded call sees the state.
LEMMA NextHistory ==
    ASSUME CInv, HInv, [HNext]_allVars
    PROVE  HInv' /\ (OutOfServiceSeesCommitted /\ Driving => Driving')
<1> DEFINE none == <<>>
<1>1. none \in Seq(Step) /\ \A k \in 1..Len(none) : none[k].to = "reply"
  OBVIOUS
<1> HIDE DEF none
<1>2. CASE Told
  BY <1>2, ToldHistory, ToldDriving
<1>3. CASE UNCHANGED allVars
  <2>1. UNCHANGED history /\ UNCHANGED <<slots, relinquishDefault>> /\ pending' = pending
    BY <1>3 DEF allVars, vars, history
  <2>. QED BY <2>1, QuietHistory
<1>4. ASSUME UNCHANGED history, NEW p \in Priorities, NEW v \in Values \cup {Null},
             WriteAt(p, v)
      PROVE  HInv' /\ (Driving => Driving')
  <2>1. ApplicationRuns /\ Command(p, v, none)
    BY <1>4 DEF WriteAt, none
  <2>. QED BY <1>1, <1>4, <2>1, CommandHistory
<1>5. ASSUME UNCHANGED history, NEW v \in Values, WriteValue(v)
      PROVE  HInv' /\ (Driving => Driving')
  <2>1. ApplicationRuns /\ Command(LocalPriority, v, none) /\ v \in Values \cup {Null}
    BY <1>5 DEF WriteValue, none
  <2>2. LocalPriority \in Priorities
    BY DEF LocalPriority, CInv, TypeOK, Priorities
  <2>. QED BY <1>1, <1>5, <2>1, <2>2, CommandHistory
<1>6. ASSUME UNCHANGED history, NEW v \in Values, SetRelinquishDefault(v)
      PROVE  HInv' /\ (Driving => Driving')
  BY <1>6, DefaultHistory
<1>7. ASSUME UNCHANGED history, NEW p \in Priorities, SetOwnPriority(p) \/ SetServerPriority(p)
      PROVE  HInv' /\ (Driving => Driving')
  <2>1. UNCHANGED <<slots, relinquishDefault>> /\ pending' = pending
    BY <1>7 DEF SetOwnPriority, SetServerPriority
  <2>. QED BY <1>7, <2>1, QuietHistory
<1>8. ASSUME UNCHANGED history, NEW p \in Priorities, NEW v \in Values \cup {Null},
             WritePresentValue(p, v)
      PROVE  HInv' /\ (Driving => Driving')
  <2> DEFINE answer == <<Reply(p, v)>>
  <2>1. ApplicationRuns /\ Command(p, v, answer)
    BY <1>8 DEF WritePresentValue, ApplicationRuns
  <2>2. Reply(p, v) \in Step /\ Reply(p, v).to = "reply"
    BY DEF Reply, Callback, Step, Steps, Priorities
  <2>3. answer \in Seq(Step) /\ \A k \in 1..Len(answer) : answer[k].to = "reply"
    BY <2>2
  <2> HIDE DEF answer
  <2>. QED BY <1>8, <2>1, <2>3, CommandHistory
<1>9. ASSUME UNCHANGED history, NEW flag \in BOOLEAN, WriteOutOfService(flag)
      PROVE  HInv' /\ (Driving => Driving')
  <2> DEFINE c == Callback("outOfService", 0, PresentValue, PresentValue)
             R == Reply(0, Null)
  <2>1. /\ UNCHANGED <<slots, relinquishDefault>> /\ pending = <<>>
        /\ pending' = <<c>> \o <<R>> \/ pending' = <<>> \o <<R>>
    BY <1>9 DEF WriteOutOfService, Idle
  <2>2. c.to = "outOfService" /\ R.to = "reply" /\ c \in Step /\ R \in Step
    <3>1. PresentValue \in Values
      BY EffectiveValueType DEF PresentValue, CInv, TypeOK, Array
    <3>. QED BY <3>1, CommandableAssumption DEF Callback, Reply, Step, Steps
  <2> HIDE DEF c, R
  <2>3. \A k \in 1..Len(pending') : pending'[k].to \in {"outOfService", "reply"}
    <3> DEFINE s == <<c>>
               t == <<R>>
    <3>1. /\ s \in Seq(Step) /\ \A k \in 1..Len(s) : s[k].to \in {"outOfService", "reply"}
          /\ t \in Seq(Step) /\ \A k \in 1..Len(t) : t[k].to \in {"outOfService", "reply"}
      BY <2>2
    <3> HIDE DEF s, t
    <3>2. pending' = s \o t \/ pending' = t
      BY <2>1, <3>1, ConcatEmptySeq DEF s, t
    <3>3. \A k \in 1..Len(s \o t) : (s \o t)[k].to \in {"outOfService", "reply"}
      <4>1. \A k \in 1..Len(s \o t) :
               \/ k \in 1..Len(s) /\ (s \o t)[k] = s[k]
               \/ k - Len(s) \in 1..Len(t) /\ (s \o t)[k] = t[k - Len(s)]
        BY <3>1, ConcatAt
      <4>. QED BY <3>1, <4>1
    <3>. QED BY <3>1, <3>2, <3>3
  <2>4. \A k \in 1..Len(pending') : pending'[k].to \notin ChangeCallbacks
    BY <2>3 DEF ChangeCallbacks
  <2>. QED BY <1>9, <2>1, <2>4, QuietHistory
<1>. QED BY <1>2, <1>3, <1>4, <1>5, <1>6, <1>7, <1>8, <1>9
         DEF HNext, Called, Application, Network

\* The invariant holds throughout.
LEMMA HistoryInvariance == HSpec => [](CInv /\ HInv)
<1>1. HInit => CInv /\ HInv
  BY InitCInv, InitHistory DEF HInit
<1>2. CInv /\ HInv /\ [HNext]_allVars => (CInv /\ HInv)'
  BY NextCInv, NextHistory, HistoryStep
<1>. QED BY <1>1, <1>2, PTL DEF HSpec

-----------------------------------------------------------------------------
\* What follows from it.

\* Each change callback starts from what the last of its kind reported, and
\* reports something else, whatever the callbacks call themselves.
THEOREM ReportsAreAChain == HSpec => []ReportsChain
<1>1. CInv /\ HInv => ReportsChain
  <2> SUFFICES ASSUME CInv, HInv, ~Idle PROVE
        LET c == Head(pending)
        IN  /\ c.to = "slot" => c.old = reported.slots[c.at] /\ c.new # c.old
            /\ c.to = "effectivePriority" => c.old = reported.priority /\ c.new # c.old
            /\ c.to = "presentValue" => c.old = reported.value /\ c.new # c.old
    BY DEF ReportsChain
  <2> DEFINE c == Head(pending)
  <2>1. pending \in Seq(Step) /\ pending # <<>>
    BY DEF CInv, TypeOK, Idle
  <2>2. 1 \in 1..Len(pending) /\ c = pending[1] /\ c.at \in 0..SlotCount
    <3>1. 1 \in 1..Len(pending) /\ c = pending[1]
      BY <2>1
    <3>2. c \in Step
      BY <2>1, <3>1, ElementOfSeq
    <3>. QED BY <3>1, <3>2 DEF Step
  <2>3. ASSUME c.to \in Reports
        PROVE  c.old = ReportedOf(c.to, c.at) /\ c.new # c.old
    <3>1. c \in Heard /\ c.to \in Attached
      BY <2>2, <2>3 DEF HInv, Heard, Reports, ChangeCallbacks
    <3>2. <<c.to, c.at>> \in Topics
      BY <2>3, <3>1 DEF Heard, Topics, Reports
    <3>3. Carries(pending, c.to, c.at, ReportedOf(c.to, c.at), ActualOf(c.to, c.at))
      BY <2>2, <2>3, <3>1, <3>2 DEF HInv
    <3>4. Tells(c, c.to, c.at)
      BY DEF Tells
    <3>. QED BY <2>1, <3>3, <3>4, CarriesTail
  <2>. QED BY <2>3 DEF ReportedOf, Reports
<1>. QED BY <1>1, HistoryInvariance, PTL

\* With every callback set, what they reported between calls is the object:
\* no writer, priority or relinquish default changes it unheard.
THEOREM NothingIsUnreported == HSpec => []NothingUnreported
<1>1. CInv /\ HInv => NothingUnreported
  <2> SUFFICES ASSUME CInv, HInv, Idle, Reports \subseteq Attached
               PROVE  reported = Current
    BY DEF NothingUnreported, Reports
  <2>1. 1..Len(pending) = {}
    BY DEF Idle
  <2>2. ASSUME NEW to \in Reports, NEW at \in 0..SlotCount, <<to, at>> \in Topics
        PROVE  ReportedOf(to, at) = ActualOf(to, at)
    <3>1. Carries(pending, to, at, ReportedOf(to, at), ActualOf(to, at))
      BY <2>2 DEF HInv
    <3>. QED BY <2>1, <3>1 DEF Carries
  <2>3. reported \in [slots : Array, priority : 0..SlotCount, value : Values] /\ slots \in Array
    BY DEF HInv, CInv, TypeOK, Array
  <2>4. \A p \in Priorities : reported.slots[p] = slots[p]
    <3>1. \A p \in Priorities : p \in 0..SlotCount /\ <<"slot", p>> \in Topics
      BY CommandableAssumption DEF Priorities, Topics
    <3>. QED BY <2>2, <3>1 DEF ReportedOf, ActualOf, Actual, Reports
  <2>5. reported.slots = slots
    BY <2>3, <2>4 DEF Array
  <2>6. reported.priority = EffectivePriority(slots) /\ reported.value = PresentValue
    <3>1. /\ 0 \in 0..SlotCount /\ <<"effectivePriority", 0>> \in Topics
          /\ <<"presentValue", 0>> \in Topics
      BY CommandableAssumption DEF Topics
    <3>. QED BY <2>2, <3>1 DEF ReportedOf, ActualOf, Actual, Reports, PresentValue
  <2>. QED BY <2>3, <2>5, <2>6 DEF Current
<1>. QED BY <1>1, HistoryInvariance, PTL

\* Between calls the output has the value of the object, whichever callbacks
\* command it again, unless the binding does that from inside the unguarded call
\* that WriteProperty of Out_Of_Service makes.
THEOREM OutputFollowsValue ==
    ASSUME "outOfService" \notin Reentrant
    PROVE  HSpec => []OutputFollows
<1> DEFINE Inv == OutOfServiceSeesCommitted /\ Driving
<1>1. HInit => Inv
  <2> SUFFICES ASSUME HInit PROVE Inv
    OBVIOUS
  <2>1. 1..Len(pending) = {} /\ Driving
    BY InitHistory DEF HInit, Init
  <2>. QED BY <2>1 DEF OutOfServiceSeesCommitted
<1>2. CInv /\ HInv /\ Inv /\ [HNext]_allVars => Inv'
  BY NextHistory, HistoryStep, OutOfServiceStaysCommitted
<1>3. Inv => OutputFollows
  BY DEF Driving, OutputFollows, Idle, Lacks
<1>. QED BY <1>1, <1>2, <1>3, HistoryInvariance, PTL DEF HSpec

=============================================================================
