---------------------------- MODULE CovDelivery ----------------------------
(***************************************************************************)
(* What the client promises of COV notifications (docs/cov.md): whatever    *)
(* arrives in whatever order, a notification reaches only the subscription  *)
(* whose peer and Process Identifier it names, and a confirmed one is       *)
(* acknowledged only when it is handed over, so that the server may forget  *)
(* it.                                                                     *)
(***************************************************************************)
EXTENDS Naturals

CONSTANTS
    Subscriptions,  \* the subscriptions of the client's sessions
    Notifications   \* what its peers may send; n.sub is the tuple n names

VARIABLES
    sent,           \* the notifications the peers have sent
    delivered,      \* pairs of a subscription and a notification it was given
    acknowledged    \* the notifications a SimpleACK was sent for

vars == <<sent, delivered, acknowledged>>

Init == sent = {} /\ delivered = {} /\ acknowledged = {}

Send(n) ==
    /\ sent' = sent \cup {n}
    /\ UNCHANGED <<delivered, acknowledged>>

Deliver(n) ==
    /\ n \in sent /\ n.sub \in Subscriptions
    /\ delivered' = delivered \cup {<<n.sub, n>>}
    /\ acknowledged' = acknowledged \cup {n} \/ (acknowledged' = acknowledged /\ ~n.confirmed)

Next == \E n \in Notifications : Send(n) \/ Deliver(n)

Spec == Init /\ [][Next]_vars

=============================================================================
