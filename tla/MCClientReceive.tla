--------------------------- MODULE MCClientReceive ---------------------------
(***************************************************************************)
(* Instances of ClientReceive for TLC.                                      *)
(***************************************************************************)
EXTENDS ClientReceive

CONSTANTS p, q, x, y, present, other

Of(peer, process, point) == [peer |-> peer, process |-> process, point |-> point]
At(peer, process) == Of(peer, process, present)

OneSession == {p}

\* Two subscriptions of one session, and the Process Identifier of one of them
\* for another point, as an entry that the server still holds from before the
\* client restarted; with one subscription also at another peer.
TwoSubscriptions == {At(p, x), At(p, y)}
ForeignSources == TwoSubscriptions \cup {Of(p, x, other)}

OneSubscription == {At(p, x)}
OneForeign == {At(p, x), At(q, x), Of(p, x, other)}

=============================================================================
