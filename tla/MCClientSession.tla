--------------------------- MODULE MCClientSession ---------------------------
(***************************************************************************)
(* Instances of ClientSessionHistory for TLC.                              *)
(***************************************************************************)
EXTENDS ClientSessionHistory

CONSTANTS v1, v2

Ask(cov, immediate, reports, fallbackPoll, lifetime, renewBefore) ==
    [preferCov |-> cov, immediateFirstRead |-> immediate,
     notifyOnStatusChange |-> reports, fallbackPoll |-> fallbackPoll,
     timeout |-> 1, lifetime |-> lifetime, renewBefore |-> renewBefore]

\* Two handles that are read in turn.
ArrayOptions == <<Ask(FALSE, TRUE, TRUE, 0, 1, 0), Ask(FALSE, TRUE, TRUE, 1, 1, 0)>>

\* One handle on COV that is renewed four ticks before its entry ends.
LeaseOptions == <<Ask(TRUE, TRUE, TRUE, 3, 7, 6)>>

\* One handle on COV, for the temporal properties.
ProgressOptions == <<Ask(TRUE, TRUE, TRUE, 2, 2, 1)>>

=============================================================================
