----------------------------- MODULE MCCommandable -----------------------------
(***************************************************************************)
(* Instances of CommandableHistory for TLC.                                *)
(***************************************************************************)
EXTENDS CommandableHistory

Everything == ChangeCallbacks
GuardedOnly == ChangeCallbacks

=============================================================================
