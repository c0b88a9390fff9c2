---------------------------- MODULE MCHeartbeats -----------------------------
(***************************************************************************)
(* Instances of Heartbeats for TLC.                                        *)
(***************************************************************************)
EXTENDS Heartbeats

=============================================================================
