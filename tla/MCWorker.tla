------------------------------ MODULE MCWorker -------------------------------
(***************************************************************************)
(* Instances of Worker for TLC.                                            *)
(***************************************************************************)
EXTENDS Worker

=============================================================================
