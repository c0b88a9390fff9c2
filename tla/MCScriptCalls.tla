---------------------------- MODULE MCScriptCalls ----------------------------
(***************************************************************************)
(* Instances of ScriptCalls for TLC.                                       *)
(***************************************************************************)
EXTENDS ScriptCalls, TLC

ProcessSymmetry == Permutations(Processes)

=============================================================================
