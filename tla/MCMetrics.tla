------------------------------ MODULE MCMetrics ------------------------------
(***************************************************************************)
(* Instances of Metrics for TLC.                                           *)
(***************************************************************************)
EXTENDS Metrics, TLC

MetricsSymmetry == Permutations(Workers)

=============================================================================
