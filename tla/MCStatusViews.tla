---------------------------- MODULE MCStatusViews ----------------------------
(***************************************************************************)
(* Instances of StatusViews for TLC.                                       *)
(***************************************************************************)
EXTENDS StatusViews, TLC

CONSTANTS w1, w2, t1

\* The default multiplier.
Two == [num |-> 2, den |-> 1]

\* One retry, at once.
OneAtOncePolicy ==
    [t \in Tasks |-> [max_retries |-> 1, base_delay_ms |-> 0, multiplier |-> Two]]

SameTimeout == [w \in Workers |-> 1]
NoSkew == [w \in Workers |-> 0]
HandleAll == [w \in Workers |-> Tasks]
AtOnceOrLater == {Null, 1}

WorkerSymmetry == Permutations(Workers)

=============================================================================
