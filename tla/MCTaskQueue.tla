----------------------------- MODULE MCTaskQueue -----------------------------
(***************************************************************************)
(* Instances of TaskQueue for TLC.                                         *)
(***************************************************************************)
EXTENDS TaskQueue, TLC

CONSTANTS w1, w2, t1, t2

\* The default multiplier.
Two == [num |-> 2, den |-> 1]

\* One retry, one tick after the failure.
OneRetryPolicy ==
    [t \in Tasks |-> [max_retries |-> 1, base_delay_ms |-> 1, multiplier |-> Two]]

\* Two retries, one and two ticks after the failures.
TwoRetriesPolicy ==
    [t \in Tasks |-> [max_retries |-> 2, base_delay_ms |-> 1, multiplier |-> Two]]

\* t1 is retried once, at once; t2 never.
NoBackoffPolicy ==
    [t \in Tasks |-> [max_retries   |-> IF t = t1 THEN 1 ELSE 0,
                      base_delay_ms |-> 0,
                      multiplier    |-> Two]]

\* Two retries of t1, at once.
TwoAtOncePolicy ==
    [t \in Tasks |-> [max_retries   |-> IF t = t1 THEN 2 ELSE 0,
                      base_delay_ms |-> 0,
                      multiplier    |-> Two]]

SameTimeout == [w \in Workers |-> 1]
W2IsPatient == [w \in Workers |-> IF w = w2 THEN 2 ELSE 1]

NoSkew == [w \in Workers |-> 0]
W2IsAhead == [w \in Workers |-> IF w = w2 THEN 1 ELSE 0]

HandleAll == [w \in Workers |-> Tasks]
W2HandlesT2 == [w \in Workers |-> IF w = w2 THEN {t2} ELSE Tasks]

AtOnce == {Null}
AtOnceOrLater == {Null, 1}

WorkerSymmetry == Permutations(Workers)

=============================================================================
