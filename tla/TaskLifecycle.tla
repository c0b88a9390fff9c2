---------------------------- MODULE TaskLifecycle ----------------------------
(***************************************************************************)
(* What the queue promises about each task, without its keys, workers,     *)
(* clocks and polls: a task waits, is leased, waits again, and ends.       *)
(* TaskQueue implements this specification.                                *)
(*                                                                         *)
(* The promise is made until a worker that has lost its lease reports an   *)
(* outcome all the same: kAckScript, kRetryScript and kFailScript do not   *)
(* ask whose lease it is, and such a task is "disputed" from then on.      *)
(***************************************************************************)
EXTENDS Integers

CONSTANTS
    Tasks,
    Undecodable,  \* tasks whose message the scripts drop
    HandledByAll, \* tasks whose name every worker has registered
    MaxRetries    \* per task: the retries its policy allows

VARIABLES
    phase,  \* per task: where it is in its life
    counts  \* per task: the retry counts of its messages

Phases == {"new", "waiting", "leased", "succeeded", "dead", "dropped", "disputed"}

Init ==
    /\ phase = [t \in Tasks |-> "new"]
    /\ counts = [t \in Tasks |-> {}]

Move(t, from, to) == phase[t] = from /\ phase' = [phase EXCEPT ![t] = to]

SetCounts(t, c) == counts' = [counts EXCEPT ![t] = c]

Enqueue(t) == Move(t, "new", "waiting") /\ SetCounts(t, {0})

Lease(t) == Move(t, "waiting", "leased") /\ UNCHANGED counts

\* The lease is over; this is not a retry.
Release(t) == Move(t, "leased", "waiting") /\ UNCHANGED counts

Retry(t) ==
    /\ Move(t, "leased", "waiting")
    /\ \E n \in counts[t] : n < MaxRetries[t] /\ SetCounts(t, {n + 1})

Succeed(t) == Move(t, "leased", "succeeded") /\ SetCounts(t, {})

\* Only when the retries are used up, or some worker does not know the task.
Bury(t) ==
    /\ Move(t, "leased", "dead")
    /\ t \in HandledByAll => counts[t] = {MaxRetries[t]}
    /\ UNCHANGED counts

Requeue(t) == Move(t, "dead", "waiting") /\ SetCounts(t, {0})

Drop(t) ==
    /\ t \in Undecodable
    /\ Move(t, "waiting", "dropped")
    /\ SetCounts(t, {})

Dispute(t) ==
    /\ phase[t] \notin {"new", "dropped", "disputed"}
    /\ phase' = [phase EXCEPT ![t] = "disputed"]
    /\ SetCounts(t, {})

Next ==
    \E t \in Tasks :
        \/ Enqueue(t) \/ Lease(t) \/ Release(t) \/ Retry(t) \/ Succeed(t)
        \/ Bury(t) \/ Requeue(t) \/ Drop(t) \/ Dispute(t)

Spec == Init /\ [][Next]_<<phase, counts>>

=============================================================================
