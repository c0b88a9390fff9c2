----------------------------- MODULE JobService ------------------------------
(***************************************************************************)
(* What a worker expects of its thread pool: jobs are accepted until the    *)
(* service closes, started in the order they were accepted, each in a slot *)
(* of its own, and each of them runs to its end once.                      *)
(***************************************************************************)
EXTENDS Integers, Sequences

CONSTANTS Jobs, Slots, None

VARIABLES queue, slot, done, closed

vars == <<queue, slot, done, closed>>

Init ==
    /\ queue = <<>>
    /\ slot = [s \in Slots |-> None]
    /\ done = {}
    /\ closed = FALSE

Queued(j) == \E i \in 1..Len(queue) : queue[i] = j
Started(j) == j \in done \/ \E s \in Slots : slot[s] = j

Accept(j) ==
    /\ ~closed
    /\ ~Queued(j) /\ ~Started(j)
    /\ queue' = Append(queue, j)
    /\ UNCHANGED <<slot, done, closed>>

Start(s) ==
    /\ queue # <<>>
    /\ slot[s] = None
    /\ slot' = [slot EXCEPT ![s] = Head(queue)]
    /\ queue' = Tail(queue)
    /\ UNCHANGED <<done, closed>>

Finish(s) ==
    /\ slot[s] # None
    /\ done' = done \cup {slot[s]}
    /\ slot' = [slot EXCEPT ![s] = None]
    /\ UNCHANGED <<queue, closed>>

Close ==
    /\ closed' = TRUE
    /\ UNCHANGED <<queue, slot, done>>

Next ==
    \/ \E j \in Jobs : Accept(j)
    \/ \E s \in Slots : Start(s) \/ Finish(s)
    \/ Close

Spec == Init /\ [][Next]_vars

=============================================================================
