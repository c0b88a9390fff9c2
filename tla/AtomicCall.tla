----------------------------- MODULE AtomicCall ------------------------------
(***************************************************************************)
(* What a caller of the broker may take for granted, and what TaskQueue     *)
(* does: a script, or the transaction of an enqueue, runs at most once for  *)
(* each call; a call that returns has run it, one that throws may have.     *)
(***************************************************************************)
EXTENDS Integers

CONSTANT Processes

VARIABLES
    state,  \* per process: how far its call has come
    runs    \* per process: how often Redis has executed what it called for

Move(p, from, to) == state[p] = from /\ state' = [state EXCEPT ![p] = to]

Init ==
    /\ state = [p \in Processes |-> "idle"]
    /\ runs = [p \in Processes |-> 0]

Call(p) == Move(p, "idle", "called") /\ runs' = [runs EXCEPT ![p] = 0]

Execute(p) == Move(p, "called", "executed") /\ runs' = [runs EXCEPT ![p] = @ + 1]

Return(p) == Move(p, "executed", "idle") /\ UNCHANGED runs

\* The exception ends the process.
Throw(p) == \E s \in {"called", "executed"} : Move(p, s, "idle") /\ UNCHANGED runs

Next == \E p \in Processes : Call(p) \/ Execute(p) \/ Return(p) \/ Throw(p)

Spec == Init /\ [][Next]_<<state, runs>>

=============================================================================
