----------------------------- MODULE ThreadPool ------------------------------
(***************************************************************************)
(* src/thread_pool.cc: a deque of functions, a fixed number of threads that *)
(* execute them, one mutex and two condition variables.                    *)
(*                                                                         *)
(* A section under the mutex is one step, since it neither blocks nor reads *)
(* anything the mutex does not protect; a wait releases the mutex and goes *)
(* to sleep in one step.  Submit and Shutdown notify after they unlocked,  *)
(* in a step of their own.  A condition variable may also wake a waiter    *)
(* for no reason.                                                          *)
(***************************************************************************)
EXTENDS Integers, Sequences, FiniteSets

CONSTANTS
    Threads,  \* the pool's threads
    Callers,  \* the threads that use the pool
    Jobs,     \* the functions submitted, each once
    None      \* no job

ASSUME ThreadsAssumption == IsFiniteSet(Threads) /\ Threads # {}
ASSUME CallersAssumption == IsFiniteSet(Callers)
ASSUME NoneAssumption == None \notin Jobs

VARIABLES
    tasks,         \* the deque
    active_count,
    stop,
    thread,        \* per pool thread: where it is in WorkerLoop
    task,          \* per pool thread: the function it executes
    joined,        \* Shutdown has joined the threads and cleared the vector
    caller,        \* per caller: where it is in the pool's code
    accepted,      \* history: jobs that Submit put into the deque
    dropped,       \* history: jobs that Submit refused because of stop
    finished,      \* history: jobs that ran to their end
    awaited        \* history, per caller: jobs accepted when WaitIdle began

poolVars == <<tasks, active_count, stop, thread, task, joined>>
vars == <<poolVars, caller, accepted, dropped, finished, awaited>>

\* "test": at the predicate of the wait, about to hold the mutex.
ThreadStates == {"test", "waiting", "executing", "exited"}

\* "test" and "waiting" are in WaitIdle, "notify" in Submit, "notify_all" and
\* "join" in Shutdown; "ready" is outside of the pool.
CallerStates == {"ready", "notify", "test", "waiting", "notify_all", "join"}

TypeOK ==
    /\ tasks \in Seq(Jobs)
    /\ active_count \in Nat
    /\ stop \in BOOLEAN /\ joined \in BOOLEAN
    /\ thread \in [Threads -> ThreadStates]
    /\ task \in [Threads -> Jobs \cup {None}]
    /\ caller \in [Callers -> CallerStates]
    /\ accepted \in SUBSET Jobs /\ dropped \in SUBSET Jobs
    /\ finished \in SUBSET Jobs
    /\ awaited \in [Callers -> SUBSET Jobs]

Init ==
    /\ tasks = <<>>
    /\ active_count = 0
    /\ stop = FALSE /\ joined = FALSE
    /\ thread = [th \in Threads |-> "test"]
    /\ task = [th \in Threads |-> None]
    /\ caller = [c \in Callers |-> "ready"]
    /\ accepted = {} /\ dropped = {} /\ finished = {}
    /\ awaited = [c \in Callers |-> {}]

-----------------------------------------------------------------------------
(* Submit.                                                                 *)

\* Bug: notify only when the deque was empty.
SubmitAcceptIfEmpty(c, j) ==
    /\ caller[c] = "ready"
    /\ j \notin accepted \cup dropped
    /\ ~stop
    /\ tasks' = Append(tasks, j)
    /\ accepted' = accepted \cup {j}
    /\ caller' = [caller EXCEPT ![c] = IF tasks = <<>> THEN "notify" ELSE "ready"]
    /\ UNCHANGED <<active_count, stop, thread, task, joined, dropped, finished,
                   awaited>>

\* Bug: push_front instead of push_back.
SubmitAcceptFront(c, j) ==
    /\ caller[c] = "ready"
    /\ j \notin accepted \cup dropped
    /\ ~stop
    /\ tasks' = <<j>> \o tasks
    /\ accepted' = accepted \cup {j}
    /\ caller' = [caller EXCEPT ![c] = "notify"]
    /\ UNCHANGED <<active_count, stop, thread, task, joined, dropped, finished,
                   awaited>>

SubmitAccept(c, j) ==
    /\ caller[c] = "ready"
    /\ j \notin accepted \cup dropped
    /\ ~stop
    /\ tasks' = Append(tasks, j)
    /\ accepted' = accepted \cup {j}
    /\ caller' = [caller EXCEPT ![c] = "notify"]
    /\ UNCHANGED <<active_count, stop, thread, task, joined, dropped, finished,
                   awaited>>

SubmitDrop(c, j) ==
    /\ caller[c] = "ready"
    /\ j \notin accepted \cup dropped
    /\ stop
    /\ dropped' = dropped \cup {j}
    /\ UNCHANGED <<poolVars, caller, accepted, finished, awaited>>

\* task_available.notify_one(): some waiter wakes up, if there is one.
NotifyOne(c) ==
    /\ caller[c] = "notify"
    /\ caller' = [caller EXCEPT ![c] = "ready"]
    /\ \/ \E th \in Threads :
              /\ thread[th] = "waiting"
              /\ thread' = [thread EXCEPT ![th] = "test"]
       \/ /\ \A th \in Threads : thread[th] # "waiting"
          /\ UNCHANGED thread
    /\ UNCHANGED <<tasks, active_count, stop, task, joined, accepted, dropped,
                   finished, awaited>>

-----------------------------------------------------------------------------
(* WaitIdle.                                                               *)

WaitIdle(c) ==
    /\ caller[c] = "ready"
    /\ caller' = [caller EXCEPT ![c] = "test"]
    /\ awaited' = [awaited EXCEPT ![c] = accepted]
    /\ UNCHANGED <<poolVars, accepted, dropped, finished>>

\* Bug: a function that is being executed is forgotten.
IsIdleDeque == tasks = <<>>

IsIdle == tasks = <<>> /\ active_count = 0

WaitIdleReturn(c) ==
    /\ caller[c] = "test"
    /\ IsIdle
    /\ caller' = [caller EXCEPT ![c] = "ready"]
    /\ UNCHANGED <<poolVars, accepted, dropped, finished, awaited>>

WaitIdleSleep(c) ==
    /\ caller[c] = "test"
    /\ ~IsIdle
    /\ caller' = [caller EXCEPT ![c] = "waiting"]
    /\ UNCHANGED <<poolVars, accepted, dropped, finished, awaited>>

-----------------------------------------------------------------------------
(* Shutdown, also called by the destructor.                                *)

Shutdown(c) ==
    /\ caller[c] = "ready"
    /\ ~stop  \* a later call returns at once and changes nothing
    /\ stop' = TRUE
    /\ caller' = [caller EXCEPT ![c] = "notify_all"]
    /\ UNCHANGED <<tasks, active_count, thread, task, joined, accepted, dropped,
                   finished, awaited>>

\* Bug: notify_one instead of notify_all.
NotifyAllOne(c) ==
    /\ caller[c] = "notify_all"
    /\ caller' = [caller EXCEPT ![c] = "join"]
    /\ \/ \E th \in Threads :
              /\ thread[th] = "waiting"
              /\ thread' = [thread EXCEPT ![th] = "test"]
       \/ /\ \A th \in Threads : thread[th] # "waiting"
          /\ UNCHANGED thread
    /\ UNCHANGED <<tasks, active_count, stop, task, joined, accepted, dropped,
                   finished, awaited>>

\* task_available.notify_all().
NotifyAll(c) ==
    /\ caller[c] = "notify_all"
    /\ caller' = [caller EXCEPT ![c] = "join"]
    /\ thread' = [th \in Threads |->
                      IF thread[th] = "waiting" THEN "test" ELSE thread[th]]
    /\ UNCHANGED <<tasks, active_count, stop, task, joined, accepted, dropped,
                   finished, awaited>>

\* Every thread is joined in turn, so all of them have exited.
Join(c) ==
    /\ caller[c] = "join"
    /\ \A th \in Threads : thread[th] = "exited"
    /\ caller' = [caller EXCEPT ![c] = "ready"]
    /\ joined' = TRUE
    /\ UNCHANGED <<tasks, active_count, stop, thread, task, accepted, dropped,
                   finished, awaited>>

-----------------------------------------------------------------------------
(* WorkerLoop.                                                             *)

\* Bug: the function is taken from the front and left there.
TakeWithoutPop(th) ==
    /\ thread[th] = "test"
    /\ tasks # <<>>
    /\ task' = [task EXCEPT ![th] = Head(tasks)]
    /\ active_count' = active_count + 1
    /\ thread' = [thread EXCEPT ![th] = "executing"]
    /\ UNCHANGED <<tasks, stop, joined, caller, accepted, dropped, finished,
                   awaited>>

\* Bug: active_count is not incremented.
TakeUncounted(th) ==
    /\ thread[th] = "test"
    /\ tasks # <<>>
    /\ task' = [task EXCEPT ![th] = Head(tasks)]
    /\ tasks' = Tail(tasks)
    /\ thread' = [thread EXCEPT ![th] = "executing"]
    /\ UNCHANGED <<active_count, stop, joined, caller, accepted, dropped,
                   finished, awaited>>

Take(th) ==
    /\ thread[th] = "test"
    /\ tasks # <<>>
    /\ task' = [task EXCEPT ![th] = Head(tasks)]
    /\ tasks' = Tail(tasks)
    /\ active_count' = active_count + 1
    /\ thread' = [thread EXCEPT ![th] = "executing"]
    /\ UNCHANGED <<stop, joined, caller, accepted, dropped, finished, awaited>>

Sleep(th) ==
    /\ thread[th] = "test"
    /\ ~stop /\ tasks = <<>>
    /\ thread' = [thread EXCEPT ![th] = "waiting"]
    /\ UNCHANGED <<tasks, active_count, stop, task, joined, caller, accepted,
                   dropped, finished, awaited>>

\* Bug: the thread leaves what is in the deque.
ExitOnStop(th) ==
    /\ thread[th] = "test"
    /\ stop
    /\ thread' = [thread EXCEPT ![th] = "exited"]
    /\ UNCHANGED <<tasks, active_count, stop, task, joined, caller, accepted,
                   dropped, finished, awaited>>

Exit(th) ==
    /\ thread[th] = "test"
    /\ stop /\ tasks = <<>>
    /\ thread' = [thread EXCEPT ![th] = "exited"]
    /\ UNCHANGED <<tasks, active_count, stop, task, joined, caller, accepted,
                   dropped, finished, awaited>>

\* The function returns; the last one to finish wakes up who waits for idle.
Finish(th) ==
    /\ thread[th] = "executing"
    /\ active_count' = active_count - 1
    /\ finished' = finished \cup {task[th]}
    /\ task' = [task EXCEPT ![th] = None]
    /\ thread' = [thread EXCEPT ![th] = "test"]
    /\ caller' = IF tasks = <<>> /\ active_count' = 0
                 THEN [c \in Callers |->
                           IF caller[c] = "waiting" THEN "test" ELSE caller[c]]
                 ELSE caller
    /\ UNCHANGED <<tasks, stop, joined, accepted, dropped, awaited>>

-----------------------------------------------------------------------------
(* Wakeups for no reason, which both waits allow for with a predicate.      *)

SpuriousThread(th) ==
    /\ thread[th] = "waiting"
    /\ thread' = [thread EXCEPT ![th] = "test"]
    /\ UNCHANGED <<tasks, active_count, stop, task, joined, caller, accepted,
                   dropped, finished, awaited>>

SpuriousCaller(c) ==
    /\ caller[c] = "waiting"
    /\ caller' = [caller EXCEPT ![c] = "test"]
    /\ UNCHANGED <<poolVars, accepted, dropped, finished, awaited>>

-----------------------------------------------------------------------------
\* A caller that is inside of the pool's code goes on.
Continue(c) ==
    \/ NotifyOne(c)
    \/ WaitIdleReturn(c) \/ WaitIdleSleep(c)
    \/ NotifyAll(c) \/ Join(c)

WorkerLoop(th) == Take(th) \/ Sleep(th) \/ Exit(th) \/ Finish(th)

Next ==
    \/ \E c \in Callers :
           \/ \E j \in Jobs : SubmitAccept(c, j) \/ SubmitDrop(c, j)
           \/ WaitIdle(c) \/ Shutdown(c) \/ Continue(c) \/ SpuriousCaller(c)
    \/ \E th \in Threads : WorkerLoop(th) \/ SpuriousThread(th)

Spec == Init /\ [][Next]_vars

\* The scheduler runs every thread, the mutex starves none, functions return.
\* Nobody has to call the pool, and spurious wakeups cannot be relied on.
FairSpec ==
    /\ Spec
    /\ \A c \in Callers : WF_vars(Continue(c))
    /\ \A th \in Threads : WF_vars(WorkerLoop(th))

-----------------------------------------------------------------------------
(* Safety.                                                                 *)

Executing == {th \in Threads : thread[th] = "executing"}
Testing == {th \in Threads : thread[th] = "test"}
Waiting == {th \in Threads : thread[th] = "waiting"}
Notifying == {c \in Callers : caller[c] = "notify"}

InDeque(j) == \E i \in 1..Len(tasks) : tasks[i] = j
InThread(j) == \E th \in Threads : task[th] = j

\* An accepted function is in the deque, with a thread, or done; no two of these.
JobHasOnePlace ==
    \A j \in Jobs :
        /\ j \in accepted <=> InDeque(j) \/ InThread(j) \/ j \in finished
        /\ InDeque(j) => ~InThread(j) /\ j \notin finished
        /\ InThread(j) => j \notin finished

\* It is in that place once.
JobIsThereOnce ==
    /\ \A i, k \in 1..Len(tasks) : tasks[i] = tasks[k] => i = k
    /\ \A th, ph \in Threads : task[th] = task[ph] /\ task[th] # None => th = ph

\* A thread has a function exactly while it executes.
ExecutingHasTask ==
    \A th \in Threads : task[th] # None <=> thread[th] = "executing"

\* Every function that Submit accepted is in exactly one of three places, once:
\* in the deque, with one thread, or done.  active_count, from which WaitIdle
\* and Worker::CanAcceptTask conclude, is the number of executing threads.
JobsConserved ==
    /\ JobHasOnePlace
    /\ JobIsThereOnce
    /\ ExecutingHasTask
    /\ active_count = Cardinality(Executing)

\* While a thread sleeps, every function in the deque has a thread that is about
\* to look or a Submit that is about to notify: a notify_one after the unlock
\* can reach nobody, or a thread that would have looked anyway, and yet no
\* thread sleeps through work that nobody else is coming for.
WorkIsSignalled ==
    Waiting # {} => Len(tasks) <= Cardinality(Testing) + Cardinality(Notifying)

\* A thread that went to sleep before Shutdown set stop is still to be woken.
StopIsSignalled ==
    stop /\ Waiting # {} => \E c \in Callers : caller[c] = "notify_all"

\* Nobody sleeps in WaitIdle while the pool is idle: whoever makes it idle
\* notifies under the mutex.
IdleIsSignalled ==
    \A c \in Callers : caller[c] = "waiting" => ~IsIdle

\* No wakeup is lost: whoever sleeps in one of the two condition variables has
\* nothing to do, or somebody is on the way to do it or to wake them up.
NoLostWakeup == WorkIsSignalled /\ StopIsSignalled /\ IdleIsSignalled

\* When Shutdown has joined the threads, every function that was accepted has
\* run to its end, also those in the deque when stop was set, and none can
\* follow.
ShutdownDrains == joined => stop /\ accepted = finished

\* When WaitIdle returns, everything submitted before it was called is done.
WaitIdleCovers ==
    [][\A c \in Callers :
           caller[c] = "test" /\ caller'[c] = "ready" =>
               awaited[c] \subseteq finished]_vars

\* The pool is a job service whose slots are its threads.
Service == INSTANCE JobService
    WITH Slots  <- Threads,
         queue  <- tasks,
         slot   <- task,
         done   <- finished,
         closed <- stop

\* Functions are started in the order of their Submit calls, at most one per
\* thread at a time, none twice and none after it was refused.
ImplementsJobService == Service!Spec

-----------------------------------------------------------------------------
(* Liveness.                                                               *)

\* An accepted function runs to its end, whatever Shutdown does meanwhile.
EveryJobRuns == \A j \in Jobs : j \in accepted ~> j \in finished

\* Both blocking calls return.  WaitIdle does so with finitely many submits,
\* also when Shutdown comes while it waits; Shutdown does because all threads
\* are woken, drain the deque and exit.
CallsReturn ==
    \A c \in Callers :
        caller[c] \in {"test", "notify_all"} ~> caller[c] = "ready"

=============================================================================
