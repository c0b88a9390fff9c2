------------------------------- MODULE Worker --------------------------------
(***************************************************************************)
(* The life of one Worker object (src/worker.cc): a thread that calls Run   *)
(* or RunOnce, a stop signal that may arrive at any time, and the pool,    *)
(* here the job service that ThreadPool implements.                        *)
(*                                                                         *)
(* What the broker does is left to TaskQueue: a reserve yields a task that *)
(* this worker has not seen or nothing, a report ends it.  What a heartbeat *)
(* writes is left to Heartbeats.  broker_mutex_ is modelled as such,       *)
(* because the reporting threads that Run and RunOnce wait for need it.    *)
(***************************************************************************)
EXTENDS Integers, Sequences, FiniteSets

CONSTANTS
    Tasks,    \* the tasks that can be reserved
    Threads,  \* the threads of the pool
    None,     \* no task, nobody
    Main,     \* the thread that calls Run or RunOnce
    MaxCalls  \* bound on the number of calls of Run and RunOnce

ASSUME WorkerAssumption ==
    /\ IsFiniteSet(Threads) /\ Threads # {}
    /\ None \notin Tasks \cup Threads
    /\ Main \notin Threads \cup {None}
    /\ MaxCalls \in Nat

VARIABLES
    running_,       \* the atomic flag
    broker_mutex_,  \* who holds it, or None
    pc,             \* where the calling thread is
    reserved,       \* the task that Reserve returned to the calling thread
    queue, slot, done, closed,  \* the pool
    calls,          \* history: how often Run or RunOnce was called
    taken,          \* history: tasks this worker has reserved
    reported,       \* history: tasks whose outcome went to the broker
    dropped,        \* history: tasks that Submit refused
    stopped         \* history: Stop was called

poolVars == <<queue, slot, done, closed>>
historyVars == <<calls, taken, reported, dropped, stopped>>
vars == <<running_, broker_mutex_, pc, reserved, poolVars, historyVars>>

Pool == INSTANCE JobService WITH Jobs <- Tasks, Slots <- Threads

\* "start" to "join" are in Run, the states that begin with "once" in RunOnce.
CallerStates ==
    {"outside", "start", "start_beat", "loop", "beat", "beat_locked", "accept",
     "lock", "poll", "submit", "shutdown", "join",
     "once_lock", "once_poll", "once_submit", "once_wait"}

TypeOK ==
    /\ running_ \in BOOLEAN
    /\ broker_mutex_ \in Threads \cup {Main, None}
    /\ pc \in CallerStates
    /\ reserved \in Tasks \cup {None}
    /\ queue \in Seq(Tasks)
    /\ slot \in [Threads -> Tasks \cup {None}]
    /\ done \in SUBSET Tasks /\ taken \in SUBSET Tasks
    /\ reported \in SUBSET Tasks /\ dropped \in SUBSET Tasks
    /\ closed \in BOOLEAN /\ stopped \in BOOLEAN
    /\ calls \in 0..MaxCalls

Init ==
    /\ running_ = FALSE
    /\ broker_mutex_ = None
    /\ pc = "outside"
    /\ reserved = None
    /\ Pool!Init
    /\ calls = 0
    /\ taken = {} /\ reported = {} /\ dropped = {}
    /\ stopped = FALSE

-----------------------------------------------------------------------------
(* Run.                                                                    *)

Run ==
    /\ pc = "outside"
    /\ calls < MaxCalls
    /\ calls' = calls + 1
    /\ running_' = TRUE
    /\ pc' = "start"
    /\ UNCHANGED <<broker_mutex_, reserved, poolVars, taken, reported,
                   dropped, stopped>>

\* while (running_.load())
TestRunning ==
    /\ pc = "loop"
    /\ pc' = IF running_ THEN "beat" ELSE "shutdown"
    /\ UNCHANGED <<running_, broker_mutex_, reserved, poolVars, historyVars>>

\* MaybePublishHeartbeat, when the last heartbeat is younger than the interval.
SkipHeartbeat ==
    /\ pc = "beat"
    /\ pc' = "accept"
    /\ UNCHANGED <<running_, broker_mutex_, reserved, poolVars, historyVars>>

\* MaybePublishHeartbeat, when it has the mutex; the one before the loop
\* always publishes, because Run has reset last_heartbeat_at_.
PublishHeartbeat ==
    /\ pc \in {"start_beat", "beat_locked"}
    /\ broker_mutex_' = None
    /\ pc' = IF pc = "start_beat" THEN "loop" ELSE "accept"
    /\ UNCHANGED <<running_, reserved, poolVars, historyVars>>

InFlightCount == Len(queue) + Cardinality({th \in Threads : slot[th] # None})

\* Bug: only the tasks that are being executed are counted.
CanAcceptTaskActive ==
    Cardinality({th \in Threads : slot[th] # None}) < Cardinality(Threads)

CanAcceptTask == InFlightCount < Cardinality(Threads)

\* When the pool is full the thread sleeps and starts the loop again.
TestCapacity ==
    /\ pc = "accept"
    /\ pc' = IF CanAcceptTask THEN "lock" ELSE "loop"
    /\ UNCHANGED <<running_, broker_mutex_, reserved, poolVars, historyVars>>

\* std::lock_guard: where the calling thread is once it has the mutex.
Locked == [start |-> "start_beat", beat |-> "beat_locked",
           lock |-> "poll", once_lock |-> "once_poll"]

LockBroker ==
    /\ pc \in DOMAIN Locked
    /\ broker_mutex_ = None
    /\ broker_mutex_' = Main
    /\ pc' = Locked[pc]
    /\ UNCHANGED <<running_, reserved, poolVars, historyVars>>

\* Bug: the empty optional is submitted.
PollNothingSubmits ==
    /\ pc \in {"poll", "once_poll"}
    /\ broker_mutex_' = None
    /\ pc' = IF pc = "poll" THEN "submit" ELSE "once_submit"
    /\ UNCHANGED <<running_, reserved, poolVars, historyVars>>

\* The tick and the reserve, which found nothing; the mutex is released.
PollNothing ==
    /\ pc \in {"poll", "once_poll"}
    /\ broker_mutex_' = None
    /\ pc' = IF pc = "poll" THEN "loop" ELSE "outside"
    /\ UNCHANGED <<running_, reserved, poolVars, historyVars>>

\* Bug: the mutex is held until the end of the iteration.
PollTaskLocked(t) ==
    /\ pc \in {"poll", "once_poll"}
    /\ t \notin taken
    /\ taken' = taken \cup {t}
    /\ reserved' = t
    /\ pc' = IF pc = "poll" THEN "submit" ELSE "once_submit"
    /\ UNCHANGED <<running_, broker_mutex_, poolVars, calls, reported, dropped,
                   stopped>>

\* The tick and the reserve, which returned t; the mutex is released.
PollTask(t) ==
    /\ pc \in {"poll", "once_poll"}
    /\ t \notin taken
    /\ taken' = taken \cup {t}
    /\ reserved' = t
    /\ broker_mutex_' = None
    /\ pc' = IF pc = "poll" THEN "submit" ELSE "once_submit"
    /\ UNCHANGED <<running_, poolVars, calls, reported, dropped, stopped>>

\* Submit, which refuses silently once the pool has been shut down.
Submit ==
    /\ pc \in {"submit", "once_submit"}
    /\ \/ Pool!Accept(reserved) /\ UNCHANGED dropped
       \/ closed /\ dropped' = dropped \cup {reserved} /\ UNCHANGED poolVars
    /\ reserved' = None
    /\ pc' = IF pc = "submit" THEN "loop" ELSE "once_wait"
    /\ UNCHANGED <<running_, broker_mutex_, calls, taken, reported, stopped>>

\* Shutdown returns at once if the pool has been shut down before.
Shutdown ==
    /\ pc = "shutdown"
    /\ \/ ~closed /\ Pool!Close /\ pc' = "join"
       \/ closed /\ pc' = "outside" /\ UNCHANGED poolVars
    /\ UNCHANGED <<running_, broker_mutex_, reserved, historyVars>>

PoolIsIdle == queue = <<>> /\ \A th \in Threads : slot[th] = None

\* Shutdown has joined the threads, which leave only when all is done, and Run
\* returns; or WaitIdle is over, and RunOnce returns.
Return ==
    /\ pc \in {"join", "once_wait"}
    /\ PoolIsIdle
    /\ pc' = "outside"
    /\ UNCHANGED <<running_, broker_mutex_, reserved, poolVars, historyVars>>

-----------------------------------------------------------------------------
(* RunOnce, the signal, and the pool's threads.                            *)

RunOnce ==
    /\ pc = "outside"
    /\ calls < MaxCalls
    /\ calls' = calls + 1
    /\ pc' = "once_lock"
    /\ UNCHANGED <<running_, broker_mutex_, reserved, poolVars, taken, reported,
                   dropped, stopped>>

\* Bug: Stop shuts the pool down itself.
StopClosesPool ==
    /\ ~stopped
    /\ running_' = FALSE
    /\ stopped' = TRUE
    /\ Pool!Close
    /\ UNCHANGED <<broker_mutex_, pc, reserved, calls, taken, reported, dropped>>

\* Stop, called by HandleStopSignal; one signal is enough for what is asked.
Stop ==
    /\ ~stopped
    /\ running_' = FALSE
    /\ stopped' = TRUE
    /\ UNCHANGED <<broker_mutex_, pc, reserved, poolVars, calls, taken, reported,
                   dropped>>

StartTask(th) ==
    /\ Pool!Start(th)
    /\ UNCHANGED <<running_, broker_mutex_, pc, reserved, historyVars>>

\* ProcessTask: the handler has returned, the report needs the mutex.
LockReport(th) ==
    /\ slot[th] \notin reported \cup {None}
    /\ broker_mutex_ = None
    /\ broker_mutex_' = th
    /\ UNCHANGED <<running_, pc, reserved, poolVars, historyVars>>

\* ProcessTask: Ack, Retry or Fail, and the mutex is released.
ReportTask(th) ==
    /\ broker_mutex_ = th
    /\ broker_mutex_' = None
    /\ reported' = reported \cup {slot[th]}
    /\ UNCHANGED <<running_, pc, reserved, poolVars, calls, taken, dropped,
                   stopped>>

\* ProcessTask has returned to the pool.
FinishTask(th) ==
    /\ slot[th] \in reported
    /\ Pool!Finish(th)
    /\ UNCHANGED <<running_, broker_mutex_, pc, reserved, historyVars>>

Continue ==
    \/ TestRunning \/ SkipHeartbeat \/ PublishHeartbeat
    \/ TestCapacity \/ LockBroker
    \/ PollNothing \/ \E t \in Tasks : PollTask(t)
    \/ Submit \/ Shutdown \/ Return

ThreadStep(th) ==
    StartTask(th) \/ LockReport(th) \/ ReportTask(th) \/ FinishTask(th)

Next ==
    \/ Run \/ RunOnce \/ Continue \/ Stop
    \/ \E th \in Threads : ThreadStep(th)

Spec == Init /\ [][Next]_vars

-----------------------------------------------------------------------------
(* Safety.                                                                 *)

\* A reserved task never waits behind another: its lease runs, and there is a
\* thread for every task in flight, although CanAcceptTask is asked before the
\* poll and the submit comes after it.
TaskHasThread == InFlightCount <= Cardinality(Threads)

\* When Run or RunOnce has returned, everything this worker reserved has been
\* reported, or dropped by a pool that an earlier Run had shut down.  So the
\* first call, whichever it is, drops nothing, however the stop signal falls.
ReturnMeansReported ==
    /\ pc = "outside" => taken = reported \cup dropped
    /\ calls <= 1 => dropped = {}

-----------------------------------------------------------------------------
(* Liveness: the calling thread and the pool's threads run, and handlers    *)
(* return.                                                                 *)

FairSpec ==
    /\ Spec
    /\ WF_vars(Continue)
    /\ \A th \in Threads : WF_vars(ThreadStep(th))

InRun == pc \in {"start", "start_beat", "loop", "beat", "beat_locked", "accept",
                 "lock", "poll", "submit", "shutdown", "join"}

\* A stop that reaches a worker inside of Run ends it, also while its threads
\* are busy and hold or want the broker's mutex, and RunOnce returns by itself:
\* both wait for tasks without holding the mutex that the tasks' reports need.
CallsReturn ==
    (InRun /\ ~running_) \/ pc = "once_lock" ~> pc = "outside"

\* tests/worker_test.cc:201, "Worker stops gracefully": after Stop the thread
\* that calls Run can be joined.
StopIsHonoured == (stopped /\ InRun) ~> pc = "outside"

=============================================================================
