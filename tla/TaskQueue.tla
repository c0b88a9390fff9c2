------------------------------ MODULE TaskQueue ------------------------------
(***************************************************************************)
(* The whole queue: clients that enqueue and requeue dead tasks, and worker *)
(* processes that poll Redis and run handlers, over the keys of            *)
(* RedisBroker.                                                            *)
(*                                                                         *)
(* A worker process has one polling thread (Worker::Run) and a pool of     *)
(* threads that execute handlers (Worker::ProcessTask).  Its broker_mutex_ *)
(* is held by the polling thread from the scheduler tick to the reserve,   *)
(* and by a pool thread while it reports an outcome.  Between processes    *)
(* nothing is shared but Redis, so the calls of one poll interleave with   *)
(* every other process's calls.                                            *)
(*                                                                         *)
(* The metrics hash and the heartbeat keys are read by no branch of this   *)
(* code and are not modelled here.  A Redis error is not caught by Run or  *)
(* by a pool thread and ends the process: it is a Crash, before or after   *)
(* the script it hit.                                                      *)
(***************************************************************************)
EXTENDS RedisBroker, RetryPolicy

CONSTANTS
    Workers,            \* worker processes
    Threads,            \* the threads of each worker's pool
    VisibilityTimeout,  \* per worker: what it passes to ReclaimStaleTasks
    Skew,               \* per worker: how far its host's clock is ahead
    Handles,            \* per worker: the tasks whose name it has registered
    Policy,             \* per task: its retry policy
    Unparsable,         \* tasks that TaskMessageFromJsonString refuses once
                        \* cjson has re-encoded them (an integer of 15 digits
                        \* or more comes back in exponent form)
    RunAts,             \* the run_at values clients enqueue with
    MaxTime,            \* bound on the clock
    MaxCrashes,         \* bound on the number of crashes
    LastCrash           \* bound on the time of a crash

ASSUME WorkerAssumption ==
    /\ VisibilityTimeout \in [Workers -> Nat \ {0}]
    /\ Skew \in [Workers -> Nat]
    /\ Handles \in [Workers -> SUBSET Tasks]
    /\ Unparsable \subseteq Tasks
    /\ RunAts \subseteq Time \cup {Null}
    /\ MaxTime \in Nat /\ MaxCrashes \in Nat /\ LastCrash \in Nat

\* ValidateRetryPolicy admits only such policies.  The delays are those that an
\* int64 can hold; WireFormat has the others.
ASSUME PolicyAssumption ==
    /\ Policy \in [Tasks -> RetryPolicies]
    /\ \A t \in Tasks : \A n \in 1..Policy[t].max_retries :
           ComputeRetryDelayMs(Policy[t], n) \subseteq Nat

VARIABLES
    clock,    \* the time, to which every host adds its skew
    pc,       \* per worker: where its polling thread is
    now_ms,   \* per worker: the NowUnixMs() value the poll is using
    entries,  \* per worker: ids of the HGETALL snapshot not yet looked at
    hands,    \* per worker and thread: the message being processed
    crashes,  \* how many crashes there have been
    late      \* history: tasks with an outcome reported for a lost lease

workerVars == <<pc, now_ms, entries, hands>>
vars == <<brokerVars, clock, workerVars, crashes, late>>

\* "idle": outside broker_mutex_; "down": the process has crashed.
PollStates == {"idle", "promote", "scan", "reclaim", "reserve", "down"}

TypeOK ==
    /\ BrokerTypeOK
    /\ clock \in Time
    /\ pc \in [Workers -> PollStates]
    /\ now_ms \in [Workers -> Time]
    /\ entries \in [Workers -> SUBSET Tasks]
    /\ hands \in [Workers -> [Threads -> TaskMessage \cup {Null}]]
    /\ crashes \in Nat
    /\ late \in SUBSET Tasks

Init ==
    /\ BrokerInit
    /\ clock = 0
    /\ pc = [w \in Workers |-> "idle"]
    /\ now_ms = [w \in Workers |-> 0]
    /\ entries = [w \in Workers |-> {}]
    /\ hands = [w \in Workers |-> [th \in Threads |-> Null]]
    /\ crashes = 0
    /\ late = {}

NowUnixMs(w) == clock + Skew[w]

-----------------------------------------------------------------------------
(* Clients.                                                                *)

\* taskq enqueue.
ClientEnqueue(t) ==
    /\ status[t] = "none"
    /\ \E run_at \in RunAts : Enqueue(t, run_at, clock)
    /\ UNCHANGED <<clock, workerVars, crashes, late>>

\* taskq failed retry.
ClientRetryDead(t) ==
    /\ RetryDeadTaskScript(t)
    /\ UNCHANGED <<clock, workerVars, crashes, late>>

-----------------------------------------------------------------------------
(* The polling thread: one iteration of Worker::Run's loop.                *)

FreeThreads(w) == {th \in Threads : hands[w][th] = Null}

\* CanAcceptTask holds, the mutex is taken, RunSchedulerTick reads the clock.
StartPoll(w) ==
    /\ pc[w] = "idle"
    /\ FreeThreads(w) # {}
    /\ now_ms' = [now_ms EXCEPT ![w] = NowUnixMs(w)]
    /\ pc' = [pc EXCEPT ![w] = "promote"]
    /\ UNCHANGED <<brokerVars, clock, entries, hands, crashes, late>>

\* PromoteDueTasks: one call of its loop, which goes on while a call promotes.
Promote(w) ==
    /\ pc[w] = "promote"
    /\ \/ \E m \in delayed : PromoteOneScript(m, now_ms[w]) /\ UNCHANGED pc
       \/ /\ \E m \in delayed : PromoteDropScript(m, now_ms[w])
          /\ pc' = [pc EXCEPT ![w] = "scan"]
       \/ /\ Due(now_ms[w]) = {}
          /\ pc' = [pc EXCEPT ![w] = "scan"]
          /\ UNCHANGED brokerVars
    /\ UNCHANGED <<clock, now_ms, entries, hands, crashes, late>>

\* ReclaimStaleTasks: the HGETALL.
Scan(w) ==
    /\ pc[w] = "scan"
    /\ entries' = [entries EXCEPT ![w] = {t \in Tasks : running[t] # Null}]
    /\ pc' = [pc EXCEPT ![w] = "reclaim"]
    /\ UNCHANGED <<brokerVars, clock, now_ms, hands, crashes, late>>

\* ReclaimStaleTasks: one iteration over the (unordered) snapshot.
Reclaim(w, t) ==
    /\ pc[w] = "reclaim"
    /\ t \in entries[w]
    /\ entries' = [entries EXCEPT ![w] = @ \ {t}]
    /\ \/ ReclaimOneScript(t, now_ms[w], VisibilityTimeout[w])
       \/ /\ ~IsStale(t, now_ms[w], VisibilityTimeout[w])
          /\ UNCHANGED brokerVars
    /\ UNCHANGED <<clock, pc, now_ms, hands, crashes, late>>

\* The tick is over; RedisBroker::Reserve reads the clock before its script.
StartReserve(w) ==
    /\ pc[w] = "reclaim"
    /\ entries[w] = {}
    /\ now_ms' = [now_ms EXCEPT ![w] = NowUnixMs(w)]
    /\ pc' = [pc EXCEPT ![w] = "reserve"]
    /\ UNCHANGED <<brokerVars, clock, entries, hands, crashes, late>>

\* The reserve script and, if the message parses, its Submit to the pool.
Reserve(w) ==
    /\ pc[w] = "reserve"
    /\ \/ /\ ReserveScript(now_ms[w])
          /\ \/ /\ Head(pending).id \notin Unparsable
                /\ \E th \in FreeThreads(w) :
                       hands' = [hands EXCEPT ![w][th] = Reservable(now_ms[w])]
             \/ /\ Head(pending).id \in Unparsable
                /\ UNCHANGED hands
       \/ ReserveDropScript /\ UNCHANGED hands
       \/ pending = <<>> /\ UNCHANGED <<brokerVars, hands>>
    /\ now_ms' = [now_ms EXCEPT ![w] = 0]
    /\ pc' = [pc EXCEPT ![w] = "idle"]
    /\ UNCHANGED <<clock, entries, crashes, late>>

-----------------------------------------------------------------------------
(* The pool threads: Worker::ProcessTask.  The handler ran, unlocked, since *)
(* the reserve; its outcome is reported under broker_mutex_.                *)

\* The running hash still holds the very lease this thread works under.
HoldsLease(w, th) == running[hands[w][th].id] = hands[w][th]

\* What every report shares: the mutex is free, the thread becomes free.
Report(w, th) ==
    /\ pc[w] = "idle"
    /\ hands[w][th] # Null
    /\ hands' = [hands EXCEPT ![w][th] = Null]
    /\ late' = IF HoldsLease(w, th) THEN late ELSE late \cup {hands[w][th].id}
    /\ UNCHANGED <<clock, pc, now_ms, entries, crashes>>

\* The task's name is not registered: straight to Fail.
FailUnknown(w, th) ==
    /\ Report(w, th)
    /\ hands[w][th].id \notin Handles[w]
    /\ FailScript(hands[w][th].id)

\* The handler succeeded.
Ack(w, th) ==
    /\ Report(w, th)
    /\ hands[w][th].id \in Handles[w]
    /\ AckScript(hands[w][th].id)

\* Bug: reserved_at_ms is not reset.
RetryMessageStillReserved(m, run_at) ==
    [m EXCEPT !.retry_count = @ + 1, !.run_at = run_at]

\* The message that RedisBroker::Retry builds.
RetryMessage(m, run_at) ==
    [id          |-> m.id,
     retry_count |-> m.retry_count + 1,
     run_at      |-> run_at,
     reserved_at |-> Null]

\* The handler failed and retries remain.
Retry(w, th) ==
    /\ Report(w, th)
    /\ hands[w][th].id \in Handles[w]
    /\ ShouldRetry(hands[w][th].retry_count, Policy[hands[w][th].id])
    /\ \E d \in ComputeRetryDelayMs(Policy[hands[w][th].id],
                                    hands[w][th].retry_count + 1) :
          RetryScript(RetryMessage(hands[w][th], NowUnixMs(w) + d))

\* The handler failed and no retries remain.
Fail(w, th) ==
    /\ Report(w, th)
    /\ hands[w][th].id \in Handles[w]
    /\ ~ShouldRetry(hands[w][th].retry_count, Policy[hands[w][th].id])
    /\ FailScript(hands[w][th].id)

-----------------------------------------------------------------------------
(* The environment.                                                        *)

\* A worker process dies; what it had in hand stays in the running hash.
Crash(w) ==
    /\ crashes < MaxCrashes
    /\ clock <= LastCrash
    /\ pc[w] # "down"
    /\ crashes' = crashes + 1
    /\ pc' = [pc EXCEPT ![w] = "down"]
    /\ now_ms' = [now_ms EXCEPT ![w] = 0]
    /\ entries' = [entries EXCEPT ![w] = {}]
    /\ hands' = [hands EXCEPT ![w] = [th \in Threads |-> Null]]
    /\ UNCHANGED <<brokerVars, clock, late>>

\* A new process takes its place.
Restart(w) ==
    /\ pc[w] = "down"
    /\ pc' = [pc EXCEPT ![w] = "idle"]
    /\ UNCHANGED <<brokerVars, clock, now_ms, entries, hands, crashes, late>>

Tick ==
    /\ clock < MaxTime
    /\ clock' = clock + 1
    /\ UNCHANGED <<brokerVars, workerVars, crashes, late>>

Poll(w) ==
    \/ StartPoll(w)
    \/ Promote(w)
    \/ Scan(w)
    \/ \E t \in Tasks : Reclaim(w, t)
    \/ StartReserve(w)
    \/ Reserve(w)

ProcessTask(w, th) ==
    \/ FailUnknown(w, th)
    \/ Ack(w, th)
    \/ Retry(w, th)
    \/ Fail(w, th)

Next ==
    \/ \E t \in Tasks : ClientEnqueue(t) \/ ClientRetryDead(t)
    \/ \E w \in Workers : Poll(w) \/ Crash(w) \/ Restart(w)
    \/ \E w \in Workers, th \in Threads : ProcessTask(w, th)
    \/ Tick

Spec == Init /\ [][Next]_vars

-----------------------------------------------------------------------------
(* Safety.                                                                 *)

\* An entry of the running hash is a message of the id it is filed under.
RunningKeyed == \A t \in Tasks : running[t] # Null => running[t].id = t

\* A task that was enqueued stays in one of the queue's keys until a result is
\* stored for it, whatever crashes, reclaims and late reports happen between
\* the scripts (redis_scripts.cc:15 gives this as the reason to reserve in one
\* script).  Messages that cjson cannot decode are dropped and excepted.
NoTaskLost ==
    \A t \in Tasks \ Undecodable :
        status[t] # "none" => IsQueued(t) \/ results[t] # "none"

\* No copy of a task, in Redis or in a worker, has been retried more often than
\* its policy allows: ShouldRetry is asked about the worker's own copy, which
\* may be out of date by the time Retry writes the next one.
RetryBudget ==
    LET WithinBudget(m) == m.retry_count <= Policy[m.id].max_retries IN
    /\ \A i \in 1..Len(pending) : WithinBudget(pending[i])
    /\ \A m \in delayed : WithinBudget(m)
    /\ \A t \in Tasks : running[t] # Null => WithinBudget(running[t])
    /\ \A i \in 1..Len(dead) : WithinBudget(dead[i])
    /\ \A w \in Workers, th \in Threads :
           hands[w][th] # Null => WithinBudget(hands[w][th])

AtMostOnce(list, t) ==
    \A i, j \in 1..Len(list) : list[i].id = t /\ list[j].id = t => i = j

\* As long as no outcome has been reported for a task by a worker that had lost
\* its lease, the task is in one place only, and there once: the scripts move
\* it, they never copy it.
SingleCopy ==
    \A t \in Tasks \ late :
        /\ AtMostOnce(pending, t)
        /\ AtMostOnce(dead, t)
        /\ \A m, n \in delayed : m.id = t /\ n.id = t => m = n
        /\ InList(pending, t) =>
               ~InDelayed(t) /\ running[t] = Null /\ ~InList(dead, t)
        /\ InDelayed(t) => running[t] = Null /\ ~InList(dead, t)
        /\ running[t] # Null => ~InList(dead, t)
        /\ results[t] # "none" => ~IsQueued(t)

\* Under the same condition taskq:status, which the CLI reports, names the place
\* the task is in: the hash is written by the script that moves the message.
StatusMatchesPlace ==
    \A t \in Tasks \ late :
        /\ InList(pending, t) => status[t] = "pending"
        /\ \A m \in delayed : m.id = t =>
               status[t] = IF m.retry_count = 0 THEN "pending" ELSE "retrying"
        /\ running[t] # Null => status[t] = "running"
        /\ InList(dead, t) => status[t] = "dead"
        /\ results[t] # "none" => status[t] = "succeeded"

\* Whatever the order of reports, what `taskq status` prints next to a status
\* is there: a dead or retrying task has a failure reason, a succeeded one a
\* result and no failure reason.
StatusEvidence ==
    \A t \in Tasks :
        /\ status[t] \in {"dead", "retrying"} => t \in failures
        /\ status[t] = "succeeded" => results[t] # "none" /\ t \notin failures

\* Some worker's clock shows that the lease of m is over.
Expired(m) ==
    \E w \in Workers : NowUnixMs(w) - m.reserved_at > VisibilityTimeout[w]

\* Two threads work on the same task only if the lease of one of them is over,
\* although a tick reclaims with a time it read, and from a snapshot it took,
\* before other workers' steps.  (Late reports make copies with leases of
\* their own; after one nothing is promised.)
LeaseExclusive ==
    \A w, v \in Workers : \A th, tv \in Threads :
        LET m == hands[w][th]
            n == hands[v][tv] IN
        /\ <<w, th>> # <<v, tv>>
        /\ m # Null /\ n # Null
        /\ m.id = n.id /\ m.id \notin late
        => Expired(m) \/ Expired(n)

\* A delayed message, first run or retry, is not moved before its time by some
\* worker's clock, even though ticks promote with a time read earlier.
DelayRespected ==
    [][\A m \in delayed \ delayed' :
           \E w \in Workers : m.run_at <= NowUnixMs(w)]_vars

-----------------------------------------------------------------------------
(* Refinement.                                                             *)

CopiesIn(list, t) == {list[i] : i \in {j \in 1..Len(list) : list[j].id = t}}

\* The messages of a task, wherever they are in Redis.
Copies(t) ==
    CopiesIn(pending, t) \cup CopiesIn(dead, t) \cup {m \in delayed : m.id = t}
        \cup ({running[t]} \ {Null})

Phase(t) ==
    IF t \in late THEN "disputed"
    ELSE IF status[t] = "none" THEN "new"
    ELSE IF results[t] # "none" THEN "succeeded"
    ELSE IF InList(dead, t) THEN "dead"
    ELSE IF running[t] # Null THEN "leased"
    ELSE IF InList(pending, t) \/ InDelayed(t) THEN "waiting"
    ELSE "dropped"

Counts(t) == IF t \in late THEN {} ELSE {m.retry_count : m \in Copies(t)}

Lifecycle ==
    INSTANCE TaskLifecycle WITH
        HandledByAll <- {t \in Tasks : \A w \in Workers : t \in Handles[w]},
        MaxRetries <- [t \in Tasks |-> Policy[t].max_retries],
        phase <- [t \in Tasks |-> Phase(t)],
        counts <- [t \in Tasks |-> Counts(t)]

\* Through all polls, crashes, clocks and races of the workers a task lives the
\* life that README.md:221-230 tells: leased only while it waits, retried only
\* from its lease and by one, reclaimed without a count, buried only when its
\* retries are used up, requeued from the dead list with a fresh budget, and
\* finished for good once it has a result.
ImplementsLifecycle == Lifecycle!Spec

-----------------------------------------------------------------------------
(* What the documentation says.                                            *)

\* README.md:228: a task whose retries are exhausted is `dead`, and is then
\* listed by `taskq failed list` and requeued by `taskq failed retry`, which
\* both look in the dead list.  A copy that still waits or runs is granted: it
\* may be listed yet.
DeadIsListed ==
    \A t \in Tasks : status[t] = "dead" => IsQueued(t)

-----------------------------------------------------------------------------
(* Liveness.  Handlers return, polling threads are scheduled, time passes. *)
(* Nobody has to enqueue, requeue, crash or restart.                       *)

Fairness ==
    /\ \A w \in Workers : WF_vars(Poll(w))
    /\ \A w \in Workers, th \in Threads : WF_vars(ProcessTask(w, th))
    /\ WF_vars(Tick)

FairSpec == Spec /\ Fairness

\* Every task ends with a result or in the dead list, also when a worker dies
\* with the task in hand (README.md:18: crashed workers do not strand tasks
\* forever).  Messages that do not survive the scripts' JSON round trip are
\* excepted: they are dropped, or reserved and reclaimed forever.
EventuallyFinished ==
    \A t \in Tasks \ (Undecodable \cup Unparsable) :
        status[t] # "none" ~> results[t] # "none" \/ InList(dead, t)

=============================================================================
