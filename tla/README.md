# A TLA+ model of CrunchyTask

CrunchyTask is a task queue on Redis: clients enqueue JSON tasks, worker
processes reserve them, run registered handlers on a thread pool and report the
outcome; retries with backoff, delayed tasks, a dead-letter list and a
visibility timeout for crashed workers are built on a handful of Lua scripts.
This directory models that code, checks it with TLC and proves its safety with
TLAPS. Paths below are relative to the repository; line numbers of the scripts
are those of `src/redis_scripts.cc`.

## 1. The system

| Component | State | Operations | Talks to |
|---|---|---|---|
| Redis keys and scripts (`redis_scripts.cc`) | `taskq:pending` (list), `delayed` (sorted set), `running`, `status`, `results`, `failures` (hashes), `dead` (list) | reserve, promote one, reclaim one, retry, fail, ack, retry dead; each script is atomic | called by every process |
| `RedisBroker` (`redis_broker.cc`) | none of its own | the scripts, the enqueue transaction, snapshots (`HGETALL`), views, heartbeats, counters | scripts, one or more calls per operation |
| Scheduler (`scheduler.cc`) | none | one tick: promote all due, reclaim all stale, with one reading of the clock | broker |
| Worker (`worker.cc`) | `running_`, `broker_mutex_`, heartbeat times | `Run`, `Stop`, `RunOnce`, `ProcessTask` | scheduler, broker, pool, registry |
| Thread pool (`thread_pool.cc`) | deque, active count, stop flag, two condition variables | `Submit`, `WaitIdle`, `Shutdown`, worker loop | runs `ProcessTask` |
| Registry (`task_registry.cc`) | handlers by name | `HasTask`, `Execute` (exceptions become failures) | worker |
| Retry policy (`retry_policy.cc`) | none | `ShouldRetry`, `ComputeRetryDelayMs` | worker, broker |
| Messages (`task_json.cc`, `task_message.cc`, ...) | none | JSON both ways, in C++ and by cjson in the scripts | everywhere |
| CLI (`cli/main.cc`) | none | enqueue, status, result, stats, worker start, failed list and retry, workers, metrics | broker |
| Heartbeats, metrics | `taskq:workers:<id>`, `taskq:metrics` | several commands per update | broker |
| Python client | none | starts the CLI | CLI |

What is hard:

* **Interleaving.** A poll is many Redis calls (promote loop, `HGETALL`, one
  reclaim per id, reserve), and only each call is atomic. Inside a process
  `broker_mutex_` makes the poll and the reports exclude each other; between
  processes nothing does.
* **Leases without identity.** A report (`Ack`, `Retry`, `Fail`) names the task,
  not the lease. A handler that outlives the visibility timeout reports about a
  task that another worker may have by then (a *late report* below).
* **Time.** A tick acts on a time read at its start, `reserved_at_ms` is read
  before the reserve script runs, hosts' clocks differ, and each worker
  reclaims by its own timeout.
* **Crashes.** A process can die between any two calls. No Redis error is caught
  in `Run` or in a pool thread, so a failing call is a crash as well.
* **JSON round trips.** Scripts decode and re-encode messages with cjson; a
  message may not decode, or may not parse again in C++.

What makes each part correct: the queue loses no task, never retries more than
the policy says, and, as long as nobody reports late, holds each task once, under
a status that fits, with one worker at a time on a live lease; a promotion is not
early; every task ends. The pool runs each submitted function once, wakes up
whoever must be woken, and terminates. Views, counters and heartbeats may lag,
and how far is the question.

## 2. Modules

| Module | Models |
|---|---|
| `RedisBroker.tla` | the keys, and one action per script or transaction |
| `RetryPolicy.tla` | `retry_policy.cc` |
| `TaskLifecycle.tla` | what the queue promises about each task |
| `TaskQueue.tla` | clients, workers, crashes and the clock over `RedisBroker`; implements `TaskLifecycle` |
| `TaskQueueProofs.tla` | its safety properties, and that it implements `TaskLifecycle` |
| `StatusViews.tla` | `taskq status`, `result`, `failed list` and `stats`, read by read over `TaskQueue` |
| `StatusViewsProofs.tla` | that what they print fits together |
| `AtomicCall.tla` | what a caller of a script may rely on |
| `ScriptCalls.tla` | `LoadScripts`, `Eval`, forgotten scripts and lost connections; implements `AtomicCall` |
| `ScriptCallsProofs.tla` | its theorems and their proofs |
| `JobService.tla` | what a pool promises: a queue of jobs and slots that run them |
| `ThreadPool.tla` | `thread_pool.cc`: mutex, condition variables, threads and callers; implements `JobService` |
| `ThreadPoolProofs.tla` | the pool's theorems and their proofs |
| `Worker.tla`, `WorkerProofs.tla` | `Run`, `RunOnce`, `Stop`, `broker_mutex_` over a `JobService` |
| `Heartbeats.tla`, `HeartbeatsProofs.tla` | the commands of a heartbeat, expiry, and `ListWorkers` |
| `Metrics.tla`, `MetricsProofs.tla` | counters and the duration histogram, command by command, and `CollectMetrics` |
| `WireFormat.tla`, `WireFormatProofs.tla` | the JSON of one message through C++ and cjson |
| `MC*.tla` and `MC*.cfg` | the instances for TLC |

`TaskQueue` composes `RedisBroker` and `RetryPolicy`. `Worker` composes the polling
thread with `JobService`, which `ThreadPool` is shown to implement; so the pool's
condition variables need not be repeated in `Worker`. `Heartbeats` and `Metrics`
touch keys that no other module reads, and `WireFormat` justifies the two sets of
tasks (`Undecodable`, `Unparsable`) by which `TaskQueue` abstracts JSON. `StatusViews`
composes the CLI's readers with the whole of `TaskQueue`. `ScriptCalls` justifies
that `TaskQueue` takes a script for one step: a call runs it at most once, and a
call that fails ends the process, which is `Crash`.

Operators marked `\* Bug:` are not part of any specification. Each stands before
the definition it alters and is a slip that a property must notice.

### `RedisBroker`

`pending` and `dead` are sequences (LPUSH appends, RPOP takes the head), `delayed`
a set of messages (ZADD of the same member is idempotent, the score is the
message's `run_at`), `running`, `status` and `results` functions from ids,
`failures` the set of ids with a reason. A message keeps `id`, `retry_count`,
`run_at` and `reserved_at`; name and payload are left out, the policy is a
constant per task. Two constant sets keep what JSON can do: `Undecodable` tasks
are dropped by the scripts' error branches, `Unparsable` ones are moved to
`running` and then refused by `RedisBroker::Reserve`.

### `TaskQueue`

| Action | Code |
|---|---|
| `ClientEnqueue`, `ClientRetryDead` | `taskq enqueue`, `taskq failed retry` |
| `StartPoll` | `CanAcceptTask`, lock of `broker_mutex_`, clock of `RunSchedulerTick` |
| `Promote` | one call of the loop in `PromoteDueTasks` |
| `Scan`, `Reclaim` | `ReclaimStaleTasks`: the `HGETALL`, then one script per id |
| `StartReserve`, `Reserve` | the clock read and the script of `RedisBroker::Reserve`, and `Submit` |
| `Ack`, `Retry`, `Fail`, `FailUnknown` | `ProcessTask` after the handler returned, under the mutex |
| `Crash`, `Restart`, `Tick` | the environment |

`pc[w]` is the polling thread's place, and being away from `"idle"` is holding
the mutex. `hands[w][th]` is the message a pool thread works on. The history
variable `late` collects the tasks for which some report was made by a thread
whose message was no longer the one in the running hash; no action reads it.
`CanAcceptTask` keeps the number of submitted tasks at most the number of
threads, so a reserved task has a thread. The metrics and heartbeat keys are
read by no branch of this code and are left to modules of their own.

### `TaskLifecycle`

A task is new, waiting, leased, succeeded, dead or dropped, and carries the retry
count of its message. `Retry` adds one and only below the policy's limit, `Release`
(a reclaim) adds none, `Bury` needs the count at the limit unless some worker does
not know the task's name, and `Requeue` starts again from 0. From the first late
report on a task is `disputed`, and nothing more is promised about it. The
refinement mapping reads the phase from the key that holds the task (`Phase` in
`TaskQueue`) and the count from all of its copies (`Copies`), so that a second copy
would show as a set of two counts or as a step that no action allows.

### `StatusViews`

One process of the CLI reads at a time. `replies` is what Redis has answered so far;
every reply is a step of its own, and the steps of `TaskQueue` come in between.
`started`, `gained`, `lost` and `cleared` are history: the messages there were when
`stats` began, the moves since then in each direction, and the tasks whose reason
has been deleted. `ListDeadTasks` says of its reply, rather than computes, that it is
the dead list from its newest to its oldest task without those that C++ cannot
parse. The live gauges of `taskq metrics` are the numbers of `GetStats`
and of `ListWorkers`.

### `ScriptCalls` and `AtomicCall`

`cache` is what Redis knows. A process pings, loads every script, then calls:
`Eval` sends `EVALSHA`, `NoScript` leads the first one to `LoadScript` and a second
`EVALSHA`, any other error to the caller. `ConnectionError` strikes before Redis has the
command or before its reply is back. `Flush` empties the cache at any moment. The
transaction of `Enqueue` is the call `Exec`, which Redis cannot forget.

### `ThreadPool` and `JobService`

`tasks`, `active_count` and `stop` are the members of the same names. A step is a
section under the mutex, or a notification made after the unlock: `Submit` is `SubmitAccept` then `NotifyOne`, or `SubmitDrop` after a
stop; `Shutdown` is the store, `NotifyAll`, `Join`; a thread of the worker loop
takes (`Take`), sleeps, exits, or finishes a function, and the last one to finish
notifies under the mutex. `thread[th]` and `caller[c]` are program counters;
`"test"` is the moment before the predicate of a wait is evaluated, to which a
notification and a spurious wakeup both lead. Any thread, a notified one or
another, may get the mutex first. `accepted`, `dropped`, `finished` and
`awaited` are history. `JobService` knows only a FIFO `queue`, what each slot runs, what is
done, and whether it is closed.

### `Worker`

`pc` is where the calling thread is in `Run` or `RunOnce`; `broker_mutex_` is its
holder. A pool thread is followed through `ProcessTask` by `StartTask`, `LockReport`,
`ReportTask` and `FinishTask`. The whole tick and the reserve, which are one
critical section, are one step here (`PollTask`, `PollNothing`), and so is a heartbeat. `Stop` is the
store of `false` and can come at any moment, as a signal does. After `Run` has
shut the pool down, a second call finds it closed, and `Submit` drops the task
without a word: `dropped` records it.

### `Heartbeats`, `Metrics`

One step per Redis command, with a crash, and in `Metrics` an error before or
after Redis executed the command, between any two. In `Heartbeats`, `fields[w]` is
the set of fields in the hash, `ttl[w]` its time to live; `MaybePublishHeartbeat`
fixes the values, `Hset` and `Expire` send them, `ListWorkers` and `Hgetall` are the
reader. In `Metrics`, `at[p]` is the command that process `p` sends next, `report[p]`
and `duration[p]` what it reports; `After` gives the command that follows when one has
succeeded, `AfterError` the one that follows an exception, which `erring[p]` has
counted first. `Execute` is what Redis does, whether or not the process learns of it.
`max_stored` tells a missing maximum from a stored zero. `occurred` counts what really
happened, `collected` is the histogram that `MetricsCollector` would have, and
`overlapped` says that two processes were about to write the maximum at once.

### `WireFormat`

A behaviour is the life of one message, as a record of typed JSON fields. `ToJson`,
`Parses` and `FromJson` are the C++ side; `Cjson` is what `cjson.encode` makes of
`cjson.decode`: no difference between integers and floats, integers with more
digits than `MaxExact` stands for printed as floats, every number rounded to the 14
digits of `%.14g` (`Rounded`, to the nearest of `Printable`), an empty array as an
empty object, too deep nesting refused. Messages of the version that wrote no
`schema_version` are among the initial ones. `Numbers`, `Floats`, `RetryLimits` and
`Multipliers` are the numbers that messages and policies hold; a double is a
fraction, `[num, den]`.

`Retry` computes the backoff with `RetryPolicy`. `ComputeRetryDelayMs` there is the set
of the values that the C++ function may return. The product of the base delay and the
power of the multiplier is cut to an integer (1.5 makes of 150 ms the delays 150, 225,
337, 506). As long as the numerator of the exact product is at most `Precision` (2^53)
the product is a double, and there is one value; beyond, the value may be off by one
and by the four parts in `Precision` that the conversion, `std::pow` and the product can
lose (`Off`). A power above `MaxDouble` is infinite, and times a base delay of zero not
a number. A double out of the range of int64 is cast to either end of it (`Int64`), and
a sum out of range wraps around (`Sum64`); both are undefined behaviour, and these are
the outcomes of common builds. `TaskQueue` uses the same operator, for policies whose
delays an int64 can hold.

## 3. What TLC checks

| Run | Instance | Shows |
|---|---|---|
| `one` | 2 workers; `t1` with 2 retries, `t2` undecodable; 1 crash, clock to 5, timeout 1 | the safety properties of the queue |
| `two` | 2 tasks; `w2`'s clock is 1 ahead, its timeout 2, it does not know `t1`; clock to 4 | `LeaseExclusive` with unequal workers and shared lists |
| `live` | 2 workers; `t1` with 2 retries, and `t2` unparsable; a crash early enough for the lease to end before the clock stops | `ImplementsLifecycle`; `EventuallyFinished`, next to a task that is refused for ever |
| `pool` | 2 threads, 2 callers, 3 functions | safety, refinement and liveness of the pool |
| `worker` | 2 threads, 3 tasks, 2 calls of `Run` or `RunOnce`, a stop at any moment | safety and termination of the worker |
| `beat` | a worker with 2 threads, interval 2, TTL 3, and a reader | the heartbeat keys and the list |
| `metrics` | 2 workers, a client, durations 0 to 2, 2 reports or enqueues, 1 fault | counters and histogram |
| `wire` | payloads of every kind, integers 0, the largest that cjson keeps, the next, and the largest of int64; floats and multipliers that are whole, fractional, and of more digits than cjson prints; 4 retries | what a message survives, and how the delays grow |
| `views` | `t1` with 1 retry, 2 workers, clock to 3, at most 3 moves during one `stats`; a reader | what the CLI prints fits together |
| `calls` | 2 processes, 2 scripts, 2 flushes, 2 connection errors | calls are atomic, forgotten scripts are handled |
| `dead_listed`, `worker_stop` | as the run of the same module | the findings below; TLC reports a violation |

Properties of `TaskQueue`:

* `NoTaskLost`: an enqueued task is in a key of the queue or has a result.
* `RetryBudget`: no copy anywhere exceeds its policy's `max_retries`.
* `SingleCopy`, `StatusMatchesPlace`: until a late report the task is in one place
  once, and `taskq:status` names it.
* `StatusEvidence`: always, a dead or retrying status has a reason, a succeeded one
  a result and no reason.
* `LeaseExclusive`: until a late report two threads work on one task only if a
  lease of theirs is over by some worker's clock.
* `DelayRespected`: nothing leaves the sorted set before its time.
* `EventuallyFinished`: every enqueued task gets a result or is dead-lettered.
* `ImplementsLifecycle`: the queue implements `TaskLifecycle`. In particular a task
  that every worker handles is dead-lettered only with its retries used up, and a
  reclaim, a promotion or a crash leaves its count alone.

Of the other modules:

* Pool: `JobsConserved` (an accepted function is in the deque, with one thread, or
  done, once); `NoLostWakeup` (while a thread sleeps, every queued function has a
  thread about to look or a `Submit` about to notify; nobody sleeps through a stop
  or through idleness); `ShutdownDrains`, `WaitIdleCovers` (what is finished when
  the two calls return; of several calls of `Shutdown` the one that joins the threads,
  since any other returns at once); `ImplementsJobService`; `EveryJobRuns`; `CallsReturn`
  (`WaitIdle` and `Shutdown` do).
* Worker: `TaskHasThread` (capacity is tested before the poll and is still there
  after it); `ReturnMeansReported` (no reserved task is left when `Run` or `RunOnce`
  returns, and a first call drops none); `CallsReturn` (`Run` after a stop, `RunOnce`
  always).
* Heartbeats: `LiveIsListed` (a punctual worker's record is whole at all times);
  `ListedIsConsistent` (whatever two commands a reader falls between);
  `DeadIsForgotten` (a key that has had a TTL never loses it).
* Metrics: `CountersTrail` (never ahead of what is counted, behind by the processes
  about to count and one per fault at most); `SnapshotCoherent`; `HistogramExact`
  (without faults count and sum are exact, and the maximum is unless two processes
  were about to write it at once).
* Wire format: `FieldsMatchPlace` (`run_at_ms`, `reserved_at_ms` and `status` fit the
  key a message is in); `SurvivesScripts` (which messages C++ can read again);
  `WorkerSeesOriginal` (every attempt gets the same policy and payload: the ones that
  were enqueued, with the multiplier rounded to 14 digits and with the exceptions below
  for the payload); `BackoffGrows` (each retry waits the multiplier times as long as the
  one before, cut to milliseconds, although count and policy went through several
  scripts; exactly with a whole multiplier).
* Views: `TaskViewFits` (the status, the reason and the result that `taskq status`
  reads one after the other: a succeeded task is shown with its result because the
  status is read first); `FailedListFits` (a listed task has a reason unless it was
  requeued meanwhile or a late report was made); `StatsWithin` (the four numbers add
  up but for the moves during the reads, by direction: a task that is reserved or
  buried meanwhile may be counted twice but is never missed).
* Script calls: `ImplementsAtomicCall`; `NoScriptIsHandled` (a process ends by an
  exception only if its connection failed, or Redis forgot a script again between
  the reload and the second `EVALSHA`).

*Bounds.* The clock reaches several times the timeout, so that a task can be
reserved, reclaimed, reserved again and reclaimed again while the first holder
is still at work. Two workers are enough for a late report to meet another
lease; the third party of such a race is the scheduler of either. Two tasks are
enough for one to stand before the other in a list. One thread per worker is
enough, because a worker with two threads that polls and reports behaves like two
workers of which only the one with free hands polls: reclaiming one's own task is
reclaiming that of the other. (Only a crash, which takes both threads at once,
would be two crashes there.) `MaxTime`, `MaxCrashes` and `LastCrash` are the only
bounds; the worker symmetry is used where the workers' constants are equal and no
liveness is checked.

In `pool` two sleepers and two notifiers can meet, and two functions can be queued
while a third is executed; the theorems below hold for any number. In `worker` a
second call meets the pool that the first has shut down. In `beat` the TTL is
longer than the interval, as by default, but not by so much that an upsert cannot
overrun it; workers share no key, so one is enough. In `metrics` two reports can be
under way at once, which is what a lost update takes, a fault can hit any
command, and a duration of 0 is one that a missing maximum can be confused with. In `wire` what matters of an integer is on which side of `MaxExact` it
is, and one level of nesting tells a payload from its members; 7 stands for the largest
integer of 14 digits, 128 for 2^53, 200 for the largest int64 and 256 for the largest
double. Four retries with the multipliers 0, 7/8, 17/16 (which is rounded), 3/2, 14 and
24 give delays that stay, shrink, are cut, are rounded, leave int64, and become infinite
or not a number. In `views` the reader
needs one task that can be in every place, and 3 moves are enough for a task to pass
a key before it is read and one after. In `calls` the second flush can hit the moment
after a reload that the first one caused. Deadlock is not
checked in `worker` (nobody has to call again) and `wire` (a message ends).

*Fairness.* Polling threads are scheduled (`WF` on `Poll`), handlers return and
their thread reports (`WF` on `ProcessTask`), time passes (`WF` on `Tick`). Weak
fairness is enough for a report in `live`, where a worker has one thread: while
that thread is busy the worker does not poll, so the mutex stays free. Nobody has
to enqueue, requeue, crash or restart. The crash in `live` happens at time 1 at
the latest, since after the clock's bound no lease could end; the backoff is 0
for the same reason.

In `pool` threads and callers inside of the pool's code are scheduled, the mutex
starves none of them, and functions return (`WF` on `WorkerLoop` and `Continue`);
spurious wakeups happen but are not relied on. In `worker` the calling thread and
the pool's threads go on (`WF` on `Continue` and `ThreadStep`), which again includes
that handlers return; weak fairness is enough for the mutex because the
calling thread stops taking it once it has seen the stop, and takes it once in
`RunOnce`. In `beat`
time passes and a live worker's loop goes on; a worker need not die, and the reader
need not read.

### Findings

* **A dead task that no command can see** (`dead_listed`). In the trace `w2` holds the
  task at its last retry when its lease expires. `w1` reclaims it, reserves it and
  acknowledges it: the result is stored and the running entry is gone. Then the handler
  of `w2` fails, and `kFailScript` finds nothing to bury but still writes `dead` over
  `succeeded`. README.md:228 sends the user to `failed list` and `failed retry`, but the
  task is in no list and in no queue. (`DeadIsListed` grants a copy that still waits or
  runs, so that the counterexample is a task that really is nowhere.)
* **A stop that is overwritten** (`worker_stop`). `Run` starts with
  `running_.store(true)`; a `Stop` that comes after the thread or the signal handler
  exists and before that store has no effect, and `Run` never returns. The test
  "Worker stops gracefully" (tests/worker_test.cc:201) sleeps 30 ms before it
  stops.

What the properties had to except, because the code does otherwise:

* `EXPIRE` is the last of the eight commands of a heartbeat: a process that dies
  during its first one leaves a key without a TTL and is listed for ever, although
  README.md:212 speaks of active workers (`beaten` in `DeadIsForgotten`).
* `RecordDurationMs` reads the maximum, compares and writes it in separate commands,
  so two workers can write the larger and then the smaller; `MetricsCollector`, which
  backs the test double, does not have this race (`overlapped` in `HistogramExact`).
* A late `Ack` of a task that is already in the dead list stores its result and
  deletes its reason, but leaves it in the list, where `failed list` shows it as
  unknown and `failed retry` runs it again (`late` in `FailedListFits`).
* A backoff that does not fit int64 can make the retry due at once, and one beyond 2^53
  is rounded (`exact` and `Small` in `BackoffGrows`).
* The multiplier that a worker computes with has been rounded to 14 digits by the first
  script (`Rounded` in `WorkerSeesOriginal`).

Two observations that need no model: `RedisBroker::Ack` stores the JSON of an empty
`TaskResult::Success()`, not what the handler returned, although README.md:65 and
:175 show the handler's payload (`AckScript` writes `"empty"`); and a payload with an
empty array, an integral float, or an integer or a float of 15 digits or more is changed
by the first script that re-encodes it, and not by the later ones (`Fragile` in
`WireFormat`).

## 4. What is proved

Every invariant and every safety action property that a run checks, and the three
refinements, are theorems, for all values of the constants under the named
assumptions; `theorems` in PROJECT.json lists them. Each rests on an inductive
invariant. The leaves of the proofs are for
Zenon, and for SMT where they need arithmetic, sequences or records.

### The queue: `TaskQueueProofs`

Assumptions: `NullAssumption`, `UndecodableAssumption`, `WorkerAssumption` (what the
validators of `runtime_config.cc` admit) and `PolicyAssumption` (a valid policy with
delays that are natural numbers).

* `TypeCorrect` and `TasksAreKept`: `[]TypeOK` and `[]NoTaskLost`. The latter is not
  inductive alone. Reclaiming or failing id `t` pushes the message found under `t`,
  which must be a message of `t` (`RunningKeyed`); and a failing report without a
  running entry writes a status, so a task in a worker's hands must have one already
  (`HeldKnown`). With both it is: each script that takes a task's last message from
  a key puts one in another or stores a result, and no fact about leases is needed.
  The proofs go script by script (`...Type`, `...Keeps`) and action by action, over
  lemmas on the three list operations.
* `RetriesAreBounded`: `[]RetryBudget`. The invariant is a type (`BudgetInv`): all
  messages, a worker's copies included, are in the set `Budgeted`, and every script
  maps that set to itself. Only `Retry` raises a count, and it does so from the copy
  that `ShouldRetry` was asked about.
* `StatusesHaveEvidence`: `[]StatusEvidence`, inductive with the types alone; late
  reports need no exception.
* `DelaysAreRespected`: the action property `DelayRespected`, from `PollTimePast` (the
  time a tick works with is not ahead of its worker's clock).
* `TasksAreNotCopied` and `StatusesNamePlaces`: `[]SingleCopy` and `[]StatusMatchesPlace`.
  They are inductive only together (`PlacesInv`): a script trusts that the id it
  moves is nowhere else, and the status is what tells, for instance, that a task
  without status is in no key when it is enqueued. A timely report finds its own
  message in the running hash (`TimelyReport`); any other puts the task in `late`.
* `LeasesExclude`: `[]LeaseExclusive`. The invariant (`LeasesInv`) adds that what a
  thread holds is the running entry of its task or a lease that is over by some
  clock. It needs `PollTimePast` for a reclaim (over by the tick's time is over by the
  clock), `PlacesInv` for a reserve (no entry is overwritten), and that a lease that
  is over stays over.
* `QueueImplementsLifecycle`: `Spec => Lifecycle!Spec`. For each script a lemma
  (`...Moves`) says from which phase to which it takes its task, with which counts,
  and that it shows in no other task. `PlacesInv` makes the phase a function of one
  message; `RetryBudget` with a refusing `ShouldRetry` makes a task dead only at
  exactly its last retry; `HeldDecodable` (a thread only has messages that cjson
  could decode) is what a late report needs.

### What the CLI prints: `StatusViewsProofs`

Assumptions: those of the queue, and `ViewsAssumption` (finitely many tasks). Since a
reader changes nothing, every behaviour with readers is one of the queue
(`QueueGoesOn`), and the theorems above apply to it.

* `TaskViewsFit`, `FailedListsFit`, `StatsAreWithin`: `[]TaskViewFits`,
  `[]FailedListFits`, `[]StatsWithin`. The invariant `ViewInv` says, for each command
  and each number of replies it has, what these replies still tell of the queue: a
  result that was there stays, a reason is there or was deleted since. For `stats`
  it is about the sum of the numbers already read and of the present lengths of the
  keys still to be read. One lemma per script (`...Lengths`) says how it changes the four
  lengths; a message that moves towards the keys read later raises the sum at most,
  one that moves the other way lowers it at most. `StatusEvidence` and
  `StatusMatchesPlace` are used for what the first reply implies.

### The pool: `ThreadPoolProofs`

For any finite non-empty set of threads, finite set of callers and set of functions
(`ThreadsAssumption`, `CallersAssumption`, `NoneAssumption`):

* `PoolTypeCorrect`, `PoolConservesJobs`: `[]TypeOK` and `[]JobsConserved`, together,
  as `PoolInv`: that `active_count` is the number of executing threads is needed to
  decrement it, and that a function is in one place to move it to the next.
* `WakeupsReachSleepers`: `[]NoLostWakeup`, from `NoSleepWhileWork`, `NoSleepAfterStop`
  and `NoSleepWhileIdle`. The first is a counting argument over cardinalities: a
  notification turns one notifier and one sleeper into one thread about to look,
  a take removes one function and one such thread.
* `ShutdownFinishesAll`: `[]ShutdownDrains`, with `DrainInv` (a thread exits only from
  a stopped, drained pool, which stays drained).
* `WaitIdleWaitsForAll`: the action property `WaitIdleCovers`, with `AwaitedInv`.
* `PoolImplementsJobService`: `Spec => Service!Spec`, step by step.

### The worker: `WorkerProofs`

For any finite non-empty set of threads, any set of tasks and any number of calls
(`WorkerAssumption` of `Worker`). That `Worker` may use a `JobService` in place of the
pool rests on `PoolImplementsJobService`.

* `WorkerTypes`: `[]TypeOK`.
* `LeasedTaskHasThread`: `[]TaskHasThread`. The invariant (`CapacityInv`) carries what
  `CanAcceptTask` found from the test through the lock and the poll to the submit:
  meanwhile threads only take functions, which leaves their number in flight alone,
  or finish them, which lowers it. That a pool is idle outside of `Run`, and once
  it was joined, is what a later call starts from.
* `CallsLeaveNothing`: `[]ReturnMeansReported`, from `TakenInv` (a reserved task is
  reported, dropped, about to be submitted, or in the pool), `ReportingInv` (a thread
  that holds the mutex has a task that is not reported) and `FirstCallInv` (nothing
  is dropped before a first `Run` has closed the pool).

### Calls, heartbeats, metrics, messages

`ScriptCallsProofs`, for any set of processes, any number of scripts and any bounds on
flushes and errors (`CallsAssumption`):

* `ForgottenScriptsAreHandled`: `[]NoScriptIsHandled`. A second `EVALSHA` fails only if
  the script is not known, so the invariant adds that a script just loaded again is
  known or has been forgotten since (`ReloadedIsKnown`).
* `CallsAreAtomic`: `Spec => Call!Spec`; only types are needed, because the program
  counter alone tells how far the call has come.

`HeartbeatsProofs`, for finitely many workers, any concurrency, interval and TTL, a TTL of
zero included (`HeartbeatAssumption`):

* `HeartbeatTypes`: `[]TypeOK`.
* `LiveWorkerIsListed`, `ListIsConsistent`: `[]LiveIsListed` and `[]ListedIsConsistent`.
  The invariant `KeyInv` says of every punctual worker that during its first upsert the
  key has exactly the fields written so far and no TTL (`FirstUpsert`), and afterwards
  is whole or gone, with a TTL that is what is left since the last `EXPIRE`
  (`LaterUpsert`).

`MetricsProofs`, for finitely many workers and clients, any durations and any number of
calls and faults (`MetricsAssumption`):

* `MetricsTypes`: `[]TypeOK`.
* `CountersNeverLead`: `[]CountersTrail`. The invariant `TrailInv` is exact where the
  property is not: the counter and the processes about to count are together at most
  what happened. `FailureInv` says that the counter of failures is sent for failures
  only.
* `SnapshotsFit`: `[]SnapshotCoherent`, from the same relations in the stored hash
  (`RecordedInv`): the sum covers every duration that may become the maximum, and the
  count is ahead of the sum by the processes that have still to add theirs.
* `HistogramsAreExact`: `[]HistogramExact`. The sum that is still missing is one over a
  set of processes. Since induction over data is out of reach, `IsSum` defines it by
  the partial sums in some order of the set, and `SumAdd` and `SumRemove` construct the
  order for one process more or less (`ExactInv`). `LargestInv` says who will still
  write the largest duration, and that a lone writer has nothing larger to overwrite;
  for a first writer that needs `MissingInv` (a missing maximum reads as zero).

`WireFormatProofs`, for any integers, floats and policies in messages, fractional
multipliers included, and wherever cjson's integers and the precision of doubles end,
under `WireAssumption` (natural numbers of int64; today's timestamps and `max_retries` are
integers that cjson keeps; cjson's integers are doubles, those are in int64),
`PrintableAssumption` (those integers are printed as they are, and every number has a
nearest one that can be printed), `NullAssumption` (an absent field is no value) and
`PowAssumption` (a power is a natural number, the next one the base times as large, and
not zero unless the base is; the provers know nothing of `^`, so this is assumed, and
evaluated by TLC on the instance):

* `WireTypes`, `FieldsFollowPlace`, `MessagesSurvive`, `WorkersSeeOriginals`: `[]TypeOK`,
  `[]FieldsMatchPlace`, `[]SurvivesScripts`, `[]WorkerSeesOriginal`. The invariant
  `WireInv` says which values every field can have got from the enqueued message
  (`FieldsOK`), that the fields for time and status fit the key (`PlaceOK`), and that the
  worker has what C++ parsed (`ParsedOK`). The work is in showing that it survives
  every composition of `ToJson`, `Cjson` and `FromJson`.
* `BackoffsGrow`: the action property `BackoffGrows`, with `WaitedOK` (the last delay is
  one that `ComputeRetryDelayMs` has for the present count). `CutsGrow` relates the
  integral parts of two quotients, `TruncatedFacts` bounds what rounding adds to one, and
  `NextDelay` puts them together.

## 5. What is only model-checked

* Liveness: `EventuallyFinished` of the queue, `EveryJobRuns` and `CallsReturn` of the
  pool, `CallsReturn` of the worker, `DeadIsForgotten` of the heartbeats. Fairness and
  `ENABLED` are out of the prover's reach.
* The violations of `dead_listed` and `worker_stop`, which are counterexamples.
* The facts of `PowAssumption`, on the instance.
* That `WireFormat` justifies `Undecodable` and `Unparsable`, and `ScriptCalls` the atomic
  steps of `TaskQueue`, is an argument between modules that no theorem states.

## 6. Not modelled

Redis itself (persistence, failover, eviction); options, parsing and printing in the
CLI and the two text formats of the metrics (no state); the JSON of `TaskResult`, of
which one value is ever written; the Python client (it starts the CLI and keeps no
state); benchmarks, the example and the test double `tests/fake_broker.cc`. The
rounding of doubles is modelled by a bound on its error, not bit by bit. Ids are assumed
fresh. Clocks may differ by a constant, and do not jump.
