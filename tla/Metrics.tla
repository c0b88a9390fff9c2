------------------------------- MODULE Metrics -------------------------------
(***************************************************************************)
(* The metrics that processes keep in the hash taskq:metrics                *)
(* (RecordCounter, RecordDurationMs and CollectMetrics in                  *)
(* src/redis_broker.cc), beside the events they count.                     *)
(*                                                                         *)
(* A process talks to Redis in a fixed order, under its broker_mutex_.  Each *)
(* command is a step, may fail before or after Redis has executed it, and  *)
(* the process may die between any two.                                    *)
(***************************************************************************)
EXTENDS Integers, FiniteSets

CONSTANTS
    Workers,      \* worker processes
    Clients,      \* processes that enqueue
    Durations,    \* possible durations of a handler, in ms
    MaxCalls,     \* bound on the number of reports and enqueues
    MaxFaults     \* bound on the number of Redis errors and crashes

Processes == Workers \cup Clients

ASSUME MetricsAssumption ==
    /\ IsFiniteSet(Processes) /\ Workers \cap Clients = {}
    /\ Durations \subseteq Nat
    /\ MaxCalls \in Nat /\ MaxFaults \in Nat

VARIABLES
    counters,   \* the fields c:<name>
    histogram,  \* the fields h:task_execution_duration_ms:{count,sum,max}; a
                \* missing field reads as zero
    max_stored, \* the third of these fields exists
    at,         \* per process: the command it sends next
    report,     \* per process: the outcome it reports, or that it enqueues
    duration,   \* per process: the duration it reports
    erring,     \* per process: it counts a Redis error before it goes on
    snapshot,   \* reader: the last snapshot of CollectMetrics
    occurred,   \* history: how often what a counter counts has happened
    collected,  \* history: what a MetricsCollector would have made of the
                \* same durations
    overlapped, \* history: two processes were about to write the maximum at
                \* the same time
    calls,      \* history: reports and enqueues begun
    faults      \* history: errors and crashes

processVars == <<at, report, duration, erring>>
metricsVars == <<counters, histogram, max_stored>>
vars == <<metricsVars, processVars, snapshot, occurred, collected, overlapped,
          calls, faults>>

Counters == {"enqueued", "completed", "failed", "retried", "dead_lettered",
             "redis_operation_errors"}

Reports == {"enqueue", "success", "retry", "fail", "unknown"}

\* The counter of the script or transaction of a report.
CountedBy == [enqueue |-> "enqueued", success |-> "completed",
              retry |-> "retried", fail |-> "dead_lettered",
              unknown |-> "dead_lettered"]

-----------------------------------------------------------------------------
(* The order of the commands.                                              *)

DurationCommands == {"count", "sum", "get_max", "set_max"}

Commands == DurationCommands \cup {"failed", "script", "counter"}

\* Bug: no duration is recorded for a failure.
FirstOnlySuccess(r) == IF r = "success" THEN "count" ELSE "script"

\* ProcessTask records a duration if there is a handler.
First(r) == IF r \in {"success", "retry", "fail"} THEN "count" ELSE "script"

\* What ProcessTask goes on with after RecordDurationMs.
AfterDuration(r) == IF r \in {"retry", "fail"} THEN "failed" ELSE "script"

\* The commands whose successor is always the same.
Successor == [count |-> "sum", sum |-> "get_max", failed |-> "script",
              script |-> "counter", counter |-> "idle"]

\* Bug: the maximum is written before the sum.
AfterMaxFirst(p) ==
    IF at[p] = "get_max" THEN "set_max"
    ELSE IF at[p] = "set_max" THEN "sum"
    ELSE IF at[p] = "sum" THEN AfterDuration(report[p])
    ELSE IF at[p] = "count" THEN "get_max"
    ELSE Successor[at[p]]

\* The next command, after one that succeeded.  HSET of the maximum is sent if
\* HGET returned a smaller one or none.
After(p) ==
    IF at[p] = "get_max"
       /\ (~max_stored \/ histogram.max_ms < duration[p])
    THEN "set_max"
    ELSE IF at[p] \in {"get_max", "set_max"} THEN AfterDuration(report[p])
    ELSE Successor[at[p]]

\* Bug: a failed HINCRBY is sent again.
AfterErrorRetries(p) ==
    IF at[p] \in DurationCommands THEN AfterDuration(report[p]) ELSE at[p]

\* The handlers of sw::redis::Error: RecordDurationMs gives up what is left of
\* it, RecordCounter its counter.
AfterError(p) ==
    IF at[p] \in DurationCommands THEN AfterDuration(report[p])
    ELSE Successor[at[p]]

Idle(p) == at[p] = "idle" /\ ~erring[p]

-----------------------------------------------------------------------------
(* Types and the initial state.                                            *)

DurationHistogram == [count : Nat, sum_ms : Nat, max_ms : Nat]

EmptyHistogram == [count |-> 0, sum_ms |-> 0, max_ms |-> 0]

\* MetricsCollector::ObserveDurationMs.
ObserveDurationMs(h, d) ==
    [count |-> h.count + 1, sum_ms |-> h.sum_ms + d,
     max_ms |-> IF h.max_ms < d THEN d ELSE h.max_ms]

TypeOK ==
    /\ counters \in [Counters -> Nat] /\ occurred \in [Counters -> Nat]
    /\ histogram \in DurationHistogram /\ collected \in DurationHistogram
    /\ at \in [Processes -> Commands \cup {"idle"}]
    /\ report \in [Processes -> Reports]
    /\ duration \in [Processes -> Durations \cup {0}]
    /\ erring \in [Processes -> BOOLEAN]
    /\ snapshot \in [counters : [Counters -> Nat], histogram : DurationHistogram]
    /\ max_stored \in BOOLEAN /\ overlapped \in BOOLEAN
    /\ calls \in 0..MaxCalls /\ faults \in 0..MaxFaults

Init ==
    /\ counters = [c \in Counters |-> 0] /\ occurred = [c \in Counters |-> 0]
    /\ histogram = EmptyHistogram /\ collected = EmptyHistogram
    /\ at = [p \in Processes |-> "idle"]
    /\ report = [p \in Processes |-> "enqueue"]
    /\ duration = [p \in Processes |-> 0]
    /\ erring = [p \in Processes |-> FALSE]
    /\ snapshot = [counters |-> [c \in Counters |-> 0],
                   histogram |-> EmptyHistogram]
    /\ max_stored = FALSE /\ overlapped = FALSE /\ calls = 0 /\ faults = 0

-----------------------------------------------------------------------------
(* Calls.                                                                  *)

\* Bug: the duration is taken from the end to the beginning.
ProcessTaskReversed(w, outcome, d) ==
    /\ Idle(w) /\ calls < MaxCalls
    /\ calls' = calls + 1
    /\ at' = [at EXCEPT ![w] = First(outcome)]
    /\ report' = [report EXCEPT ![w] = outcome]
    /\ duration' = [duration EXCEPT ![w] = -d]
    /\ occurred' = [occurred EXCEPT !["failed"] =
                        IF outcome \in {"retry", "fail"} THEN @ + 1 ELSE @]
    /\ collected' = IF outcome = "unknown" THEN collected
                    ELSE ObserveDurationMs(collected, d)
    /\ UNCHANGED <<metricsVars, erring, snapshot, overlapped, faults>>

\* A handler took d and ended with the outcome given, or there is none; the
\* worker's thread has the mutex and begins to report.
ProcessTask(w, outcome, d) ==
    /\ Idle(w) /\ calls < MaxCalls
    /\ calls' = calls + 1
    /\ at' = [at EXCEPT ![w] = First(outcome)]
    /\ report' = [report EXCEPT ![w] = outcome]
    /\ duration' = [duration EXCEPT ![w] = d]
    /\ occurred' = [occurred EXCEPT !["failed"] =
                        IF outcome \in {"retry", "fail"} THEN @ + 1 ELSE @]
    /\ collected' = IF outcome = "unknown" THEN collected
                    ELSE ObserveDurationMs(collected, d)
    /\ UNCHANGED <<metricsVars, erring, snapshot, overlapped, faults>>

\* RedisBroker::Enqueue: the transaction, then the counter.
Enqueue(c) ==
    /\ Idle(c) /\ calls < MaxCalls
    /\ calls' = calls + 1
    /\ at' = [at EXCEPT ![c] = First("enqueue")]
    /\ report' = [report EXCEPT ![c] = "enqueue"]
    /\ UNCHANGED <<metricsVars, duration, erring, snapshot, occurred, collected,
                   overlapped, faults>>

-----------------------------------------------------------------------------
(* Commands.                                                               *)

\* What Redis does when it executes the next command of p: HINCRBY of a
\* counter, a script, or one of the commands of RecordDurationMs.
Execute(p) ==
    /\ counters' =
        IF at[p] = "failed" THEN [counters EXCEPT !["failed"] = @ + 1]
        ELSE IF at[p] = "counter"
        THEN [counters EXCEPT ![CountedBy[report[p]]] = @ + 1]
        ELSE counters
    /\ occurred' = IF at[p] = "script"
                   THEN [occurred EXCEPT ![CountedBy[report[p]]] = @ + 1]
                   ELSE occurred
    /\ histogram' =
        [count  |-> histogram.count + (IF at[p] = "count" THEN 1 ELSE 0),
         sum_ms |-> histogram.sum_ms + (IF at[p] = "sum" THEN duration[p] ELSE 0),
         max_ms |-> IF at[p] = "set_max" THEN duration[p] ELSE histogram.max_ms]
    /\ max_stored' = (max_stored \/ at[p] = "set_max")

Command(p) ==
    /\ at[p] # "idle" /\ ~erring[p]
    /\ Execute(p)
    /\ at' = [at EXCEPT ![p] = After(p)]
    /\ overlapped' = (\/ overlapped
                      \/ /\ at'[p] = "set_max"
                         /\ \E q \in Processes \ {p} : at[q] = "set_max")
    /\ UNCHANGED <<report, duration, erring, snapshot, collected, calls, faults>>

\* A metrics command fails: Redis was not reached, or its reply was not.
MetricsError(p) ==
    /\ at[p] \notin {"idle", "script"} /\ ~erring[p]
    /\ faults < MaxFaults
    /\ Execute(p) \/ UNCHANGED <<metricsVars, occurred>>
    /\ at' = [at EXCEPT ![p] = AfterError(p)]
    /\ erring' = [erring EXCEPT ![p] = TRUE]
    /\ faults' = faults + 1
    /\ UNCHANGED <<report, duration, snapshot, collected, overlapped, calls>>

\* RecordRedisOperationError: an error of it is ignored, so the counter may or
\* may not be incremented.
RecordRedisOperationError(p) ==
    /\ erring[p]
    /\ \/ counters' = [counters EXCEPT !["redis_operation_errors"] = @ + 1]
       \/ UNCHANGED counters
    /\ erring' = [erring EXCEPT ![p] = FALSE]
    /\ UNCHANGED <<histogram, max_stored, at, report, duration, snapshot,
                   occurred, collected, overlapped, calls, faults>>

\* A script fails, before or after Redis has run it: the exception leaves a
\* thread of the pool, or the client's main, and ends the process.
ScriptError(p) ==
    /\ at[p] = "script" /\ ~erring[p]
    /\ faults < MaxFaults
    /\ Execute(p) \/ UNCHANGED <<metricsVars, occurred>>
    /\ at' = [at EXCEPT ![p] = "idle"]
    /\ faults' = faults + 1
    /\ UNCHANGED <<report, duration, erring, snapshot, collected, overlapped,
                   calls>>

\* The process dies between two commands; another takes its place.
Crash(p) ==
    /\ ~Idle(p)
    /\ faults < MaxFaults
    /\ at' = [at EXCEPT ![p] = "idle"]
    /\ erring' = [erring EXCEPT ![p] = FALSE]
    /\ faults' = faults + 1
    /\ UNCHANGED <<metricsVars, report, duration, snapshot, occurred, collected,
                   overlapped, calls>>

\* CollectMetrics: one HGETALL.
CollectMetrics ==
    /\ snapshot' = [counters |-> counters, histogram |-> histogram]
    /\ UNCHANGED <<metricsVars, processVars, occurred, collected, overlapped,
                   calls, faults>>

\* CollectMetrics, when HGETALL fails: the snapshot is empty, and the error is
\* counted if that works.
CollectMetricsError ==
    /\ faults < MaxFaults
    /\ snapshot' = [counters |-> [c \in Counters |-> 0],
                    histogram |-> EmptyHistogram]
    /\ \/ counters' = [counters EXCEPT !["redis_operation_errors"] = @ + 1]
       \/ UNCHANGED counters
    /\ faults' = faults + 1
    /\ UNCHANGED <<histogram, max_stored, processVars, occurred, collected,
                   overlapped, calls>>

Next ==
    \/ \E w \in Workers, d \in Durations, outcome \in Reports \ {"enqueue"} :
          ProcessTask(w, outcome, d)
    \/ \E c \in Clients : Enqueue(c)
    \/ \E p \in Processes :
          \/ Command(p) \/ MetricsError(p) \/ ScriptError(p) \/ Crash(p)
          \/ RecordRedisOperationError(p)
    \/ CollectMetrics
    \/ CollectMetricsError

Spec == Init /\ [][Next]_vars

-----------------------------------------------------------------------------
(* Properties.                                                             *)

\* The processes that have done what the counter n counts and have not yet
\* counted it.
Counting(n) ==
    {p \in Processes :
        IF n = "failed"
        THEN /\ at[p] \in DurationCommands \cup {"failed"}
             /\ report[p] \in {"retry", "fail"}
        ELSE at[p] = "counter" /\ CountedBy[report[p]] = n}

\* A counter never runs ahead of what it counts, and falls behind it only by
\* the processes that are about to count and by one for every fault: an error
\* or a crash costs one event at most, and none is counted twice.  An error is
\* itself counted at most once.
CountersTrail ==
    /\ \A n \in Counters \ {"redis_operation_errors"} :
        /\ counters[n] <= occurred[n]
        /\ occurred[n] <= counters[n] + Cardinality(Counting(n)) + faults
    /\ counters["redis_operation_errors"] <= faults

\* A snapshot of `taskq metrics` fits together whatever it falls between: the
\* maximum is part of the sum, and the sum of no more values than are counted.
SnapshotCoherent ==
    LET h == snapshot.histogram IN
    /\ h.max_ms <= h.sum_ms
    /\ \A d \in Durations : (\A e \in Durations : e <= d) => h.sum_ms <= h.count * d

Quiet == faults = 0 /\ \A p \in Processes : Idle(p)

\* Without faults the histogram is the one a MetricsCollector would hold
\* (tests/metrics_test.cc:20), however many processes record at the same time:
\* no update of the count and of the sum is lost, and the maximum is right
\* unless two processes were about to write it at once, when it may be the
\* smaller of their durations.
HistogramExact ==
    Quiet =>
        /\ histogram.count = collected.count
        /\ histogram.sum_ms = collected.sum_ms
        /\ histogram.max_ms <= collected.max_ms
        /\ ~overlapped => histogram.max_ms = collected.max_ms

=============================================================================
