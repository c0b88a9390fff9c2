---------------------------- MODULE MetricsProofs ----------------------------
(***************************************************************************)
(* Proofs about Metrics, for any number of processes, calls and faults and *)
(* any durations.                                                          *)
(***************************************************************************)
EXTENDS Metrics, FiniteSetTheorems, TLAPS

\* The leaves are for Zenon unless they name another prover.
USE ZenonT(60) DEF metricsVars

-----------------------------------------------------------------------------
(* The inductive invariants.                                               *)

\* The processes whose next command is one of C.
Sending(C) == {p \in Processes : at[p] \in C}

Erring == {p \in Processes : erring[p]}

\* The counter of failures is only incremented for one.
FailureInv ==
    \A p \in Processes : at[p] = "failed" => report[p] \in {"retry", "fail"}

\* A counter is behind by exactly the processes that have still to count, and
\* by what faults have lost; an error that is to be counted is a fault.
TrailInv ==
    /\ \A n \in Counters \ {"redis_operation_errors"} :
        /\ counters[n] + Cardinality(Counting(n)) <= occurred[n]
        /\ occurred[n] <= counters[n] + Cardinality(Counting(n)) + faults
    /\ counters["redis_operation_errors"] + Cardinality(Erring) <= faults

\* The sum covers the maximum and every duration that may become it; the count
\* is ahead of the sum by those that have still to add theirs.
RecordedInv ==
    /\ histogram.max_ms <= histogram.sum_ms
    /\ \A p \in Sending({"get_max", "set_max"}) : duration[p] <= histogram.sum_ms
    /\ \A d \in Durations : (\A e \in Durations : e <= d) =>
          \E k \in Nat :
              /\ histogram.count = k + Cardinality(Sending({"sum"}))
              /\ histogram.sum_ms <= k * d

\* v is the sum of f over the set S: the last partial sum in some order of it.
Summing(S, f, v, n, e, s) ==
    /\ \A i, j \in 1..n : e[i] = e[j] => i = j
    /\ \A q \in S : \E i \in 1..n : e[i] = q
    /\ s[0] = 0 /\ s[n] = v
    /\ \A i \in 1..n : s[i] = s[i - 1] + f[e[i]]

IsSum(S, f, v) ==
    \E n \in Nat : \E e \in [1..n -> S], s \in [0..n -> Int] : Summing(S, f, v, n, e, s)

\* Without faults, the histogram lacks what processes have still to add.
ExactInv ==
    faults = 0 =>
        /\ collected.count = histogram.count + Cardinality(Sending({"count"}))
        /\ \E v \in Int : /\ IsSum(Sending({"count", "sum"}), duration, v)
                          /\ collected.sum_ms = histogram.sum_ms + v

\* A maximum that was not stored yet reads as zero.
MissingInv == ~max_stored => histogram.max_ms = 0

\* Without faults, no maximum is invented, and the largest duration has been
\* written or will be: by a process that has not compared it yet, or that is
\* alone in writing and has nothing larger to overwrite.
LargestInv ==
    faults = 0 =>
        /\ histogram.max_ms <= collected.max_ms
        /\ \A p \in Sending(DurationCommands) : duration[p] <= collected.max_ms
        /\ ~overlapped =>
            /\ \A p, q \in Sending({"set_max"}) : p = q
            /\ \A p \in Sending({"set_max"}) : histogram.max_ms <= duration[p]
            /\ \/ histogram.max_ms = collected.max_ms
               \/ \E p \in Sending(DurationCommands) :
                      duration[p] = collected.max_ms

-----------------------------------------------------------------------------
(* Types.                                                                  *)

\* What the types say of a process and of the histograms.
LEMMA ProcessFacts ==
    ASSUME TypeOK, NEW p \in Processes
    PROVE  /\ at[p] \in Commands \cup {"idle"} /\ report[p] \in Reports
           /\ erring[p] \in BOOLEAN
           /\ duration[p] \in Durations \cup {0} /\ duration[p] \in Nat
           /\ CountedBy[report[p]] \in Counters \ {"failed", "redis_operation_errors"}
  <1>1. /\ at[p] \in Commands \cup {"idle"} /\ report[p] \in Reports
        /\ erring[p] \in BOOLEAN /\ duration[p] \in Durations \cup {0}
    BY DEF TypeOK
  <1>2. 0 \in Nat
    BY SMTT(60)
  <1>3. duration[p] \in Nat
    BY <1>1, <1>2, MetricsAssumption
  <1>4. CountedBy[report[p]] \in Counters \ {"failed", "redis_operation_errors"}
    BY <1>1, SMTT(60) DEF CountedBy, Reports, Counters
  <1> QED BY <1>1, <1>3, <1>4

\* The numbers of the histograms and of the counters.
LEMMA NumberFacts ==
    ASSUME TypeOK
    PROVE  /\ histogram.count \in Nat /\ histogram.sum_ms \in Nat
           /\ histogram.max_ms \in Nat
           /\ collected.count \in Nat /\ collected.sum_ms \in Nat
           /\ collected.max_ms \in Nat
           /\ \A n \in Counters : counters[n] \in Nat /\ occurred[n] \in Nat
           /\ faults \in Nat /\ calls \in Nat
  <1>1. faults \in Nat /\ calls \in Nat
    BY MetricsAssumption, SMTT(60) DEF TypeOK
  <1> QED BY <1>1 DEF TypeOK, DurationHistogram

\* The next command is one, whether the last succeeded or failed.
LEMMA NextCommand ==
    ASSUME TypeOK, NEW p \in Processes, at[p] # "idle"
    PROVE  /\ After(p) \in Commands \cup {"idle"}
           /\ AfterError(p) \in Commands \cup {"idle"}
  <1>1. at[p] \in Commands
    BY ProcessFacts
  <1>2. AfterDuration(report[p]) \in Commands
    BY DEF AfterDuration, Commands
  <1>3. at[p] \notin {"get_max", "set_max"} => Successor[at[p]] \in Commands \cup {"idle"}
    BY <1>1, SMTT(60) DEF Commands, DurationCommands, Successor
  <1>4. "set_max" \in Commands
    BY DEF Commands, DurationCommands
  <1> QED BY <1>2, <1>3, <1>4 DEF After, AfterError, DurationCommands

\* Redis keeps the types of the counters and of the histogram.
LEMMA ExecuteType ==
    ASSUME TypeOK, NEW p \in Processes, Execute(p)
    PROVE  /\ counters' \in [Counters -> Nat] /\ occurred' \in [Counters -> Nat]
           /\ histogram' \in DurationHistogram /\ max_stored' \in BOOLEAN
  <1>1. CountedBy[report[p]] \in Counters /\ duration[p] \in Nat
    BY ProcessFacts
  <1>2. \A n \in Nat : n + 1 \in Nat /\ n + 0 \in Nat /\ n + duration[p] \in Nat
    BY <1>1, SMTT(60)
  <1>3. /\ counters \in [Counters -> Nat] /\ occurred \in [Counters -> Nat]
        /\ histogram.count \in Nat /\ histogram.sum_ms \in Nat
        /\ histogram.max_ms \in Nat /\ "failed" \in Counters
    BY NumberFacts DEF TypeOK, Counters
  <1>4. \A f \in [Counters -> Nat] : \A c \in Counters :
           [f EXCEPT ![c] = @ + 1] \in [Counters -> Nat]
    BY <1>2
  <1>5. counters' \in [Counters -> Nat]
    BY <1>1, <1>3, <1>4 DEF Execute
  <1>6. occurred' \in [Counters -> Nat]
    BY <1>1, <1>3, <1>4 DEF Execute
  <1>7. histogram' \in DurationHistogram
    BY <1>1, <1>2, <1>3 DEF Execute, DurationHistogram
  <1>8. max_stored' \in BOOLEAN
    BY DEF Execute
  <1> QED BY <1>5, <1>6, <1>7, <1>8

\* Every step keeps the types.
LEMMA TypeStep == TypeOK /\ [Next]_vars => TypeOK'
  <1> SUFFICES ASSUME TypeOK, [Next]_vars PROVE TypeOK'
    OBVIOUS
  <1>0. /\ \A n \in Nat : n + 1 \in Nat
        /\ \A n \in Nat, d \in Nat : n + d \in Nat
        /\ calls < MaxCalls => calls + 1 \in 0..MaxCalls
        /\ faults < MaxFaults => faults + 1 \in 0..MaxFaults
        /\ 0 \in Nat
    BY MetricsAssumption, SMTT(60) DEF TypeOK
  <1>1. \A f \in [Counters -> Nat] : \A c \in Counters :
           [f EXCEPT ![c] = @ + 1] \in [Counters -> Nat]
    BY <1>0
  <1>2. "redis_operation_errors" \in Counters /\ "failed" \in Counters
    BY DEF Counters
  <1>3. EmptyHistogram \in DurationHistogram
    BY <1>0 DEF EmptyHistogram, DurationHistogram
  <1>4. \A r \in Reports : First(r) \in Commands
    BY DEF First, Commands, DurationCommands
  <1>5. ASSUME NEW w \in Workers, NEW d \in Durations,
               NEW outcome \in Reports \ {"enqueue"}, ProcessTask(w, outcome, d)
        PROVE  TypeOK'
    <2>1. w \in Processes
      BY DEF Processes
    <2>2. at' \in [Processes -> Commands \cup {"idle"}]
      BY <1>4, <1>5 DEF ProcessTask, TypeOK
    <2>3. report' \in [Processes -> Reports]
      BY <1>5 DEF ProcessTask, TypeOK
    <2>4. duration' \in [Processes -> Durations \cup {0}]
      BY <1>5 DEF ProcessTask, TypeOK
    <2>5. occurred' \in [Counters -> Nat]
      BY <1>0, <1>2, <1>5 DEF ProcessTask, TypeOK
    <2>6. d \in Nat
      BY MetricsAssumption
    <2>7. ObserveDurationMs(collected, d) \in DurationHistogram
      BY <1>0, <2>6, NumberFacts DEF ObserveDurationMs, DurationHistogram
    <2>8. collected' \in DurationHistogram
      BY <1>5, <2>7 DEF ProcessTask, TypeOK
    <2> QED BY <1>0, <1>5, <2>2, <2>3, <2>4, <2>5, <2>8 DEF ProcessTask, TypeOK
  <1>6. ASSUME NEW c \in Clients, Enqueue(c) PROVE TypeOK'
    <2>1. "enqueue" \in Reports
      BY DEF Reports
    <2>2. at' \in [Processes -> Commands \cup {"idle"}]
      BY <1>4, <1>6, <2>1 DEF Enqueue, TypeOK
    <2>3. report' \in [Processes -> Reports]
      BY <1>6, <2>1 DEF Enqueue, TypeOK
    <2> QED BY <1>0, <1>6, <2>2, <2>3 DEF Enqueue, TypeOK
  <1>7. ASSUME NEW p \in Processes, Command(p) PROVE TypeOK'
    <2>1. Execute(p) /\ After(p) \in Commands \cup {"idle"}
      BY <1>7, NextCommand DEF Command
    <2>2. at' \in [Processes -> Commands \cup {"idle"}]
      BY <1>7, <2>1 DEF Command, TypeOK
    <2>3. overlapped' \in BOOLEAN
      BY <1>7 DEF Command
    <2> QED BY <1>7, <2>1, <2>2, <2>3, ExecuteType DEF Command, TypeOK
  <1>8. ASSUME NEW p \in Processes, MetricsError(p) PROVE TypeOK'
    <2>1. AfterError(p) \in Commands \cup {"idle"}
      BY <1>8, NextCommand DEF MetricsError
    <2>2. at' \in [Processes -> Commands \cup {"idle"}]
      BY <1>8, <2>1 DEF MetricsError, TypeOK
    <2>3. /\ counters' \in [Counters -> Nat] /\ occurred' \in [Counters -> Nat]
          /\ histogram' \in DurationHistogram /\ max_stored' \in BOOLEAN
      <3>1. CASE Execute(p)
        BY <3>1, ExecuteType
      <3>2. CASE UNCHANGED <<metricsVars, occurred>>
        BY <3>2 DEF TypeOK
      <3> QED BY <1>8, <3>1, <3>2 DEF MetricsError
    <2>4. erring' \in [Processes -> BOOLEAN]
      BY <1>8 DEF MetricsError, TypeOK
    <2> QED BY <1>0, <1>8, <2>2, <2>3, <2>4 DEF MetricsError, TypeOK
  <1>9. ASSUME NEW p \in Processes, ScriptError(p) PROVE TypeOK'
    <2>1. at' \in [Processes -> Commands \cup {"idle"}]
      BY <1>9 DEF ScriptError, TypeOK
    <2>2. /\ counters' \in [Counters -> Nat] /\ occurred' \in [Counters -> Nat]
          /\ histogram' \in DurationHistogram /\ max_stored' \in BOOLEAN
      <3>1. CASE Execute(p)
        BY <3>1, ExecuteType
      <3>2. CASE UNCHANGED <<metricsVars, occurred>>
        BY <3>2 DEF TypeOK
      <3> QED BY <1>9, <3>1, <3>2 DEF ScriptError
    <2> QED BY <1>0, <1>9, <2>1, <2>2 DEF ScriptError, TypeOK
  <1>10. ASSUME NEW p \in Processes, Crash(p) PROVE TypeOK'
    <2>1. at' \in [Processes -> Commands \cup {"idle"}]
      BY <1>10 DEF Crash, TypeOK
    <2>2. erring' \in [Processes -> BOOLEAN]
      BY <1>10 DEF Crash, TypeOK
    <2> QED BY <1>0, <1>10, <2>1, <2>2 DEF Crash, TypeOK
  <1>11. ASSUME NEW p \in Processes, RecordRedisOperationError(p) PROVE TypeOK'
    <2>1. counters' \in [Counters -> Nat]
      <3>1. counters \in [Counters -> Nat]
        BY DEF TypeOK
      <3>2. [counters EXCEPT !["redis_operation_errors"] = @ + 1] \in [Counters -> Nat]
        BY <1>1, <1>2, <3>1
      <3> QED BY <1>11, <3>1, <3>2 DEF RecordRedisOperationError
    <2>2. erring' \in [Processes -> BOOLEAN]
      BY <1>11 DEF RecordRedisOperationError, TypeOK
    <2> QED BY <1>11, <2>1, <2>2 DEF RecordRedisOperationError, TypeOK
  <1>12. CASE CollectMetrics
    BY <1>12 DEF CollectMetrics, TypeOK, processVars
  <1>13. CASE CollectMetricsError
    <2>1. counters' \in [Counters -> Nat]
      <3>1. counters \in [Counters -> Nat]
        BY DEF TypeOK
      <3>2. [counters EXCEPT !["redis_operation_errors"] = @ + 1] \in [Counters -> Nat]
        BY <1>1, <1>2, <3>1
      <3> QED BY <1>13, <3>1, <3>2 DEF CollectMetricsError
    <2>2. snapshot' \in [counters : [Counters -> Nat], histogram : DurationHistogram]
      BY <1>0, <1>3, <1>13 DEF CollectMetricsError
    <2> QED BY <1>0, <1>13, <2>1, <2>2 DEF CollectMetricsError, TypeOK, processVars
  <1>14. CASE UNCHANGED vars
    BY <1>14 DEF vars, processVars, TypeOK
  <1> QED BY <1>5, <1>6, <1>7, <1>8, <1>9, <1>10, <1>11, <1>12, <1>13, <1>14 DEF Next

\* A function changed for one process.
LEMMA ChangedAt ==
    ASSUME NEW S, NEW f \in [Processes -> S], NEW p \in Processes, NEW v
    PROVE  /\ [f EXCEPT ![p] = v][p] = v
           /\ \A q \in Processes \ {p} : [f EXCEPT ![p] = v][q] = f[q]
  OBVIOUS

\* The beginning of a report changes the worker and what is observed alone.
LEMMA ProcessTaskFacts ==
    ASSUME TypeOK, NEW w \in Processes, NEW outcome, NEW d, ProcessTask(w, outcome, d)
    PROVE  /\ at[w] = "idle" /\ at'[w] = First(outcome) /\ duration'[w] = d
           /\ histogram' = histogram /\ faults' = faults /\ overlapped' = overlapped
           /\ \A q \in Processes \ {w} : at'[q] = at[q] /\ duration'[q] = duration[q]
  <1>1. /\ at' = [at EXCEPT ![w] = First(outcome)]
        /\ duration' = [duration EXCEPT ![w] = d] /\ at[w] = "idle"
        /\ histogram' = histogram /\ faults' = faults /\ overlapped' = overlapped
    BY DEF ProcessTask, Idle
  <1>2. /\ at \in [Processes -> Commands \cup {"idle"}]
        /\ duration \in [Processes -> Durations \cup {0}]
    BY DEF TypeOK
  <1>3. at'[w] = First(outcome) /\ \A q \in Processes \ {w} : at'[q] = at[q]
    BY <1>1, <1>2, ChangedAt
  <1>4. duration'[w] = d /\ \A q \in Processes \ {w} : duration'[q] = duration[q]
    BY <1>1, <1>2, ChangedAt
  <1> QED BY <1>1, <1>3, <1>4

-----------------------------------------------------------------------------
(* The counters.                                                           *)

\* The size of a set of processes, split at one of them.
LEMMA SizeAt ==
    ASSUME NEW S \in SUBSET Processes, NEW p \in Processes
    PROVE  /\ Cardinality(S \ {p}) \in Nat
           /\ Cardinality(S) = Cardinality(S \ {p}) + (IF p \in S THEN 1 ELSE 0)
  <1>1. IsFiniteSet(S)
    BY MetricsAssumption, FS_Subset
  <1>2. IsFiniteSet(S \ {p}) /\ Cardinality(S \ {p}) =
            IF p \in S THEN Cardinality(S) - 1 ELSE Cardinality(S)
    BY <1>1, FS_RemoveElement
  <1>3. Cardinality(S) \in Nat /\ Cardinality(S \ {p}) \in Nat
    BY <1>1, <1>2, FS_CardinalityType
  <1> QED BY <1>2, <1>3, SMTT(60)

\* What p has still to add to the counter n, and to that of the errors.
Owes(p, n) == IF p \in Counting(n) THEN 1 ELSE 0

OwesError(p) == IF p \in Erring THEN 1 ELSE 0

\* A step of p alone keeps TrailInv if what p has counted and has still to
\* count goes up with what has occurred, or is less by one and a fault more.
LEMMA TrailBalance ==
    ASSUME TypeOK, TypeOK', TrailInv, NEW p \in Processes,
           \A q \in Processes \ {p} :
              at'[q] = at[q] /\ report'[q] = report[q] /\ erring'[q] = erring[q],
           \A n \in Counters \ {"redis_operation_errors"} :
              /\ counters'[n] + Owes(p, n)' - occurred'[n]
                    <= counters[n] + Owes(p, n) - occurred[n]
              /\ counters[n] + Owes(p, n) - occurred[n] + faults
                    <= counters'[n] + Owes(p, n)' - occurred'[n] + faults',
           counters'["redis_operation_errors"] + OwesError(p)' - faults'
              <= counters["redis_operation_errors"] + OwesError(p) - faults
    PROVE  TrailInv'
  <1>1. ASSUME NEW n \in Counters \ {"redis_operation_errors"}
        PROVE  /\ counters'[n] + Cardinality(Counting(n)') <= occurred'[n]
               /\ occurred'[n] <= counters'[n] + Cardinality(Counting(n)') + faults'
    <2>1. Counting(n)' \ {p} = Counting(n) \ {p}
      BY DEF Counting
    <2>2. Counting(n) \in SUBSET Processes /\ Counting(n)' \in SUBSET Processes
      BY DEF Counting
    <2>3. /\ Cardinality(Counting(n) \ {p}) \in Nat
          /\ Cardinality(Counting(n)) = Cardinality(Counting(n) \ {p}) + Owes(p, n)
      BY <2>2, SizeAt DEF Owes
    <2>4. Cardinality(Counting(n)') = Cardinality(Counting(n)' \ {p}) + Owes(p, n)'
      BY <2>2, SizeAt DEF Owes
    <2>5. Cardinality(Counting(n)') = Cardinality(Counting(n) \ {p}) + Owes(p, n)'
      BY <2>1, <2>4
    <2>6. 0 \in Int /\ 1 \in Int
      BY SMTT(60)
    <2>7. Owes(p, n) \in Int /\ Owes(p, n)' \in Int
      BY <2>6 DEF Owes
    <2>8. /\ counters[n] \in Nat /\ occurred[n] \in Nat /\ faults \in Nat
          /\ counters'[n] \in Nat /\ occurred'[n] \in Nat
      BY NumberFacts DEF TypeOK
    <2>9. faults' \in Nat
      BY MetricsAssumption, SMTT(60) DEF TypeOK
    <2>10. /\ counters[n] + Cardinality(Counting(n)) <= occurred[n]
           /\ occurred[n] <= counters[n] + Cardinality(Counting(n)) + faults
      BY DEF TrailInv
    <2>11. /\ counters'[n] + Owes(p, n)' - occurred'[n]
                <= counters[n] + Owes(p, n) - occurred[n]
           /\ counters[n] + Owes(p, n) - occurred[n] + faults
                <= counters'[n] + Owes(p, n)' - occurred'[n] + faults'
      OBVIOUS
    <2> HIDE DEF Owes
    <2> QED BY <2>3, <2>5, <2>7, <2>8, <2>9, <2>10, <2>11, SMTT(60)
  <1>2. counters'["redis_operation_errors"] + Cardinality(Erring') <= faults'
    <2>1. Erring' \ {p} = Erring \ {p}
      BY DEF Erring
    <2>2. Erring \in SUBSET Processes /\ Erring' \in SUBSET Processes
      BY DEF Erring
    <2>3. /\ Cardinality(Erring \ {p}) \in Nat
          /\ Cardinality(Erring) = Cardinality(Erring \ {p}) + OwesError(p)
      BY <2>2, SizeAt DEF OwesError
    <2>4. Cardinality(Erring') = Cardinality(Erring' \ {p}) + OwesError(p)'
      BY <2>2, SizeAt DEF OwesError
    <2>5. Cardinality(Erring') = Cardinality(Erring \ {p}) + OwesError(p)'
      BY <2>1, <2>4
    <2>6. 0 \in Int /\ 1 \in Int
      BY SMTT(60)
    <2>7. OwesError(p) \in Int /\ OwesError(p)' \in Int
      BY <2>6 DEF OwesError
    <2>8. /\ counters["redis_operation_errors"] \in Nat /\ faults \in Nat
          /\ counters'["redis_operation_errors"] \in Nat
      BY NumberFacts DEF TypeOK, Counters
    <2>9. faults' \in Nat
      BY MetricsAssumption, SMTT(60) DEF TypeOK
    <2>10. counters["redis_operation_errors"] + Cardinality(Erring) <= faults
      BY DEF TrailInv
    <2> QED BY <2>3, <2>5, <2>7, <2>8, <2>9, <2>10, SMTT(60)
  <1> QED BY <1>1, <1>2 DEF TrailInv

\* How a process goes on: with the command that counts a failure, if there is
\* one to count, and with the counter of its script after the script.
GoesOn(p, a) ==
    /\ at[p] \in DurationCommands =>
          /\ a \in DurationCommands \cup {"failed", "script"}
          /\ a # "count" /\ (a = "sum" => at[p] = "count")
          /\ (a = "get_max" => at[p] = "sum") /\ (a = "set_max" => at[p] = "get_max")
          /\ report[p] \in {"retry", "fail"} => a \in DurationCommands \cup {"failed"}
          /\ a = "failed" => report[p] \in {"retry", "fail"}
    /\ at[p] = "failed" => a = "script"
    /\ at[p] = "script" => a = "counter"
    /\ at[p] = "counter" => a = "idle"

\* A process goes on so after an error as after a success.
LEMMA BothGoOn ==
    ASSUME TypeOK, NEW p \in Processes, at[p] # "idle"
    PROVE  GoesOn(p, After(p)) /\ GoesOn(p, AfterError(p))
  <1>1. at[p] \in Commands
    BY ProcessFacts
  <1>2. /\ Successor["count"] = "sum" /\ Successor["sum"] = "get_max"
        /\ Successor["failed"] = "script" /\ Successor["script"] = "counter"
        /\ Successor["counter"] = "idle"
    BY SMTT(60) DEF Successor
  <1>3. /\ AfterDuration(report[p]) \in {"failed", "script"}
        /\ AfterDuration(report[p]) = "failed" <=> report[p] \in {"retry", "fail"}
    BY DEF AfterDuration
  <1>4. GoesOn(p, AfterError(p))
    BY <1>2, <1>3 DEF GoesOn, AfterError, DurationCommands
  <1>5. GoesOn(p, After(p))
    BY <1>2, <1>3 DEF GoesOn, After, DurationCommands
  <1> QED BY <1>4, <1>5

\* Every step keeps FailureInv.
LEMMA FailureStep == TypeOK /\ FailureInv /\ [Next]_vars => FailureInv'
  <1> SUFFICES ASSUME TypeOK, FailureInv, [Next]_vars PROVE FailureInv'
    OBVIOUS
  <1>1. ASSUME NEW p \in Processes, NEW a, at' = [at EXCEPT ![p] = a],
               GoesOn(p, a), report' = report, at[p] # "idle"
        PROVE  FailureInv'
    <2>1. a = "failed" => report[p] \in {"retry", "fail"}
      BY <1>1, ProcessFacts DEF GoesOn, Commands
    <2> QED BY <1>1, <2>1 DEF FailureInv, TypeOK
  <1>2. ASSUME NEW w \in Workers, NEW d \in Durations,
               NEW outcome \in Reports \ {"enqueue"}, ProcessTask(w, outcome, d)
        PROVE  FailureInv'
    BY <1>2 DEF ProcessTask, FailureInv, TypeOK, First
  <1>3. ASSUME NEW c \in Clients, Enqueue(c) PROVE FailureInv'
    BY <1>3 DEF Enqueue, FailureInv, TypeOK, First
  <1>4. ASSUME NEW p \in Processes, Command(p) PROVE FailureInv'
    BY <1>1, <1>4, BothGoOn DEF Command
  <1>5. ASSUME NEW p \in Processes, MetricsError(p) PROVE FailureInv'
    BY <1>1, <1>5, BothGoOn DEF MetricsError
  <1>6. ASSUME NEW p \in Processes, ScriptError(p) \/ Crash(p) PROVE FailureInv'
    <2>1. at' = [at EXCEPT ![p] = "idle"] /\ report' = report
      BY <1>6 DEF ScriptError, Crash
    <2> QED BY <2>1 DEF FailureInv, TypeOK
  <1>7. ASSUME NEW p \in Processes, RecordRedisOperationError(p) PROVE FailureInv'
    BY <1>7 DEF RecordRedisOperationError, FailureInv
  <1>8. CASE CollectMetrics \/ CollectMetricsError \/ UNCHANGED vars
    <2>1. at' = at /\ report' = report
      BY <1>8 DEF CollectMetrics, CollectMetricsError, vars, processVars
    <2> QED BY <2>1 DEF FailureInv
  <1> QED BY <1>2, <1>3, <1>4, <1>5, <1>6, <1>7, <1>8 DEF Next

\* A process owes at most one to a counter.
LEMMA OwesType ==
    ASSUME NEW p, NEW n
    PROVE  /\ Owes(p, n) \in {0, 1} /\ Owes(p, n)' \in {0, 1}
           /\ Owes(p, n) = 1 <=> p \in Counting(n)
           /\ Owes(p, n)' = 1 <=> p \in Counting(n)'
  <1>1. 0 # 1
    BY SMTT(60)
  <1> QED BY <1>1 DEF Owes

\* The counter of failures is owed from the end of the handler to its HINCRBY.
LEMMA OwesFailed ==
    ASSUME NEW p \in Processes
    PROVE  /\ p \in Counting("failed") <=>
                /\ at[p] \in DurationCommands \cup {"failed"}
                /\ report[p] \in {"retry", "fail"}
           /\ p \in Counting("failed")' <=>
                /\ at'[p] \in DurationCommands \cup {"failed"}
                /\ report'[p] \in {"retry", "fail"}
  BY DEF Counting

\* The counter of a script is owed between the script and its HINCRBY.
LEMMA OwesCounter ==
    ASSUME NEW p \in Processes, NEW n, n # "failed"
    PROVE  /\ p \in Counting(n) <=> at[p] = "counter" /\ CountedBy[report[p]] = n
           /\ p \in Counting(n)' <=> at'[p] = "counter" /\ CountedBy[report'[p]] = n
  BY DEF Counting

\* What a command adds to the counter n, and to what it counts.
Adds(p, n) ==
    IF \/ at[p] = "failed" /\ n = "failed"
       \/ at[p] = "counter" /\ n = CountedBy[report[p]] THEN 1 ELSE 0

Makes(p, n) == IF at[p] = "script" /\ n = CountedBy[report[p]] THEN 1 ELSE 0

\* What Redis adds when it executes the next command of p.
LEMMA ExecuteCounts ==
    ASSUME TypeOK, NEW p \in Processes, Execute(p), NEW n \in Counters
    PROVE  /\ counters'[n] = counters[n] + Adds(p, n)
           /\ occurred'[n] = occurred[n] + Makes(p, n)
  <1>1. counters[n] + 0 = counters[n] /\ occurred[n] + 0 = occurred[n]
    BY NumberFacts, SMTT(60)
  <1>2. counters \in [Counters -> Nat] /\ occurred \in [Counters -> Nat]
    BY DEF TypeOK
  <1>3. counters'[n] = counters[n] + Adds(p, n)
    <2>1. CASE at[p] = "failed"
      BY <1>1, <1>2, <2>1 DEF Execute, Adds
    <2>2. CASE at[p] = "counter"
      BY <1>1, <1>2, <2>2 DEF Execute, Adds
    <2>3. CASE at[p] \notin {"failed", "counter"}
      BY <1>1, <2>3 DEF Execute, Adds
    <2> QED BY <2>1, <2>2, <2>3
  <1>4. occurred'[n] = occurred[n] + Makes(p, n)
    BY <1>1, <1>2 DEF Execute, Makes
  <1> QED BY <1>3, <1>4

\* A process that goes on after its command has been executed: what is counted
\* and what is owed go up with what has occurred.
LEMMA ExecuteBalance ==
    ASSUME TypeOK, FailureInv, NEW p \in Processes, Execute(p),
           GoesOn(p, at'[p]), report'[p] = report[p], at[p] # "idle",
           NEW n \in Counters \ {"redis_operation_errors"}
    PROVE  counters'[n] + Owes(p, n)' - occurred'[n]
              = counters[n] + Owes(p, n) - occurred[n]
  <1>1. /\ counters'[n] = counters[n] + Adds(p, n)
        /\ occurred'[n] = occurred[n] + Makes(p, n)
    BY ExecuteCounts
  <1>2. counters[n] \in Nat /\ occurred[n] \in Nat
    BY NumberFacts
  <1>3. CountedBy[report[p]] # "failed" /\ at[p] \in Commands
    BY ProcessFacts
  <1>4. /\ Owes(p, n) \in {0, 1} /\ Owes(p, n)' \in {0, 1}
        /\ Adds(p, n) \in {0, 1} /\ Makes(p, n) \in {0, 1}
    BY DEF Owes, Adds, Makes
  <1>5. Adds(p, n) + Owes(p, n)' = Owes(p, n) + Makes(p, n)
    <2>1. CASE n = "failed" /\ at[p] = "failed"
      <3>1. Adds(p, n) = 1 /\ Makes(p, n) = 0
        BY <2>1 DEF Adds, Makes
      <3>2. p \in Counting(n)
        BY <2>1, OwesFailed DEF FailureInv
      <3>3. at'[p] = "script"
        BY <2>1 DEF GoesOn
      <3>4. p \notin Counting(n)'
        BY <2>1, <3>3, OwesFailed DEF DurationCommands
      <3>5. Owes(p, n) = 1 /\ Owes(p, n)' = 0
        BY <3>2, <3>4 DEF Owes
      <3> QED BY <3>1, <3>5, SMTT(60)
    <2>2. CASE n = "failed" /\ at[p] # "failed"
      <3>1. Adds(p, n) = 0 /\ Makes(p, n) = 0
        BY <1>3, <2>2 DEF Adds, Makes
      <3>2. report[p] \in {"retry", "fail"} =>
              (at'[p] \in DurationCommands \cup {"failed"}
                 <=> at[p] \in DurationCommands \cup {"failed"})
        BY <1>3, <2>2 DEF GoesOn, Commands, DurationCommands
      <3>3. p \in Counting("failed")' <=> p \in Counting("failed")
        BY <3>2, OwesFailed
      <3>4. Owes(p, n)' = Owes(p, n)
        BY <2>2, <3>3 DEF Owes
      <3> QED BY <1>4, <3>1, <3>4, SMTT(60)
    <2>3. CASE n # "failed" /\ at[p] = "script"
      <3>1. Adds(p, n) = 0 /\ at'[p] = "counter"
        BY <2>3 DEF Adds, GoesOn
      <3>2. p \in Counting(n)' <=> CountedBy[report[p]] = n
        BY <2>3, <3>1, OwesCounter
      <3>3. Owes(p, n)' = Makes(p, n)
        BY <2>3, <3>2 DEF Makes, Owes
      <3>4. p \notin Counting(n)
        BY <2>3, OwesCounter
      <3>5. Owes(p, n) = 0
        BY <3>4 DEF Owes
      <3> QED BY <1>4, <3>1, <3>3, <3>5, SMTT(60)
    <2>4. CASE n # "failed" /\ at[p] = "counter"
      <3>1. Makes(p, n) = 0 /\ at'[p] = "idle"
        BY <2>4 DEF Makes, GoesOn
      <3>2. p \in Counting(n) <=> CountedBy[report[p]] = n
        BY <2>4, OwesCounter
      <3>3. Owes(p, n) = Adds(p, n)
        BY <2>4, <3>2 DEF Adds, Owes
      <3>4. p \notin Counting(n)'
        BY <2>4, <3>1, OwesCounter
      <3>5. Owes(p, n)' = 0
        BY <3>4 DEF Owes
      <3> QED BY <1>4, <3>1, <3>3, <3>5, SMTT(60)
    <2>5. CASE n # "failed" /\ at[p] \notin {"script", "counter"}
      <3>1. Adds(p, n) = 0 /\ Makes(p, n) = 0
        BY <2>5 DEF Makes, Adds
      <3>2. at'[p] # "counter"
        BY <1>3, <2>5 DEF GoesOn, Commands, DurationCommands
      <3>3. p \notin Counting(n) /\ p \notin Counting(n)'
        BY <2>5, <3>2, OwesCounter
      <3>4. Owes(p, n) = 0 /\ Owes(p, n)' = 0
        BY <3>3 DEF Owes
      <3> QED BY <3>1, <3>4, SMTT(60)
    <2> QED BY <2>1, <2>2, <2>3, <2>4, <2>5
  <1> QED BY <1>1, <1>2, <1>4, <1>5, SMTT(60)

\* The counter of errors is none that a command increments.
LEMMA ExecuteErrors ==
    ASSUME TypeOK, NEW p \in Processes, Execute(p)
    PROVE  counters'["redis_operation_errors"] = counters["redis_operation_errors"]
  <1>1. "redis_operation_errors" \in Counters
    BY DEF Counters
  <1>2. Adds(p, "redis_operation_errors") = 0
    BY ProcessFacts DEF Adds
  <1>3. counters["redis_operation_errors"] \in Nat
    BY <1>1, NumberFacts
  <1>4. counters'["redis_operation_errors"] = counters["redis_operation_errors"] + 0
    BY <1>1, <1>2, ExecuteCounts
  <1> QED BY <1>3, <1>4, SMTT(60)

\* A process that gives up a command of the metrics, or dies, owes no more than
\* before.
LEMMA LosesOwes ==
    ASSUME TypeOK, NEW p \in Processes, report'[p] = report[p],
           \/ at[p] \notin {"idle", "script"} /\ GoesOn(p, at'[p])
           \/ at'[p] = "idle",
           NEW n
    PROVE  p \in Counting(n)' => p \in Counting(n)
  <1>1. at[p] \in Commands \cup {"idle"}
    BY ProcessFacts
  <1>2. CASE at'[p] = "idle"
    BY <1>2, OwesFailed, OwesCounter DEF DurationCommands
  <1>3. CASE at[p] \notin {"idle", "script"} /\ GoesOn(p, at'[p]) /\ n = "failed"
    <2>1. at'[p] \in DurationCommands \cup {"failed"} => at[p] \in DurationCommands
      BY <1>1, <1>3 DEF GoesOn, Commands, DurationCommands
    <2> QED BY <1>3, <2>1, OwesFailed
  <1>4. CASE at[p] \notin {"idle", "script"} /\ GoesOn(p, at'[p]) /\ n # "failed"
    <2>1. at'[p] # "counter"
      BY <1>1, <1>4 DEF GoesOn, Commands, DurationCommands
    <2> QED BY <1>4, <2>1, OwesCounter
  <1> QED BY <1>2, <1>3, <1>4

\* A fault that leaves the counters alone, and what they count, keeps TrailInv;
\* p may have one error to count after it.
LEMMA TrailLoss ==
    ASSUME TypeOK, TypeOK', TrailInv, NEW p \in Processes,
           \A q \in Processes \ {p} :
              at'[q] = at[q] /\ report'[q] = report[q] /\ erring'[q] = erring[q],
           \A n : p \in Counting(n)' => p \in Counting(n),
           counters' = counters, occurred' = occurred, faults' = faults + 1
    PROVE  TrailInv'
  <1>1. faults \in Nat
    BY NumberFacts
  <1>2. ASSUME NEW n \in Counters \ {"redis_operation_errors"}
        PROVE  /\ counters'[n] + Owes(p, n)' - occurred'[n]
                    <= counters[n] + Owes(p, n) - occurred[n]
               /\ counters[n] + Owes(p, n) - occurred[n] + faults
                    <= counters'[n] + Owes(p, n)' - occurred'[n] + faults'
    <2>1. counters[n] \in Nat /\ occurred[n] \in Nat
      BY NumberFacts
    <2>2. /\ Owes(p, n) \in {0, 1} /\ Owes(p, n)' \in {0, 1}
          /\ Owes(p, n)' = 1 => Owes(p, n) = 1
      BY OwesType
    <2> QED BY <1>1, <2>1, <2>2, SMTT(60)
  <1>3. counters'["redis_operation_errors"] + OwesError(p)' - faults'
            <= counters["redis_operation_errors"] + OwesError(p) - faults
    <2>1. counters["redis_operation_errors"] \in Nat
      BY NumberFacts DEF Counters
    <2>2. OwesError(p) \in {0, 1} /\ OwesError(p)' \in {0, 1}
      BY DEF OwesError
    <2> QED BY <1>1, <2>1, <2>2, SMTT(60)
  <1> QED BY <1>2, <1>3, TrailBalance

\* A command that is executed and not the last of its process keeps TrailInv,
\* whether its reply is lost or not.
LEMMA TrailExecute ==
    ASSUME TypeOK, TypeOK', FailureInv, TrailInv, NEW p \in Processes,
           \A q \in Processes \ {p} :
              at'[q] = at[q] /\ report'[q] = report[q] /\ erring'[q] = erring[q],
           Execute(p), GoesOn(p, at'[p]), report'[p] = report[p], at[p] # "idle",
           \/ faults' = faults /\ erring'[p] = erring[p]
           \/ faults' = faults + 1
    PROVE  TrailInv'
  <1>1. faults \in Nat
    BY NumberFacts
  <1>2. ASSUME NEW n \in Counters \ {"redis_operation_errors"}
        PROVE  /\ counters'[n] + Owes(p, n)' - occurred'[n]
                    <= counters[n] + Owes(p, n) - occurred[n]
               /\ counters[n] + Owes(p, n) - occurred[n] + faults
                    <= counters'[n] + Owes(p, n)' - occurred'[n] + faults'
    <2>1. counters[n] \in Nat /\ occurred[n] \in Nat
      BY NumberFacts
    <2>2. Owes(p, n) \in {0, 1}
      BY OwesType
    <2>3. counters'[n] + Owes(p, n)' - occurred'[n]
              = counters[n] + Owes(p, n) - occurred[n]
      BY ExecuteBalance
    <2> QED BY <1>1, <2>1, <2>2, <2>3, SMTT(60)
  <1>3. counters'["redis_operation_errors"] + OwesError(p)' - faults'
            <= counters["redis_operation_errors"] + OwesError(p) - faults
    <2>1. /\ counters["redis_operation_errors"] \in Nat
          /\ counters'["redis_operation_errors"] = counters["redis_operation_errors"]
      BY NumberFacts, ExecuteErrors DEF Counters
    <2>2. /\ OwesError(p) \in {0, 1} /\ OwesError(p)' \in {0, 1}
          /\ faults' = faults => OwesError(p)' = OwesError(p)
      BY <1>1, SMTT(60) DEF OwesError, Erring
    <2> QED BY <1>1, <2>1, <2>2, SMTT(60)
  <1> QED BY <1>2, <1>3, TrailBalance

\* The beginning of a report or of an enqueue: a failure that occurs is owed.
LEMMA TrailBegin ==
    ASSUME TypeOK, TypeOK', TrailInv, NEW p \in Processes, NEW r \in Reports,
           Idle(p), at' = [at EXCEPT ![p] = First(r)],
           report' = [report EXCEPT ![p] = r], UNCHANGED <<counters, erring, faults>>,
           occurred' = [occurred EXCEPT !["failed"] =
                            IF r \in {"retry", "fail"} THEN @ + 1 ELSE @]
    PROVE  TrailInv'
  <1>1. /\ at'[p] = First(r) /\ report'[p] = r
        /\ \A q \in Processes \ {p} :
              at'[q] = at[q] /\ report'[q] = report[q] /\ erring'[q] = erring[q]
    <2>1. /\ at \in [Processes -> Commands \cup {"idle"}]
          /\ report \in [Processes -> Reports]
      BY DEF TypeOK
    <2>2. at'[p] = First(r) /\ \A q \in Processes \ {p} : at'[q] = at[q]
      BY <2>1, ChangedAt
    <2>3. report'[p] = r /\ \A q \in Processes \ {p} : report'[q] = report[q]
      BY <2>1, ChangedAt
    <2> QED BY <2>2, <2>3
  <1>2. faults \in Nat
    BY NumberFacts
  <1>3. ASSUME NEW n \in Counters \ {"redis_operation_errors"}
        PROVE  /\ counters'[n] + Owes(p, n)' - occurred'[n]
                    <= counters[n] + Owes(p, n) - occurred[n]
               /\ counters[n] + Owes(p, n) - occurred[n] + faults
                    <= counters'[n] + Owes(p, n)' - occurred'[n] + faults'
    <2>1. counters[n] \in Nat /\ occurred[n] \in Nat
      BY NumberFacts
    <2>2. p \notin Counting(n)
      BY OwesFailed, OwesCounter DEF Idle, DurationCommands
    <2>3. p \in Counting(n)' <=> n = "failed" /\ r \in {"retry", "fail"}
      <3>1. CASE n = "failed"
        <4>1. r \in {"retry", "fail"} => First(r) \in DurationCommands \cup {"failed"}
          BY DEF First, DurationCommands
        <4>2. at'[p] = First(r) /\ report'[p] = r
          BY <1>1
        <4>3. p \in Counting("failed")' <=>
                /\ at'[p] \in DurationCommands \cup {"failed"}
                /\ report'[p] \in {"retry", "fail"}
          BY OwesFailed
        <4> QED BY <3>1, <4>1, <4>2, <4>3
      <3>2. CASE n # "failed"
        <4>1. First(r) # "counter"
          BY DEF First
        <4> QED BY <1>1, <3>2, <4>1, OwesCounter
      <3> QED BY <3>1, <3>2
    <2>4. occurred'[n] = IF n = "failed" /\ r \in {"retry", "fail"}
                         THEN occurred[n] + 1 ELSE occurred[n]
      BY DEF TypeOK
    <2>5. Owes(p, n) = 0 /\ Owes(p, n)' = IF n = "failed" /\ r \in {"retry", "fail"}
                                         THEN 1 ELSE 0
      BY <2>2, <2>3 DEF Owes
    <2> QED BY <1>2, <2>1, <2>4, <2>5, SMTT(60)
  <1>4. counters'["redis_operation_errors"] + OwesError(p)' - faults'
            <= counters["redis_operation_errors"] + OwesError(p) - faults
    <2>1. counters["redis_operation_errors"] \in Nat
      BY NumberFacts DEF Counters
    <2>2. OwesError(p) \in {0, 1} /\ OwesError(p)' = OwesError(p)
      BY DEF OwesError, Erring
    <2> QED BY <1>2, <2>1, <2>2, SMTT(60)
  <1> QED BY <1>1, <1>3, <1>4, TrailBalance

\* A script that runs and whose reply is lost: what it counts is lost with it.
LEMMA TrailScriptError ==
    ASSUME TypeOK, TypeOK', TrailInv, NEW p \in Processes, ScriptError(p), Execute(p)
    PROVE  TrailInv'
  <1>1. /\ at[p] = "script" /\ at'[p] = "idle" /\ faults' = faults + 1
        /\ \A q \in Processes \ {p} :
              at'[q] = at[q] /\ report'[q] = report[q] /\ erring'[q] = erring[q]
    BY DEF TypeOK, ScriptError
  <1>2. faults \in Nat
    BY NumberFacts
  <1>3. ASSUME NEW n \in Counters \ {"redis_operation_errors"}
        PROVE  /\ counters'[n] + Owes(p, n)' - occurred'[n]
                    <= counters[n] + Owes(p, n) - occurred[n]
               /\ counters[n] + Owes(p, n) - occurred[n] + faults
                    <= counters'[n] + Owes(p, n)' - occurred'[n] + faults'
    <2>1. counters[n] \in Nat /\ occurred[n] \in Nat
      BY NumberFacts
    <2>2. p \notin Counting(n) /\ p \notin Counting(n)'
      BY <1>1, OwesFailed, OwesCounter DEF DurationCommands
    <2>3. Owes(p, n) = 0 /\ Owes(p, n)' = 0
      BY <2>2 DEF Owes
    <2>4. /\ counters'[n] = counters[n] + Adds(p, n)
          /\ occurred'[n] = occurred[n] + Makes(p, n)
      BY ExecuteCounts
    <2>5. Adds(p, n) = 0 /\ Makes(p, n) \in {0, 1}
      BY <1>1 DEF Adds, Makes
    <2> QED BY <1>1, <1>2, <2>1, <2>3, <2>4, <2>5, SMTT(60)
  <1>4. counters'["redis_operation_errors"] + OwesError(p)' - faults'
            <= counters["redis_operation_errors"] + OwesError(p) - faults
    <2>1. /\ counters["redis_operation_errors"] \in Nat
          /\ counters'["redis_operation_errors"] = counters["redis_operation_errors"]
      BY NumberFacts, ExecuteErrors DEF Counters
    <2>2. OwesError(p) \in {0, 1} /\ OwesError(p)' \in {0, 1}
      BY DEF OwesError
    <2> QED BY <1>1, <1>2, <2>1, <2>2, SMTT(60)
  <1> QED BY <1>1, <1>3, <1>4, TrailBalance

\* Every step keeps TrailInv.
LEMMA TrailStep ==
    TypeOK /\ FailureInv /\ TrailInv /\ [Next]_vars /\ TypeOK' => TrailInv'
  <1> SUFFICES ASSUME TypeOK, FailureInv, TrailInv, [Next]_vars, TypeOK'
               PROVE  TrailInv'
    OBVIOUS
  <1>1. ASSUME NEW w \in Workers, NEW d \in Durations,
               NEW outcome \in Reports \ {"enqueue"}, ProcessTask(w, outcome, d)
        PROVE  TrailInv'
    <2>1. w \in Processes /\ outcome \in Reports
      BY DEF Processes
    <2> QED BY <1>1, <2>1, TrailBegin DEF ProcessTask
  <1>2. ASSUME NEW c \in Clients, Enqueue(c) PROVE TrailInv'
    <2>1. c \in Processes /\ "enqueue" \in Reports /\ "enqueue" \notin {"retry", "fail"}
      BY DEF Processes, Reports
    <2>2. occurred = [occurred EXCEPT !["failed"] =
                         IF "enqueue" \in {"retry", "fail"} THEN @ + 1 ELSE @]
      BY <2>1 DEF TypeOK
    <2> QED BY <1>2, <2>1, <2>2, TrailBegin DEF Enqueue
  <1>3. ASSUME NEW p \in Processes, Command(p) PROVE TrailInv'
    <2>1. /\ at'[p] = After(p) /\ report'[p] = report[p] /\ erring'[p] = erring[p]
          /\ \A q \in Processes \ {p} :
                at'[q] = at[q] /\ report'[q] = report[q] /\ erring'[q] = erring[q]
      BY <1>3 DEF Command, TypeOK
    <2>2. at[p] # "idle" /\ Execute(p) /\ faults' = faults
      BY <1>3 DEF Command
    <2>3. GoesOn(p, at'[p])
      BY <2>1, <2>2, BothGoOn
    <2> QED BY <2>1, <2>2, <2>3, TrailExecute
  <1>4. ASSUME NEW p \in Processes, MetricsError(p) PROVE TrailInv'
    <2>1. /\ at'[p] = AfterError(p) /\ report'[p] = report[p]
          /\ \A q \in Processes \ {p} :
                at'[q] = at[q] /\ report'[q] = report[q] /\ erring'[q] = erring[q]
      BY <1>4 DEF MetricsError, TypeOK
    <2>2. at[p] \notin {"idle", "script"} /\ faults' = faults + 1
      BY <1>4 DEF MetricsError
    <2>3. GoesOn(p, at'[p])
      BY <2>1, <2>2, BothGoOn
    <2>4. CASE Execute(p)
      BY <2>1, <2>2, <2>3, <2>4, TrailExecute
    <2>5. CASE UNCHANGED <<metricsVars, occurred>>
      <3>1. \A n : p \in Counting(n)' => p \in Counting(n)
        BY <2>1, <2>2, <2>3, LosesOwes
      <3> QED BY <2>1, <2>2, <2>5, <3>1, TrailLoss
    <2> QED BY <1>4, <2>4, <2>5 DEF MetricsError
  <1>5. ASSUME NEW p \in Processes, ScriptError(p) PROVE TrailInv'
    <2>1. /\ at'[p] = "idle" /\ report'[p] = report[p]
          /\ \A q \in Processes \ {p} :
                at'[q] = at[q] /\ report'[q] = report[q] /\ erring'[q] = erring[q]
      BY <1>5 DEF ScriptError, TypeOK
    <2>2. CASE Execute(p)
      BY <1>5, <2>2, TrailScriptError
    <2>3. CASE UNCHANGED <<metricsVars, occurred>>
      <3>1. \A n : p \in Counting(n)' => p \in Counting(n)
        BY <2>1, LosesOwes
      <3>2. faults' = faults + 1
        BY <1>5 DEF ScriptError
      <3> QED BY <2>1, <2>3, <3>1, <3>2, TrailLoss
    <2> QED BY <1>5, <2>2, <2>3 DEF ScriptError
  <1>6. ASSUME NEW p \in Processes, Crash(p) PROVE TrailInv'
    <2>1. /\ at'[p] = "idle" /\ report'[p] = report[p]
          /\ \A q \in Processes \ {p} :
                at'[q] = at[q] /\ report'[q] = report[q] /\ erring'[q] = erring[q]
      BY <1>6 DEF Crash, TypeOK
    <2>2. \A n : p \in Counting(n)' => p \in Counting(n)
      BY <2>1, LosesOwes
    <2>3. faults' = faults + 1 /\ counters' = counters /\ occurred' = occurred
      BY <1>6 DEF Crash
    <2> QED BY <2>1, <2>2, <2>3, TrailLoss
  <1>7. ASSUME NEW p \in Processes, RecordRedisOperationError(p) PROVE TrailInv'
    <2>1. /\ erring[p] /\ ~erring'[p] /\ at' = at /\ report' = report
          /\ \A q \in Processes \ {p} :
                at'[q] = at[q] /\ report'[q] = report[q] /\ erring'[q] = erring[q]
      BY <1>7 DEF RecordRedisOperationError, TypeOK
    <2>2. ASSUME NEW n \in Counters \ {"redis_operation_errors"}
          PROVE  /\ counters'[n] + Owes(p, n)' - occurred'[n]
                      <= counters[n] + Owes(p, n) - occurred[n]
                 /\ counters[n] + Owes(p, n) - occurred[n] + faults
                      <= counters'[n] + Owes(p, n)' - occurred'[n] + faults'
      <3>1. counters[n] \in Nat /\ occurred[n] \in Nat /\ faults \in Nat
        BY NumberFacts
      <3>2. counters'[n] = counters[n] /\ occurred'[n] = occurred[n] /\ faults' = faults
        BY <1>7 DEF RecordRedisOperationError, TypeOK
      <3>3. Owes(p, n) \in {0, 1} /\ Owes(p, n)' = Owes(p, n)
        BY <2>1 DEF Owes, Counting
      <3> QED BY <3>1, <3>2, <3>3, SMTT(60)
    <2>3. counters'["redis_operation_errors"] + OwesError(p)' - faults'
              <= counters["redis_operation_errors"] + OwesError(p) - faults
      <3>1. counters["redis_operation_errors"] \in Nat /\ faults \in Nat
        BY NumberFacts DEF Counters
      <3>2. /\ \/ counters'["redis_operation_errors"]
                   = counters["redis_operation_errors"] + 1
               \/ counters'["redis_operation_errors"]
                   = counters["redis_operation_errors"]
            /\ faults' = faults
        BY <1>7 DEF RecordRedisOperationError, TypeOK, Counters
      <3>3. OwesError(p) = 1 /\ OwesError(p)' = 0
        BY <2>1 DEF OwesError, Erring
      <3> QED BY <3>1, <3>2, <3>3, SMTT(60)
    <2> QED BY <2>1, <2>2, <2>3, TrailBalance
  <1>8. CASE CollectMetricsError
    <2>1. /\ \A n : Counting(n)' = Counting(n)
          /\ Erring' = Erring /\ occurred' = occurred /\ faults' = faults + 1
      BY <1>8 DEF CollectMetricsError, processVars, Counting, Erring
    <2>2. Erring \in SUBSET Processes /\ \A n : Counting(n) \in SUBSET Processes
      BY DEF Erring, Counting
    <2>3. \A S \in SUBSET Processes : Cardinality(S) \in Nat
      BY MetricsAssumption, FS_Subset, FS_CardinalityType
    <2>4. faults \in Nat
      BY NumberFacts
    <2>5. ASSUME NEW n \in Counters \ {"redis_operation_errors"}
          PROVE  /\ counters'[n] + Cardinality(Counting(n)') <= occurred'[n]
                 /\ occurred'[n] <= counters'[n] + Cardinality(Counting(n)') + faults'
      <3>1. counters[n] \in Nat /\ occurred[n] \in Nat /\ Cardinality(Counting(n)) \in Nat
        BY <2>2, <2>3, NumberFacts
      <3>2. counters'[n] = counters[n] /\ Counting(n)' = Counting(n)
        BY <1>8, <2>1 DEF CollectMetricsError, TypeOK
      <3>3. /\ counters[n] + Cardinality(Counting(n)) <= occurred[n]
            /\ occurred[n] <= counters[n] + Cardinality(Counting(n)) + faults
        BY DEF TrailInv
      <3> QED BY <2>1, <2>4, <3>1, <3>2, <3>3, SMTT(60)
    <2>6. counters'["redis_operation_errors"] + Cardinality(Erring') <= faults'
      <3>1. counters["redis_operation_errors"] \in Nat /\ Cardinality(Erring) \in Nat
        BY <2>2, <2>3, NumberFacts DEF Counters
      <3>2. \/ counters'["redis_operation_errors"]
                = counters["redis_operation_errors"] + 1
            \/ counters'["redis_operation_errors"]
                = counters["redis_operation_errors"]
        BY <1>8 DEF CollectMetricsError, TypeOK, Counters
      <3>3. counters["redis_operation_errors"] + Cardinality(Erring) <= faults
        BY DEF TrailInv
      <3> QED BY <2>1, <2>4, <3>1, <3>2, <3>3, SMTT(60)
    <2> QED BY <2>5, <2>6 DEF TrailInv
  <1>9. CASE CollectMetrics \/ UNCHANGED vars
    <2>1. UNCHANGED <<counters, occurred, at, report, erring, faults>>
      BY <1>9 DEF CollectMetrics, vars, processVars
    <2> QED BY <2>1 DEF TrailInv, Counting, Erring
  <1> QED BY <1>1, <1>2, <1>3, <1>4, <1>5, <1>6, <1>7, <1>8, <1>9 DEF Next

-----------------------------------------------------------------------------
(* The histogram and its snapshots.                                        *)

\* Whether p has counted its duration and has still to add it.
Adding(p) == IF p \in Sending({"sum"}) THEN 1 ELSE 0

\* A step of p alone keeps RecordedInv if it adds no more than one duration to
\* the sum, with one more counted and not to be added.
LEMMA RecordedBalance ==
    ASSUME TypeOK, TypeOK', RecordedInv, NEW p \in Processes,
           \A q \in Processes \ {p} : at'[q] = at[q] /\ duration'[q] = duration[q],
           \/ /\ histogram'.count - Adding(p)' = histogram.count - Adding(p)
              /\ histogram'.sum_ms = histogram.sum_ms
           \/ /\ histogram'.count - Adding(p)' = histogram.count - Adding(p) + 1
              /\ histogram.sum_ms <= histogram'.sum_ms
              /\ histogram'.sum_ms <= histogram.sum_ms + duration[p],
           histogram'.max_ms <= histogram'.sum_ms,
           at'[p] \in {"get_max", "set_max"} => duration'[p] <= histogram'.sum_ms
    PROVE  RecordedInv'
  <1>1. /\ histogram.count \in Nat /\ histogram.sum_ms \in Nat
        /\ histogram'.count \in Nat /\ histogram'.sum_ms \in Nat
    BY NumberFacts DEF TypeOK, DurationHistogram
  <1>2. ASSUME NEW q \in Sending({"get_max", "set_max"})'
        PROVE  duration'[q] <= histogram'.sum_ms
    <2>1. CASE q = p
      BY <2>1 DEF Sending
    <2>2. CASE q # p
      <3>1. q \in Processes /\ at'[q] = at[q] /\ duration'[q] = duration[q]
        BY <2>2 DEF Sending
      <3>2. duration[q] <= histogram.sum_ms
        BY <3>1 DEF Sending, RecordedInv
      <3>3. duration[q] \in Nat
        BY <3>1, ProcessFacts
      <3>4. histogram.sum_ms <= histogram'.sum_ms
        BY <1>1, SMTT(60)
      <3> QED BY <1>1, <3>1, <3>2, <3>3, <3>4, SMTT(60)
    <2> QED BY <2>1, <2>2
  <1>3. ASSUME NEW d \in Durations, \A e \in Durations : e <= d
        PROVE  \E k \in Nat :
                  /\ histogram'.count = k + Cardinality(Sending({"sum"})')
                  /\ histogram'.sum_ms <= k * d
    <2>1. PICK k \in Nat : /\ histogram.count = k + Cardinality(Sending({"sum"}))
                           /\ histogram.sum_ms <= k * d
      BY <1>3 DEF RecordedInv
    <2>2. Sending({"sum"})' \ {p} = Sending({"sum"}) \ {p}
      BY DEF Sending
    <2>3. Sending({"sum"}) \in SUBSET Processes /\ Sending({"sum"})' \in SUBSET Processes
      BY DEF Sending
    <2>4. /\ Cardinality(Sending({"sum"}) \ {p}) \in Nat
          /\ Cardinality(Sending({"sum"}))
                = Cardinality(Sending({"sum"}) \ {p}) + Adding(p)
      BY <2>3, SizeAt DEF Adding
    <2>5. Cardinality(Sending({"sum"})') = Cardinality(Sending({"sum"})' \ {p}) + Adding(p)'
      BY <2>3, SizeAt DEF Adding
    <2>6. Cardinality(Sending({"sum"})') = Cardinality(Sending({"sum"}) \ {p}) + Adding(p)'
      BY <2>2, <2>5
    <2>7. Adding(p) \in {0, 1} /\ Adding(p)' \in {0, 1}
      BY DEF Adding
    <2>8. d \in Nat
      BY MetricsAssumption
    <2>9. duration[p] \in Nat /\ duration[p] <= d
      <3>1. duration[p] \in Durations \cup {0} /\ duration[p] \in Nat
        BY ProcessFacts
      <3>2. 0 <= d
        BY <2>8, SMTT(60)
      <3> QED BY <1>3, <3>1, <3>2
    <2>10. CASE /\ histogram'.count - Adding(p)' = histogram.count - Adding(p)
                /\ histogram'.sum_ms = histogram.sum_ms
      <3>1. histogram'.count = k + Cardinality(Sending({"sum"})')
        BY <1>1, <2>1, <2>4, <2>6, <2>7, <2>10, SMTT(60)
      <3> QED BY <2>1, <2>10, <3>1
    <2>11. CASE /\ histogram'.count - Adding(p)' = histogram.count - Adding(p) + 1
                /\ histogram'.sum_ms <= histogram.sum_ms + duration[p]
      <3>1. histogram'.count = (k + 1) + Cardinality(Sending({"sum"})')
        BY <1>1, <2>1, <2>4, <2>6, <2>7, <2>11, SMTT(60)
      <3>2. k + 1 \in Nat /\ (k + 1) * d = k * d + d /\ k * d \in Nat
        BY <2>8, SMTT(60)
      <3>3. histogram'.sum_ms <= (k + 1) * d
        BY <1>1, <2>1, <2>8, <2>9, <2>11, <3>2, SMTT(60)
      <3> QED BY <3>1, <3>2, <3>3
    <2> QED BY <2>10, <2>11
  <1> QED BY <1>2, <1>3 DEF RecordedInv

\* What Redis makes of the histogram.
LEMMA ExecuteHistogram ==
    ASSUME TypeOK, NEW p \in Processes, Execute(p)
    PROVE  /\ histogram'.count = IF at[p] = "count" THEN histogram.count + 1
                                 ELSE histogram.count
           /\ histogram'.sum_ms = IF at[p] = "sum" THEN histogram.sum_ms + duration[p]
                                  ELSE histogram.sum_ms
           /\ histogram'.max_ms = IF at[p] = "set_max" THEN duration[p]
                                  ELSE histogram.max_ms
  <1>1. histogram.count + 0 = histogram.count /\ histogram.sum_ms + 0 = histogram.sum_ms
    BY NumberFacts, SMTT(60)
  <1> QED BY <1>1 DEF Execute

\* A command that is executed keeps RecordedInv.
LEMMA RecordedExecute ==
    ASSUME TypeOK, TypeOK', RecordedInv, NEW p \in Processes, at[p] # "idle",
           \A q \in Processes \ {p} : at'[q] = at[q],
           GoesOn(p, at'[p]) \/ (at[p] = "script" /\ at'[p] = "idle"),
           duration' = duration, Execute(p)
    PROVE  RecordedInv'
  <1>1. /\ histogram.count \in Nat /\ histogram.sum_ms \in Nat
        /\ histogram.max_ms \in Nat
    BY NumberFacts
  <1>2. at[p] \in Commands /\ duration[p] \in Nat
    BY ProcessFacts
  <1>3. /\ at[p] \in {"get_max", "set_max"} => duration[p] <= histogram.sum_ms
        /\ histogram.max_ms <= histogram.sum_ms
    BY DEF RecordedInv, Sending
  <1>4. /\ at'[p] = "sum" => at[p] = "count"
        /\ at'[p] = "get_max" => at[p] = "sum"
        /\ at'[p] = "set_max" => at[p] = "get_max"
    BY <1>2 DEF GoesOn, Commands
  <1>5. /\ p \in Sending({"sum"}) <=> at[p] = "sum"
        /\ p \in Sending({"sum"})' <=> at'[p] = "sum"
    BY DEF Sending
  <1>6. /\ Adding(p) = IF at[p] = "sum" THEN 1 ELSE 0
        /\ Adding(p)' = IF at'[p] = "sum" THEN 1 ELSE 0
    BY <1>5 DEF Adding
  <1>7. \/ /\ histogram'.count - Adding(p)' = histogram.count - Adding(p)
           /\ histogram'.sum_ms = histogram.sum_ms
        \/ /\ histogram'.count - Adding(p)' = histogram.count - Adding(p) + 1
           /\ histogram.sum_ms <= histogram'.sum_ms
           /\ histogram'.sum_ms <= histogram.sum_ms + duration[p]
    <2>1. CASE at[p] = "count"
      <3>1. histogram'.count = histogram.count + 1 /\ histogram'.sum_ms = histogram.sum_ms
        BY <2>1, ExecuteHistogram
      <3>2. Adding(p) = 0 /\ Adding(p)' \in {0, 1}
        BY <1>6, <2>1
      <3> QED BY <1>1, <1>2, <3>1, <3>2, SMTT(60)
    <2>2. CASE at[p] = "sum"
      <3>1. /\ histogram'.count = histogram.count
            /\ histogram'.sum_ms = histogram.sum_ms + duration[p]
        BY <2>2, ExecuteHistogram
      <3>2. Adding(p) = 1 /\ Adding(p)' = 0
        BY <1>4, <1>6, <2>2
      <3> QED BY <1>1, <1>2, <3>1, <3>2, SMTT(60)
    <2>3. CASE at[p] \notin {"count", "sum"}
      <3>1. histogram'.count = histogram.count /\ histogram'.sum_ms = histogram.sum_ms
        BY <2>3, ExecuteHistogram
      <3>2. Adding(p) = 0 /\ Adding(p)' = 0
        BY <1>4, <1>6, <2>3
      <3> QED BY <3>1, <3>2
    <2> QED BY <2>1, <2>2, <2>3
  <1>8. histogram'.max_ms <= histogram'.sum_ms
    <2>1. CASE at[p] = "set_max"
      BY <1>3, <2>1, ExecuteHistogram
    <2>2. CASE at[p] = "sum"
      <3>1. /\ histogram'.max_ms = histogram.max_ms
            /\ histogram'.sum_ms = histogram.sum_ms + duration[p]
        BY <2>2, ExecuteHistogram
      <3> QED BY <1>1, <1>2, <1>3, <3>1, SMTT(60)
    <2>3. CASE at[p] \notin {"set_max", "sum"}
      BY <1>3, <2>3, ExecuteHistogram
    <2> QED BY <2>1, <2>2, <2>3
  <1>9. at'[p] \in {"get_max", "set_max"} => duration'[p] <= histogram'.sum_ms
    <2>1. CASE at'[p] = "get_max"
      <3>1. histogram'.sum_ms = histogram.sum_ms + duration[p]
        BY <1>4, <2>1, ExecuteHistogram
      <3> QED BY <1>1, <1>2, <3>1, SMTT(60)
    <2>2. CASE at'[p] = "set_max"
      BY <1>3, <1>4, <2>2, ExecuteHistogram
    <2> QED BY <2>1, <2>2
  <1>10. \A q \in Processes \ {p} : at'[q] = at[q] /\ duration'[q] = duration[q]
    OBVIOUS
  <1> QED BY <1>7, <1>8, <1>9, <1>10, RecordedBalance

\* A process that begins, gives up or dies keeps RecordedInv: what it has
\* counted and not added is no part of the sum.
LEMMA RecordedLoss ==
    ASSUME TypeOK, TypeOK', RecordedInv, NEW p \in Processes,
           \A q \in Processes \ {p} : at'[q] = at[q] /\ duration'[q] = duration[q],
           at'[p] \notin {"sum", "get_max", "set_max"}, histogram' = histogram
    PROVE  RecordedInv'
  <1>1. histogram.count \in Nat /\ histogram.sum_ms \in Nat /\ duration[p] \in Nat
    BY NumberFacts, ProcessFacts
  <1>2. Adding(p) \in {0, 1} /\ Adding(p)' = 0
    BY DEF Adding, Sending
  <1>3. \/ /\ histogram'.count - Adding(p)' = histogram.count - Adding(p)
           /\ histogram'.sum_ms = histogram.sum_ms
        \/ /\ histogram'.count - Adding(p)' = histogram.count - Adding(p) + 1
           /\ histogram.sum_ms <= histogram'.sum_ms
           /\ histogram'.sum_ms <= histogram.sum_ms + duration[p]
    BY <1>1, <1>2, SMTT(60)
  <1>4. histogram'.max_ms <= histogram'.sum_ms
    BY DEF RecordedInv
  <1> QED BY <1>3, <1>4, RecordedBalance

\* Every step keeps RecordedInv.
LEMMA RecordedStep ==
    TypeOK /\ RecordedInv /\ [Next]_vars /\ TypeOK' => RecordedInv'
  <1> SUFFICES ASSUME TypeOK, RecordedInv, [Next]_vars, TypeOK' PROVE RecordedInv'
    OBVIOUS
  <1>1. \A r : First(r) \notin {"sum", "get_max", "set_max"}
    BY DEF First
  <1>2. ASSUME NEW w \in Workers, NEW d \in Durations,
               NEW outcome \in Reports \ {"enqueue"}, ProcessTask(w, outcome, d)
        PROVE  RecordedInv'
    <2>1. w \in Processes
      BY DEF Processes
    <2>2. /\ at'[w] = First(outcome) /\ histogram' = histogram
          /\ \A q \in Processes \ {w} : at'[q] = at[q] /\ duration'[q] = duration[q]
      BY <1>2, <2>1, ProcessTaskFacts
    <2> QED BY <1>1, <2>1, <2>2, RecordedLoss
  <1>3. ASSUME NEW c \in Clients, Enqueue(c) PROVE RecordedInv'
    <2>1. c \in Processes
      BY DEF Processes
    <2>2. /\ at'[c] = First("enqueue") /\ histogram' = histogram
          /\ \A q \in Processes \ {c} : at'[q] = at[q] /\ duration'[q] = duration[q]
      BY <1>3, <2>1 DEF Enqueue, TypeOK
    <2> QED BY <1>1, <2>1, <2>2, RecordedLoss
  <1>4. ASSUME NEW p \in Processes, Command(p) PROVE RecordedInv'
    <2>1. /\ at'[p] = After(p) /\ at[p] # "idle" /\ Execute(p) /\ duration' = duration
          /\ \A q \in Processes \ {p} : at'[q] = at[q]
      BY <1>4 DEF Command, TypeOK
    <2>2. GoesOn(p, at'[p])
      BY <2>1, BothGoOn
    <2>3. GoesOn(p, at'[p]) \/ (at[p] = "script" /\ at'[p] = "idle")
      BY <2>2
    <2> QED BY <2>1, <2>3, RecordedExecute
  <1>5. ASSUME NEW p \in Processes, MetricsError(p) PROVE RecordedInv'
    <2>1. /\ at'[p] = AfterError(p) /\ at[p] # "idle" /\ at[p] # "script"
          /\ duration' = duration /\ \A q \in Processes \ {p} : at'[q] = at[q]
      BY <1>5 DEF MetricsError, TypeOK
    <2>2. CASE Execute(p)
      <3>1. GoesOn(p, at'[p])
        BY <2>1, BothGoOn
      <3>2. GoesOn(p, at'[p]) \/ (at[p] = "script" /\ at'[p] = "idle")
        BY <3>1
      <3> QED BY <2>1, <2>2, <3>2, RecordedExecute
    <2>3. CASE UNCHANGED <<metricsVars, occurred>>
      <3>1. at[p] \in DurationCommands \cup {"failed", "counter"}
        BY <2>1, ProcessFacts DEF Commands
      <3>2. Successor["failed"] = "script" /\ Successor["counter"] = "idle"
        BY SMTT(60) DEF Successor
      <3>3. at'[p] \notin {"sum", "get_max", "set_max"}
        BY <2>1, <3>1, <3>2 DEF AfterError, AfterDuration
      <3> QED BY <2>1, <2>3, <3>3, RecordedLoss
    <2> QED BY <1>5, <2>2, <2>3 DEF MetricsError
  <1>6. ASSUME NEW p \in Processes, ScriptError(p) PROVE RecordedInv'
    <2>1. /\ at'[p] = "idle" /\ at[p] = "script" /\ duration' = duration
          /\ \A q \in Processes \ {p} : at'[q] = at[q]
      BY <1>6 DEF ScriptError, TypeOK
    <2>2. CASE Execute(p)
      BY <2>1, <2>2, RecordedExecute
    <2>3. CASE UNCHANGED <<metricsVars, occurred>>
      BY <2>1, <2>3, RecordedLoss
    <2> QED BY <1>6, <2>2, <2>3 DEF ScriptError
  <1>7. ASSUME NEW p \in Processes, Crash(p) PROVE RecordedInv'
    <2>1. /\ at'[p] = "idle" /\ histogram' = histogram /\ duration' = duration
          /\ \A q \in Processes \ {p} : at'[q] = at[q]
      BY <1>7 DEF Crash, TypeOK
    <2> QED BY <2>1, RecordedLoss
  <1>8. ASSUME \/ \E p \in Processes : RecordRedisOperationError(p)
               \/ CollectMetrics \/ CollectMetricsError \/ UNCHANGED vars
        PROVE  RecordedInv'
    <2>1. UNCHANGED <<at, duration, histogram>>
      BY <1>8 DEF RecordRedisOperationError, CollectMetrics, CollectMetricsError,
                  vars, processVars
    <2> QED BY <2>1 DEF RecordedInv, Sending
  <1> QED BY <1>2, <1>3, <1>4, <1>5, <1>6, <1>7, <1>8 DEF Next

\* A snapshot is the histogram of a moment, which RecordedInv speaks of, or
\* empty.
LEMMA SnapshotStep ==
    TypeOK /\ RecordedInv /\ SnapshotCoherent /\ [Next]_vars => SnapshotCoherent'
  <1> SUFFICES ASSUME TypeOK, RecordedInv, SnapshotCoherent, [Next]_vars
               PROVE  SnapshotCoherent'
    OBVIOUS
  <1>1. CASE snapshot' = [counters |-> counters, histogram |-> histogram]
    <2>1. snapshot'.histogram = histogram
      BY <1>1
    <2>2. ASSUME NEW d \in Durations, \A e \in Durations : e <= d
          PROVE  histogram.sum_ms <= histogram.count * d
      <3>1. PICK k \in Nat : /\ histogram.count = k + Cardinality(Sending({"sum"}))
                             /\ histogram.sum_ms <= k * d
        BY <2>2 DEF RecordedInv
      <3>2. Sending({"sum"}) \in SUBSET Processes
        BY DEF Sending
      <3>3. Cardinality(Sending({"sum"})) \in Nat
        BY <3>2, MetricsAssumption, FS_Subset, FS_CardinalityType
      <3>4. d \in Nat /\ histogram.sum_ms \in Nat
        BY MetricsAssumption, NumberFacts
      <3>5. \A c \in Nat : (k + c) * d = k * d + c * d /\ c * d \in Nat /\ k * d \in Nat
        BY <3>4, SMTT(60)
      <3> QED BY <3>1, <3>3, <3>4, <3>5, SMTT(60)
    <2>3. histogram.max_ms <= histogram.sum_ms
      BY DEF RecordedInv
    <2> QED BY <2>1, <2>2, <2>3 DEF SnapshotCoherent
  <1>2. CASE CollectMetricsError
    <2>1. snapshot'.histogram = EmptyHistogram
      BY <1>2 DEF CollectMetricsError
    <2>2. /\ snapshot'.histogram.max_ms = 0 /\ snapshot'.histogram.sum_ms = 0
          /\ snapshot'.histogram.count = 0
      BY <2>1, SMTT(60) DEF EmptyHistogram
    <2>3. 0 <= 0 /\ \A d \in Nat : 0 <= 0 * d
      BY SMTT(60)
    <2>4. \A d \in Durations : d \in Nat
      BY MetricsAssumption
    <2>5. /\ snapshot'.histogram.max_ms <= snapshot'.histogram.sum_ms
          /\ \A d \in Durations :
                snapshot'.histogram.sum_ms <= snapshot'.histogram.count * d
      BY <2>2, <2>3, <2>4, SMTT(60)
    <2> QED BY <2>5 DEF SnapshotCoherent
  <1>3. CASE snapshot' = snapshot
    BY <1>3 DEF SnapshotCoherent
  <1> QED BY <1>1, <1>2, <1>3 DEF Next, vars, ProcessTask, Enqueue, Command,
        MetricsError, ScriptError, Crash, RecordRedisOperationError, CollectMetrics

-----------------------------------------------------------------------------
(* Sums over a set of processes.                                           *)

\* The sum over the empty set is zero.
LEMMA SumEmpty ==
    ASSUME NEW f
    PROVE  IsSum({}, f, 0) /\ \A v : IsSum({}, f, v) => v = 0
  <1>1. IsSum({}, f, 0)
    <2> DEFINE e == [i \in 1..0 |-> 0]
               s == [i \in 0..0 |-> 0]
    <2>1. 1..0 = {} /\ 0 \in Nat /\ 0 \in Int /\ 0 \in 0..0
      BY SMTT(60)
    <2>2. e \in [1..0 -> {}] /\ s \in [0..0 -> Int] /\ s[0] = 0
      BY <2>1
    <2>3. Summing({}, f, 0, 0, e, s)
      BY <2>1, <2>2 DEF Summing
    <2> HIDE DEF e, s
    <2> QED BY <2>1, <2>2, <2>3 DEF IsSum
  <1>2. ASSUME NEW v, IsSum({}, f, v) PROVE v = 0
    <2>1. PICK n \in Nat : \E e \in [1..n -> {}], s \in [0..n -> Int] :
                              Summing({}, f, v, n, e, s)
      BY <1>2 DEF IsSum
    <2>2. PICK e \in [1..n -> {}], s \in [0..n -> Int] : s[0] = 0 /\ s[n] = v
      BY <2>1 DEF Summing
    <2>3. n # 0 => 1 \in 1..n
      BY SMTT(60)
    <2>4. n = 0
      BY <2>2, <2>3
    <2> QED BY <2>2, <2>4
  <1> QED BY <1>1, <1>2

\* A sum depends on the values of the function on the set only.
LEMMA SumSame ==
    ASSUME NEW S, NEW f, NEW g, NEW v, IsSum(S, f, v), \A q \in S : g[q] = f[q]
    PROVE  IsSum(S, g, v)
  <1>0. PICK n \in Nat : \E e \in [1..n -> S], s \in [0..n -> Int] :
                            Summing(S, f, v, n, e, s)
    BY DEF IsSum
  <1>1. PICK e \in [1..n -> S], s \in [0..n -> Int] : Summing(S, f, v, n, e, s)
    BY <1>0
  <1>2. Summing(S, g, v, n, e, s)
    BY <1>1 DEF Summing
  <1> QED BY <1>2 DEF IsSum

\* One more element adds its value.
LEMMA SumAdd ==
    ASSUME NEW S, NEW f, NEW v \in Int, IsSum(S, f, v), NEW p, p \notin S, f[p] \in Int
    PROVE  IsSum(S \cup {p}, f, v + f[p])
  <1>0. PICK n \in Nat : \E e \in [1..n -> S], s \in [0..n -> Int] :
                            Summing(S, f, v, n, e, s)
    BY DEF IsSum
  <1>1. PICK e \in [1..n -> S], s \in [0..n -> Int] : Summing(S, f, v, n, e, s)
    BY <1>0
  <1> DEFINE m == n + 1
             d == [i \in 1..m |-> IF i = m THEN p ELSE e[i]]
             t == [i \in 0..m |-> IF i = m THEN v + f[p] ELSE s[i]]
  <1>2. /\ m \in Nat /\ m \in 1..m /\ m \in 0..m /\ 0 \in 0..m /\ 0 # m /\ v + f[p] \in Int
        /\ \A i \in 1..m : i # m => i \in 1..n
        /\ \A i \in 0..m : i # m => i \in 0..n
        /\ \A i \in 1..n : i \in 1..m /\ i # m
        /\ \A i \in 1..m : i - 1 \in 0..m /\ i - 1 # m
        /\ m - 1 = n
    BY SMTT(60)
  <1>3. d \in [1..m -> S \cup {p}] /\ t \in [0..m -> Int]
    BY <1>1, <1>2
  <1>4. /\ d[m] = p /\ t[m] = v + f[p] /\ t[0] = 0
        /\ \A i \in 1..n : d[i] = e[i] /\ d[i] \in S
        /\ \A i \in 1..m : t[i - 1] = s[i - 1]
        /\ \A i \in 1..n : t[i] = s[i]
    <2> HIDE DEF m
    <2>1. d[m] = p /\ t[m] = v + f[p] /\ t[0] = 0
      BY <1>1, <1>2 DEF Summing
    <2>2. \A i \in 1..n : d[i] = e[i] /\ d[i] \in S
      BY <1>2
    <2>3. \A i \in 1..m : t[i - 1] = s[i - 1]
      BY <1>2
    <2>4. \A i \in 1..n : i \in 0..m
      BY <1>2, SMTT(60)
    <2>5. \A i \in 1..n : t[i] = s[i]
      BY <1>2, <2>4
    <2> QED BY <2>1, <2>2, <2>3, <2>5
  <1> HIDE DEF m, d, t
  <1>5. ASSUME NEW i \in 1..m, NEW j \in 1..m, d[i] = d[j] PROVE i = j
    <2>1. \A k \in 1..m : k # m => k \in 1..n /\ d[k] = e[k] /\ d[k] # p
      BY <1>2, <1>4
    <2>2. i = m <=> j = m
      BY <1>4, <1>5, <2>1
    <2>3. CASE i # m /\ j # m
      <3>1. e[i] = e[j] /\ i \in 1..n /\ j \in 1..n
        BY <1>5, <2>1, <2>3
      <3> QED BY <1>1, <3>1 DEF Summing
    <2> QED BY <2>2, <2>3
  <1>6. ASSUME NEW q \in S \cup {p} PROVE \E i \in 1..m : d[i] = q
    <2>1. CASE q = p
      BY <1>2, <1>4, <2>1
    <2>2. CASE q \in S
      <3>1. PICK i \in 1..n : e[i] = q
        BY <1>1, <2>2 DEF Summing
      <3> QED BY <1>2, <1>4, <3>1
    <2> QED BY <2>1, <2>2
  <1>7. ASSUME NEW i \in 1..m PROVE t[i] = t[i - 1] + f[d[i]]
    <2>1. CASE i = m
      <3>1. t[m] = v + f[p] /\ d[m] = p /\ t[m - 1] = s[m - 1] /\ m - 1 = n
        BY <1>2, <1>4
      <3>2. s[n] = v
        BY <1>1 DEF Summing
      <3> QED BY <2>1, <3>1, <3>2
    <2>2. CASE i # m
      <3>1. i \in 1..n
        BY <1>2, <2>2
      <3>2. t[i] = s[i] /\ t[i - 1] = s[i - 1] /\ d[i] = e[i]
        BY <1>4, <3>1
      <3>3. s[i] = s[i - 1] + f[e[i]]
        BY <1>1, <3>1 DEF Summing
      <3> QED BY <3>2, <3>3
    <2> QED BY <2>1, <2>2
  <1>8. Summing(S \cup {p}, f, v + f[p], m, d, t)
    BY <1>4, <1>5, <1>6, <1>7 DEF Summing
  <1> QED BY <1>2, <1>3, <1>8 DEF IsSum

\* One element less takes its value away.
LEMMA SumRemove ==
    ASSUME NEW S, NEW f, NEW v \in Int, IsSum(S, f, v), NEW p \in S,
           \A q \in S : f[q] \in Int
    PROVE  IsSum(S \ {p}, f, v - f[p])
  <1>0. PICK n \in Nat : \E e \in [1..n -> S], s \in [0..n -> Int] :
                            Summing(S, f, v, n, e, s)
    BY DEF IsSum
  <1>1. PICK e \in [1..n -> S], s \in [0..n -> Int] : Summing(S, f, v, n, e, s)
    BY <1>0
  <1>2. PICK k \in 1..n : e[k] = p
    BY <1>1 DEF Summing
  <1> DEFINE m == n - 1
             d == [i \in 1..m |-> IF i < k THEN e[i] ELSE e[i + 1]]
             t == [i \in 0..m |-> IF i < k THEN s[i] ELSE s[i + 1] - f[p]]
  <1>3. /\ m \in Nat /\ m \in 0..m /\ 0 \in 0..m /\ 0 < k /\ m + 1 = n /\ k \in Int
        /\ \A i \in 1..m :
              /\ i < k => i \in 1..n
              /\ ~(i < k) => i + 1 \in 1..n
              /\ i \in 0..m /\ i - 1 \in 0..m
        /\ \A i \in 0..m : i \in 0..n /\ i + 1 \in 0..n /\ i \in Int
    BY <1>2, SMTT(60)
  <1>4. /\ \A i \in 1..m : d[i] = IF i < k THEN e[i] ELSE e[i + 1]
        /\ \A i \in 0..m : t[i] = IF i < k THEN s[i] ELSE s[i + 1] - f[p]
    OBVIOUS
  <1>5. t \in [0..m -> Int]
    <2>1. \A i \in 0..m : s[i] \in Int /\ s[i + 1] \in Int
      BY <1>3
    <2>2. \A x \in Int : x - f[p] \in Int
      BY SMTT(60)
    <2> QED BY <2>1, <2>2
  <1>6. d \in [1..m -> S \ {p}]
    <2>1. ASSUME NEW i \in 1..m
          PROVE  (IF i < k THEN e[i] ELSE e[i + 1]) \in S \ {p}
      <3>1. i < k => i # k /\ i \in 1..n
        BY <1>2, <1>3, SMTT(60)
      <3>2. ~(i < k) => i + 1 # k /\ i + 1 \in 1..n
        BY <1>2, <1>3, SMTT(60)
      <3>3. \A j \in 1..n : j # k => e[j] \in S \ {p}
        BY <1>1, <1>2 DEF Summing
      <3> QED BY <3>1, <3>2, <3>3
    <2> QED BY <2>1
  <1> HIDE DEF d, t
  <1>7. ASSUME NEW i \in 1..m, NEW j \in 1..m, d[i] = d[j] PROVE i = j
    <2>1. ASSUME NEW h \in 1..m
          PROVE  \E a \in 1..n : /\ d[h] = e[a]
                                 /\ (h < k /\ a = h) \/ (~(h < k) /\ a = h + 1)
      <3>1. CASE h < k
        <4>1. h \in 1..n /\ d[h] = e[h]
          BY <1>3, <1>4, <3>1
        <4> QED BY <3>1, <4>1
      <3>2. CASE ~(h < k)
        <4>1. h + 1 \in 1..n /\ d[h] = e[h + 1]
          BY <1>3, <1>4, <3>2
        <4> QED BY <3>2, <4>1
      <3> QED BY <3>1, <3>2
    <2>2. PICK a \in 1..n : /\ d[i] = e[a]
                            /\ (i < k /\ a = i) \/ (~(i < k) /\ a = i + 1)
      BY <2>1
    <2>3. PICK b \in 1..n : /\ d[j] = e[b]
                            /\ (j < k /\ b = j) \/ (~(j < k) /\ b = j + 1)
      BY <2>1
    <2>4. e[a] = e[b]
      BY <1>7, <2>2, <2>3
    <2>5. a = b
      BY <1>1, <2>4 DEF Summing
    <2>6. /\ (i < k /\ a = i) \/ (~(i < k) /\ a = i + 1)
          /\ (j < k /\ a = j) \/ (~(j < k) /\ a = j + 1)
      BY <2>2, <2>3, <2>5
    <2>7. i \in Int /\ j \in Int /\ k \in Int
      BY SMTT(60)
    <2> QED BY <2>6, <2>7, SMTT(60)
  <1>8. ASSUME NEW q \in S \ {p} PROVE \E i \in 1..m : d[i] = q
    <2>1. PICK j \in 1..n : e[j] = q
      BY <1>1 DEF Summing
    <2>2. j # k
      BY <1>2, <2>1
    <2>3. CASE j < k
      <3>1. j \in 1..m
        BY <1>2, <2>3, SMTT(60)
      <3> QED BY <1>4, <2>1, <2>3, <3>1
    <2>4. CASE ~(j < k)
      <3>1. j - 1 \in 1..m /\ ~(j - 1 < k) /\ (j - 1) + 1 = j
        BY <1>2, <2>2, <2>4, SMTT(60)
      <3> QED BY <1>4, <2>1, <3>1
    <2> QED BY <2>3, <2>4
  <1>9. \A i \in 1..n : s[i] = s[i - 1] + f[e[i]]
    BY <1>1 DEF Summing
  <1>10. t[0] = 0 /\ t[m] = v - f[p]
    <2>1. t[0] = s[0] /\ s[0] = 0 /\ s[n] = v
      BY <1>1, <1>3, <1>4 DEF Summing
    <2>2. CASE m < k
      <3>1. k = n /\ n - 1 = m
        BY <1>2, <2>2, SMTT(60)
      <3>2. t[m] = s[m] /\ v = s[m] + f[p]
        BY <1>2, <1>3, <1>4, <1>9, <2>1, <2>2, <3>1
      <3>3. s[m] \in Int
        BY <1>3
      <3> HIDE DEF m
      <3> QED BY <2>1, <3>2, <3>3, SMTT(60)
    <2>3. CASE ~(m < k)
      <3>1. m \in 0..m /\ m + 1 = n
        BY <1>3
      <3> HIDE DEF m
      <3>2. t[m] = s[m + 1] - f[p]
        BY <1>4, <2>3, <3>1
      <3> QED BY <2>1, <3>1, <3>2
    <2> QED BY <2>1, <2>2, <2>3
  <1>11. ASSUME NEW i \in 1..m PROVE t[i] = t[i - 1] + f[d[i]]
    <2>1. i \in 0..m /\ i - 1 \in 0..m
      BY <1>3
    <2>2. CASE i < k
      <3>1. i - 1 < k /\ i \in 1..n
        BY <1>2, <1>3, <2>2, SMTT(60)
      <3>2. t[i] = s[i] /\ t[i - 1] = s[i - 1] /\ d[i] = e[i]
        BY <1>4, <2>1, <2>2, <3>1
      <3> QED BY <1>9, <3>1, <3>2
    <2>3. CASE ~(i < k)
      <3>1. /\ i + 1 \in 1..n /\ i \in 1..n /\ (i + 1) - 1 = i /\ (i - 1) + 1 = i
            /\ i \in 0..n /\ i - 1 \in 0..n
        BY <1>2, <1>3, <2>3, SMTT(60)
      <3>2. s[i + 1] = s[i] + f[e[i + 1]]
        BY <1>9, <3>1
      <3>3. t[i] = s[i + 1] - f[p] /\ d[i] = e[i + 1]
        BY <1>4, <2>1, <2>3
      <3>4. t[i - 1] = s[i] - f[p]
        <4>1. CASE i - 1 < k
          <5>1. i = k
            BY <1>2, <2>3, <4>1, SMTT(60)
          <5>2. t[i - 1] = s[i - 1] /\ s[i] = s[i - 1] + f[p]
            BY <1>2, <1>4, <1>9, <2>1, <3>1, <4>1, <5>1
          <5>3. s[i - 1] \in Int
            BY <3>1
          <5> QED BY <5>2, <5>3, SMTT(60)
        <4>2. CASE ~(i - 1 < k)
          BY <1>4, <2>1, <3>1, <4>2
        <4> QED BY <4>1, <4>2
      <3>5. s[i] \in Int /\ f[e[i + 1]] \in Int /\ f[p] \in Int
        BY <3>1
      <3> QED BY <3>2, <3>3, <3>4, <3>5, SMTT(60)
    <2> QED BY <2>2, <2>3
  <1>12. Summing(S \ {p}, f, v - f[p], m, d, t)
    BY <1>7, <1>8, <1>10, <1>11 DEF Summing
  <1> HIDE DEF m
  <1> QED BY <1>3, <1>5, <1>6, <1>12 DEF IsSum

-----------------------------------------------------------------------------
(* The histogram without faults.                                           *)

\* A step of p alone keeps ExactInv if what is recorded and what p has still to
\* record add up to what has been observed.
LEMMA ExactBalance ==
    ASSUME TypeOK, TypeOK', ExactInv, faults = 0, NEW p \in Processes,
           \A q \in Processes \ {p} : at'[q] = at[q] /\ duration'[q] = duration[q],
           collected'.count - histogram'.count - (IF at'[p] = "count" THEN 1 ELSE 0)
              = collected.count - histogram.count - (IF at[p] = "count" THEN 1 ELSE 0),
           collected'.sum_ms - histogram'.sum_ms
                 - (IF at'[p] \in {"count", "sum"} THEN duration'[p] ELSE 0)
              = collected.sum_ms - histogram.sum_ms
                 - (IF at[p] \in {"count", "sum"} THEN duration[p] ELSE 0)
    PROVE  ExactInv'
  <1>1. /\ histogram.count \in Nat /\ histogram.sum_ms \in Nat
        /\ histogram'.count \in Nat /\ histogram'.sum_ms \in Nat
        /\ collected.count \in Nat /\ collected.sum_ms \in Nat
        /\ collected'.count \in Nat /\ collected'.sum_ms \in Nat
    BY NumberFacts DEF TypeOK, DurationHistogram
  <1>2. 0 \in Nat
    BY SMTT(60)
  <1>3. \A q \in Processes : duration[q] \in Nat /\ duration'[q] \in Nat
    BY <1>2, MetricsAssumption DEF TypeOK
  <1>4. collected'.count = histogram'.count + Cardinality(Sending({"count"})')
    <2>1. Sending({"count"})' \ {p} = Sending({"count"}) \ {p}
      BY DEF Sending
    <2>2. /\ Sending({"count"}) \in SUBSET Processes
          /\ Sending({"count"})' \in SUBSET Processes
          /\ p \in Sending({"count"}) <=> at[p] = "count"
          /\ p \in Sending({"count"})' <=> at'[p] = "count"
      BY DEF Sending
    <2>3. /\ Cardinality(Sending({"count"}) \ {p}) \in Nat
          /\ Cardinality(Sending({"count"})) = Cardinality(Sending({"count"}) \ {p})
                                             + (IF at[p] = "count" THEN 1 ELSE 0)
      BY <2>2, SizeAt
    <2>4. Cardinality(Sending({"count"})') = Cardinality(Sending({"count"})' \ {p})
                                            + (IF at'[p] = "count" THEN 1 ELSE 0)
      BY <2>2, SizeAt
    <2>5. collected.count = histogram.count + Cardinality(Sending({"count"}))
      BY DEF ExactInv
    <2>6. Cardinality(Sending({"count"})') = Cardinality(Sending({"count"}) \ {p})
                                            + (IF at'[p] = "count" THEN 1 ELSE 0)
      BY <2>1, <2>4
    <2> QED BY <1>1, <2>3, <2>5, <2>6, SMTT(60)
  <1>5. \E v \in Int : /\ IsSum(Sending({"count", "sum"})', duration', v)
                       /\ collected'.sum_ms = histogram'.sum_ms + v
    <2> DEFINE S == Sending({"count", "sum"})
               T == S \ {p}
    <2>1. /\ S' \ {p} = T /\ S \subseteq Processes
          /\ (p \in S <=> at[p] \in {"count", "sum"})
          /\ (p \in S' <=> at'[p] \in {"count", "sum"})
      BY DEF Sending
    <2>2. PICK v \in Int : IsSum(S, duration, v) /\ collected.sum_ms = histogram.sum_ms + v
      BY DEF ExactInv
    <2> HIDE DEF S
    <2>3. \A n \in Nat : n \in Int
      BY SMTT(60)
    <2>4. PICK u \in Int : /\ IsSum(T, duration, u)
                           /\ v = u + (IF at[p] \in {"count", "sum"} THEN duration[p] ELSE 0)
      <3>1. CASE p \in S
        <4>1. v - duration[p] \in Int /\ v = (v - duration[p]) + duration[p]
          BY <1>3, SMTT(60)
        <4>2. IsSum(T, duration, v - duration[p])
          BY <1>3, <2>1, <2>2, <2>3, <3>1, SumRemove
        <4> QED BY <2>1, <3>1, <4>1, <4>2
      <3>2. CASE p \notin S
        <4>1. v = v + 0
          BY SMTT(60)
        <4>2. T = S
          BY <3>2
        <4> QED BY <2>1, <2>2, <3>2, <4>1, <4>2
      <3> QED BY <3>1, <3>2
    <2>5. IsSum(T, duration', u)
      <3>1. \A q \in T : duration'[q] = duration[q]
        BY <2>1
      <3> QED BY <2>4, <3>1, SumSame
    <2>6. PICK w \in Int :
            /\ IsSum(S', duration', w)
            /\ w = u + (IF at'[p] \in {"count", "sum"} THEN duration'[p] ELSE 0)
      <3>1. CASE p \in S'
        <4>1. u + duration'[p] \in Int /\ duration'[p] \in Int
          BY <1>3, SMTT(60)
        <4>2. S' = T \cup {p} /\ p \notin T
          BY <2>1, <3>1
        <4>3. IsSum(T \cup {p}, duration', u + duration'[p])
          BY <2>5, <4>1, <4>2, SumAdd
        <4> QED BY <2>1, <3>1, <4>1, <4>2, <4>3
      <3>2. CASE p \notin S'
        <4>1. u = u + 0
          BY SMTT(60)
        <4>2. S' = T
          BY <2>1, <3>2
        <4> QED BY <2>1, <2>5, <3>2, <4>1, <4>2
      <3> QED BY <3>1, <3>2
    <2>7. duration[p] \in Nat /\ duration'[p] \in Nat
      BY <1>3
    <2>8. collected'.sum_ms = histogram'.sum_ms + w
      BY <1>1, <2>2, <2>4, <2>6, <2>7, SMTT(60)
    <2> QED BY <2>6, <2>8 DEF S
  <1> QED BY <1>4, <1>5 DEF ExactInv

\* What a MetricsCollector makes of a duration.
LEMMA ObserveFacts ==
    ASSUME NEW h, NEW d
    PROVE  /\ ObserveDurationMs(h, d).count = h.count + 1
           /\ ObserveDurationMs(h, d).sum_ms = h.sum_ms + d
           /\ ObserveDurationMs(h, d).max_ms = IF h.max_ms < d THEN d ELSE h.max_ms
  BY DEF ObserveDurationMs

\* A fault is one more.
LEMMA FaultsUp ==
    ASSUME TypeOK,
           \/ \E p \in Processes : MetricsError(p) \/ ScriptError(p) \/ Crash(p)
           \/ CollectMetricsError
    PROVE  faults' # 0
  <1>1. faults \in Nat
    BY NumberFacts
  <1>2. faults' = faults + 1
    BY DEF MetricsError, ScriptError, Crash, CollectMetricsError
  <1> QED BY <1>1, <1>2, SMTT(60)

\* Every step keeps ExactInv.
LEMMA ExactStep ==
    TypeOK /\ ExactInv /\ [Next]_vars /\ TypeOK' => ExactInv'
  <1> SUFFICES ASSUME TypeOK, ExactInv, [Next]_vars, TypeOK', faults' = 0
               PROVE  ExactInv'
    BY DEF ExactInv
  <1>0. /\ histogram.count \in Nat /\ histogram.sum_ms \in Nat
        /\ collected.count \in Nat /\ collected.sum_ms \in Nat
    BY NumberFacts
  <1>1. ASSUME NEW w \in Workers, NEW d \in Durations,
               NEW outcome \in Reports \ {"enqueue"}, ProcessTask(w, outcome, d)
        PROVE  ExactInv'
    <2>1. w \in Processes /\ d \in Nat
      BY MetricsAssumption DEF Processes
    <2>2. /\ at[w] = "idle" /\ at'[w] = First(outcome) /\ duration'[w] = d
          /\ histogram' = histogram /\ faults = 0
          /\ \A q \in Processes \ {w} : at'[q] = at[q] /\ duration'[q] = duration[q]
      BY <1>1, <2>1, ProcessTaskFacts
    <2>3. CASE outcome = "unknown"
      <3>1. at'[w] = "script" /\ collected' = collected
        BY <1>1, <2>2, <2>3 DEF First, ProcessTask
      <3>2. /\ at[w] \notin {"count", "sum"} /\ at'[w] \notin {"count", "sum"}
            /\ at[w] # "count" /\ at'[w] # "count"
        BY <2>2, <3>1
      <3>3. /\ collected'.count - histogram'.count - (IF at'[w] = "count" THEN 1 ELSE 0)
                 = collected.count - histogram.count - (IF at[w] = "count" THEN 1 ELSE 0)
            /\ collected'.sum_ms - histogram'.sum_ms
                 - (IF at'[w] \in {"count", "sum"} THEN duration'[w] ELSE 0)
               = collected.sum_ms - histogram.sum_ms
                 - (IF at[w] \in {"count", "sum"} THEN duration[w] ELSE 0)
        BY <2>2, <3>1, <3>2
      <3> QED BY <2>1, <2>2, <3>3, ExactBalance
    <2>4. CASE outcome # "unknown"
      <3>1. at'[w] = "count" /\ collected' = ObserveDurationMs(collected, d)
        BY <1>1, <2>2, <2>4 DEF First, ProcessTask, Reports
      <3>2. /\ collected'.count = collected.count + 1
            /\ collected'.sum_ms = collected.sum_ms + d
        BY <3>1, ObserveFacts
      <3>3. /\ (IF at'[w] = "count" THEN 1 ELSE 0) = 1
            /\ (IF at[w] = "count" THEN 1 ELSE 0) = 0
            /\ (IF at'[w] \in {"count", "sum"} THEN duration'[w] ELSE 0) = d
            /\ (IF at[w] \in {"count", "sum"} THEN duration[w] ELSE 0) = 0
        BY <2>2, <3>1
      <3>4. /\ collected'.count - histogram'.count - 1
                 = collected.count - histogram.count - 0
            /\ collected'.sum_ms - histogram'.sum_ms - d
                 = collected.sum_ms - histogram.sum_ms - 0
        BY <1>0, <2>1, <2>2, <3>2, SMTT(60)
      <3> QED BY <2>1, <2>2, <3>3, <3>4, ExactBalance
    <2> QED BY <2>3, <2>4
  <1>2. ASSUME NEW c \in Clients, Enqueue(c) PROVE ExactInv'
    <2>1. c \in Processes
      BY DEF Processes
    <2>2. /\ at[c] = "idle" /\ at'[c] = "script" /\ duration' = duration
          /\ histogram' = histogram /\ faults = 0 /\ collected' = collected
          /\ \A q \in Processes \ {c} : at'[q] = at[q] /\ duration'[q] = duration[q]
      BY <1>2, <2>1 DEF Enqueue, TypeOK, Idle, First
    <2>3. /\ at[c] \notin {"count", "sum"} /\ at'[c] \notin {"count", "sum"}
          /\ at[c] # "count" /\ at'[c] # "count"
      BY <2>2
    <2> QED BY <2>1, <2>2, <2>3, ExactBalance
  <1>3. ASSUME NEW p \in Processes, Command(p) PROVE ExactInv'
    <2>1. /\ at'[p] = After(p) /\ at[p] # "idle" /\ Execute(p) /\ duration' = duration
          /\ collected' = collected /\ faults = 0
          /\ \A q \in Processes \ {p} : at'[q] = at[q] /\ duration'[q] = duration[q]
      BY <1>3 DEF Command, TypeOK
    <2>2. duration[p] \in Nat /\ at[p] \in Commands
      BY <2>1, ProcessFacts
    <2>3. Successor["count"] = "sum" /\ Successor["sum"] = "get_max"
      BY SMTT(60) DEF Successor
    <2>4. CASE at[p] = "count"
      <3>1. at'[p] = "sum"
        BY <2>1, <2>3, <2>4 DEF After
      <3>2. histogram'.count = histogram.count + 1 /\ histogram'.sum_ms = histogram.sum_ms
        BY <2>1, <2>4, ExecuteHistogram
      <3>3. /\ (IF at'[p] = "count" THEN 1 ELSE 0) = 0
            /\ (IF at[p] = "count" THEN 1 ELSE 0) = 1
            /\ (IF at'[p] \in {"count", "sum"} THEN duration'[p] ELSE 0) = duration[p]
            /\ (IF at[p] \in {"count", "sum"} THEN duration[p] ELSE 0) = duration[p]
        BY <2>1, <2>4, <3>1
      <3>4. /\ collected'.count - histogram'.count - 0
                 = collected.count - histogram.count - 1
            /\ collected'.sum_ms - histogram'.sum_ms - duration[p]
                 = collected.sum_ms - histogram.sum_ms - duration[p]
        BY <1>0, <2>1, <2>2, <3>2, SMTT(60)
      <3> QED BY <2>1, <3>3, <3>4, ExactBalance
    <2>5. CASE at[p] = "sum"
      <3>1. at'[p] = "get_max"
        BY <2>1, <2>3, <2>5 DEF After
      <3>2. /\ histogram'.count = histogram.count
            /\ histogram'.sum_ms = histogram.sum_ms + duration[p]
        BY <2>1, <2>5, ExecuteHistogram
      <3>3. /\ (IF at'[p] = "count" THEN 1 ELSE 0) = 0
            /\ (IF at[p] = "count" THEN 1 ELSE 0) = 0
            /\ (IF at'[p] \in {"count", "sum"} THEN duration'[p] ELSE 0) = 0
            /\ (IF at[p] \in {"count", "sum"} THEN duration[p] ELSE 0) = duration[p]
        BY <2>5, <3>1
      <3>4. /\ collected'.count - histogram'.count - 0
                 = collected.count - histogram.count - 0
            /\ collected'.sum_ms - histogram'.sum_ms - 0
                 = collected.sum_ms - histogram.sum_ms - duration[p]
        BY <1>0, <2>1, <2>2, <3>2, SMTT(60)
      <3> QED BY <2>1, <3>3, <3>4, ExactBalance
    <2>6. CASE at[p] \notin {"count", "sum"}
      <3>1. at'[p] \notin {"count", "sum"}
        BY <2>1, <2>2, <2>6, BothGoOn DEF GoesOn, Commands, DurationCommands
      <3>2. histogram'.count = histogram.count /\ histogram'.sum_ms = histogram.sum_ms
        BY <2>1, <2>6, ExecuteHistogram
      <3>3. at[p] # "count" /\ at'[p] # "count"
        BY <2>6, <3>1
      <3> QED BY <2>1, <2>6, <3>1, <3>2, <3>3, ExactBalance
    <2> QED BY <2>4, <2>5, <2>6
  <1>4. ASSUME \/ \E p \in Processes : RecordRedisOperationError(p)
               \/ CollectMetrics \/ UNCHANGED vars
        PROVE  ExactInv'
    <2>1. UNCHANGED <<at, duration, histogram, collected, faults>>
      BY <1>4 DEF RecordRedisOperationError, CollectMetrics, vars, processVars
    <2> QED BY <2>1 DEF ExactInv, Sending
  <1> QED BY <1>1, <1>2, <1>3, <1>4, FaultsUp DEF Next

\* A step that leaves the writers of the maximum and the histogram alone keeps
\* LargestInv, if a duration that is observed is also to be written.
LEMMA LargestBegin ==
    ASSUME TypeOK, TypeOK', LargestInv, faults = 0, NEW p \in Processes,
           \A q \in Processes \ {p} : at'[q] = at[q] /\ duration'[q] = duration[q],
           at[p] = "idle", histogram' = histogram, overlapped' = overlapped,
           \/ at'[p] = "script" /\ collected' = collected
           \/ /\ at'[p] = "count"
              /\ collected' = ObserveDurationMs(collected, duration'[p])
    PROVE  LargestInv'
  <1>1. /\ histogram.max_ms \in Nat /\ collected.max_ms \in Nat /\ 0 \in Nat
    BY NumberFacts, SMTT(60)
  <1>2. \A q \in Processes : duration[q] \in Nat /\ duration'[q] \in Nat
    BY <1>1, MetricsAssumption DEF TypeOK
  <1>3. /\ histogram.max_ms <= collected.max_ms
        /\ \A q \in Sending(DurationCommands) : duration[q] <= collected.max_ms
    BY DEF LargestInv
  <1>4. /\ \A q \in Sending(DurationCommands) :
              q \in Sending(DurationCommands)' /\ duration'[q] = duration[q]
        /\ \A q \in Sending(DurationCommands)' :
              \/ q = p /\ at'[p] = "count"
              \/ q \in Sending(DurationCommands) /\ duration'[q] = duration[q]
        /\ Sending({"set_max"})' = Sending({"set_max"})
        /\ \A q \in Sending({"set_max"}) : duration'[q] = duration[q]
    BY DEF Sending, DurationCommands
  <1>5. CASE at'[p] = "script" /\ collected' = collected
    BY <1>3, <1>4, <1>5 DEF LargestInv
  <1>6. CASE at'[p] = "count" /\ collected' = ObserveDurationMs(collected, duration'[p])
    <2> DEFINE d == duration'[p]
    <2>1. collected'.max_ms = IF collected.max_ms < d THEN d ELSE collected.max_ms
      BY <1>6, ObserveFacts
    <2>2. d \in Nat
      BY <1>2
    <2> HIDE DEF d
    <2>3. /\ d <= collected'.max_ms /\ collected.max_ms <= collected'.max_ms
          /\ collected'.max_ms \in Nat
          /\ collected'.max_ms = d \/ collected'.max_ms = collected.max_ms
      BY <1>1, <2>1, <2>2, SMTT(60)
    <2>4. \A n \in Nat : n <= collected.max_ms => n <= collected'.max_ms
      BY <1>1, <2>3, SMTT(60)
    <2>5. histogram'.max_ms <= collected'.max_ms
      BY <1>1, <1>3, <2>4
    <2>6. ASSUME NEW q \in Sending(DurationCommands)'
          PROVE  duration'[q] <= collected'.max_ms
      <3>1. CASE q = p
        BY <2>3, <3>1 DEF d
      <3>2. CASE q \in Sending(DurationCommands) /\ duration'[q] = duration[q]
        <4>1. duration[q] \in Nat /\ duration[q] <= collected.max_ms
          BY <1>2, <1>3, <3>2 DEF Sending
        <4> QED BY <2>4, <3>2, <4>1
      <3> QED BY <1>4, <3>1, <3>2
    <2>7. ASSUME ~overlapped'
          PROVE  /\ \A r, q \in Sending({"set_max"})' : r = q
                 /\ \A q \in Sending({"set_max"})' : histogram'.max_ms <= duration'[q]
                 /\ \/ histogram'.max_ms = collected'.max_ms
                    \/ \E q \in Sending(DurationCommands)' :
                           duration'[q] = collected'.max_ms
      <3>1. /\ \A r, q \in Sending({"set_max"}) : r = q
            /\ \A q \in Sending({"set_max"}) : histogram.max_ms <= duration[q]
            /\ \/ histogram.max_ms = collected.max_ms
               \/ \E q \in Sending(DurationCommands) : duration[q] = collected.max_ms
        BY <2>7 DEF LargestInv
      <3>2. CASE collected'.max_ms = d
        <4>1. p \in Sending(DurationCommands)' /\ duration'[p] = collected'.max_ms
          BY <1>6, <3>2 DEF Sending, DurationCommands, d
        <4> QED BY <1>4, <3>1, <4>1
      <3>3. CASE collected'.max_ms = collected.max_ms
        BY <1>4, <3>1, <3>3
      <3> QED BY <2>3, <3>2, <3>3
    <2> QED BY <2>5, <2>6, <2>7 DEF LargestInv
  <1> QED BY <1>5, <1>6

\* A command that succeeds keeps LargestInv.
LEMMA LargestCommand ==
    ASSUME TypeOK, MissingInv, LargestInv, faults = 0,
           NEW p \in Processes, Command(p)
    PROVE  LargestInv'
  <1>1. /\ at'[p] = After(p) /\ at[p] # "idle" /\ Execute(p) /\ duration' = duration
        /\ collected' = collected
        /\ \A q \in Processes \ {p} : at'[q] = at[q]
    BY DEF Command, TypeOK
  <1>2. overlapped' = (\/ overlapped
                       \/ /\ at'[p] = "set_max"
                          /\ \E q \in Processes \ {p} : at[q] = "set_max")
    BY DEF Command
  <1>3. at[p] \in Commands /\ duration[p] \in Nat
    BY <1>1, ProcessFacts
  <1>4. histogram.max_ms \in Nat /\ collected.max_ms \in Nat
    BY NumberFacts
  <1>5. GoesOn(p, at'[p])
    BY <1>1, BothGoOn
  <1>6. /\ histogram.max_ms <= collected.max_ms
        /\ \A q \in Sending(DurationCommands) : duration[q] <= collected.max_ms
    BY DEF LargestInv
  <1>7. ~overlapped' =>
            /\ ~overlapped
            /\ \A r, q \in Sending({"set_max"}) : r = q
            /\ \A q \in Sending({"set_max"}) : histogram.max_ms <= duration[q]
            /\ \/ histogram.max_ms = collected.max_ms
               \/ \E q \in Sending(DurationCommands) : duration[q] = collected.max_ms
    BY <1>2 DEF LargestInv
  <1>8. CASE at[p] = "set_max"
    <2>1. histogram'.max_ms = duration[p]
      BY <1>1, <1>8, ExecuteHistogram
    <2>2. at'[p] \notin DurationCommands
      BY <1>5, <1>8 DEF GoesOn, DurationCommands
    <2>3. p \in Sending(DurationCommands) /\ p \in Sending({"set_max"})
      BY <1>8 DEF Sending, DurationCommands
    <2>4. /\ Sending(DurationCommands)' = Sending(DurationCommands) \ {p}
          /\ Sending({"set_max"})' = Sending({"set_max"}) \ {p}
      BY <1>1, <2>2 DEF Sending, DurationCommands
    <2>5. duration[p] <= collected.max_ms
      BY <1>6, <2>3
    <2>6. ASSUME ~overlapped'
          PROVE  /\ Sending({"set_max"})' = {}
                 /\ \/ histogram'.max_ms = collected.max_ms
                    \/ \E q \in Sending(DurationCommands)' : duration[q] = collected.max_ms
      <3>1. Sending({"set_max"})' = {}
        BY <1>7, <2>3, <2>4, <2>6
      <3>2. histogram.max_ms <= duration[p]
        BY <1>7, <2>3, <2>6
      <3>3. histogram.max_ms = collected.max_ms => duration[p] = collected.max_ms
        BY <1>3, <1>4, <2>5, <3>2, SMTT(60)
      <3>4. \/ histogram.max_ms = collected.max_ms
            \/ \E q \in Sending(DurationCommands) : duration[q] = collected.max_ms
        BY <1>7, <2>6
      <3> QED BY <2>1, <2>4, <3>1, <3>3, <3>4
    <2> QED BY <1>1, <1>6, <2>1, <2>4, <2>5, <2>6 DEF LargestInv
  <1>9. CASE at[p] = "get_max" /\ at'[p] = "set_max"
    <2>1. histogram'.max_ms = histogram.max_ms
      BY <1>1, <1>9, ExecuteHistogram
    <2>2. histogram.max_ms = 0 \/ histogram.max_ms < duration[p]
      <3>1. AfterDuration(report[p]) # "set_max"
        BY DEF AfterDuration
      <3> QED BY <1>1, <1>9, <3>1 DEF After, MissingInv
    <2>3. histogram.max_ms <= duration[p]
      BY <1>3, <1>4, <2>2, SMTT(60)
    <2>4. /\ Sending(DurationCommands)' = Sending(DurationCommands)
          /\ Sending({"set_max"})' = Sending({"set_max"}) \cup {p}
      BY <1>1, <1>9 DEF Sending, DurationCommands
    <2>5. ~overlapped' => Sending({"set_max"}) = {}
      BY <1>2, <1>9 DEF Sending
    <2>6. ~overlapped' =>
            /\ \A r, q \in Sending({"set_max"})' : r = q
            /\ \A q \in Sending({"set_max"})' : histogram'.max_ms <= duration'[q]
      BY <1>1, <2>1, <2>3, <2>4, <2>5
    <2> QED BY <1>1, <1>6, <1>7, <2>1, <2>4, <2>6 DEF LargestInv
  <1>10. CASE at[p] = "get_max" /\ at'[p] # "set_max"
    <2>1. histogram'.max_ms = histogram.max_ms
      BY <1>1, <1>10, ExecuteHistogram
    <2>2. ~(histogram.max_ms < duration[p])
      BY <1>1, <1>10 DEF After
    <2>3. duration[p] <= histogram.max_ms
      BY <1>3, <1>4, <2>2, SMTT(60)
    <2>4. at'[p] \notin DurationCommands
      BY <1>5, <1>10 DEF GoesOn, DurationCommands
    <2>5. /\ Sending(DurationCommands)' = Sending(DurationCommands) \ {p}
          /\ Sending({"set_max"})' = Sending({"set_max"})
      BY <1>1, <1>10, <2>4 DEF Sending, DurationCommands
    <2>6. duration[p] = collected.max_ms => histogram.max_ms = collected.max_ms
      BY <1>3, <1>4, <1>6, <2>3, SMTT(60)
    <2>7. ~overlapped' =>
            \/ histogram'.max_ms = collected.max_ms
            \/ \E q \in Sending(DurationCommands)' : duration[q] = collected.max_ms
      BY <1>7, <2>1, <2>5, <2>6
    <2> QED BY <1>1, <1>6, <1>7, <2>1, <2>5, <2>7 DEF LargestInv
  <1>11. CASE at[p] \notin {"get_max", "set_max"}
    <2>1. histogram'.max_ms = histogram.max_ms
      BY <1>1, <1>11, ExecuteHistogram
    <2>2. Successor["count"] = "sum" /\ Successor["sum"] = "get_max"
      BY SMTT(60) DEF Successor
    <2>3. at[p] \in {"count", "sum"} => at'[p] \in {"sum", "get_max"}
      BY <1>1, <2>2 DEF After
    <2>4. at[p] \notin {"count", "sum"} => at'[p] \notin DurationCommands
      BY <1>3, <1>5, <1>11 DEF GoesOn, Commands, DurationCommands
    <2>5. /\ Sending(DurationCommands)' = Sending(DurationCommands)
          /\ Sending({"set_max"})' = Sending({"set_max"})
      BY <1>1, <1>11, <2>3, <2>4 DEF Sending, DurationCommands
    <2> QED BY <1>1, <1>6, <1>7, <2>1, <2>5 DEF LargestInv
  <1> QED BY <1>8, <1>9, <1>10, <1>11

\* Only the command that stores the maximum changes it.
LEMMA MissingStep == TypeOK /\ MissingInv /\ [Next]_vars => MissingInv'
  <1> SUFFICES ASSUME TypeOK, MissingInv, [Next]_vars PROVE MissingInv'
    OBVIOUS
  <1>1. ASSUME NEW p \in Processes, Execute(p) PROVE MissingInv'
    <2>1. CASE at[p] = "set_max"
      BY <1>1, <2>1 DEF Execute, MissingInv
    <2>2. CASE at[p] # "set_max"
      <3>1. histogram'.max_ms = histogram.max_ms
        BY <1>1, <2>2, ExecuteHistogram
      <3> QED BY <1>1, <3>1 DEF Execute, MissingInv
    <2> QED BY <2>1, <2>2
  <1>2. CASE UNCHANGED <<histogram, max_stored>>
    BY <1>2 DEF MissingInv
  <1>3. ASSUME NEW p \in Processes,
               Command(p) \/ MetricsError(p) \/ ScriptError(p)
        PROVE  Execute(p) \/ UNCHANGED <<histogram, max_stored>>
    BY <1>3 DEF Command, MetricsError, ScriptError
  <1>4. ASSUME NEW p \in Processes, Crash(p) \/ RecordRedisOperationError(p)
        PROVE  UNCHANGED <<histogram, max_stored>>
    BY <1>4 DEF Crash, RecordRedisOperationError
  <1> QED BY <1>1, <1>2, <1>3, <1>4
          DEF Next, ProcessTask, Enqueue, CollectMetrics, CollectMetricsError, vars

\* Every step keeps LargestInv.
LEMMA LargestStep ==
    TypeOK /\ MissingInv /\ LargestInv /\ [Next]_vars /\ TypeOK' => LargestInv'
  <1> SUFFICES ASSUME TypeOK, MissingInv, LargestInv, [Next]_vars, TypeOK',
                      faults' = 0
               PROVE  LargestInv'
    BY DEF LargestInv
  <1>1. ASSUME NEW w \in Workers, NEW d \in Durations,
               NEW outcome \in Reports \ {"enqueue"}, ProcessTask(w, outcome, d)
        PROVE  LargestInv'
    <2>1. w \in Processes
      BY DEF Processes
    <2>2. /\ at[w] = "idle" /\ at'[w] = First(outcome) /\ duration'[w] = d
          /\ histogram' = histogram /\ faults = 0 /\ overlapped' = overlapped
          /\ \A q \in Processes \ {w} : at'[q] = at[q] /\ duration'[q] = duration[q]
      BY <1>1, <2>1, ProcessTaskFacts
    <2>3. CASE outcome = "unknown"
      <3>1. at'[w] = "script" /\ collected' = collected
        BY <1>1, <2>2, <2>3 DEF First, ProcessTask
      <3> QED BY <2>1, <2>2, <3>1, LargestBegin
    <2>4. CASE outcome # "unknown"
      <3>1. at'[w] = "count" /\ collected' = ObserveDurationMs(collected, d)
        BY <1>1, <2>2, <2>4 DEF First, ProcessTask, Reports
      <3>2. collected' = ObserveDurationMs(collected, duration'[w])
        BY <2>2, <3>1
      <3> QED BY <2>1, <2>2, <3>1, <3>2, LargestBegin
    <2> QED BY <2>3, <2>4
  <1>2. ASSUME NEW c \in Clients, Enqueue(c) PROVE LargestInv'
    <2>1. c \in Processes
      BY DEF Processes
    <2>2. /\ at[c] = "idle" /\ at'[c] = "script" /\ collected' = collected
          /\ histogram' = histogram /\ faults = 0 /\ overlapped' = overlapped
          /\ \A q \in Processes \ {c} : at'[q] = at[q] /\ duration'[q] = duration[q]
      BY <1>2, <2>1 DEF Enqueue, TypeOK, Idle, First
    <2> QED BY <2>1, <2>2, LargestBegin
  <1>3. ASSUME NEW p \in Processes, Command(p) PROVE LargestInv'
    <2>1. faults = 0
      BY <1>3 DEF Command
    <2> QED BY <1>3, <2>1, LargestCommand
  <1>4. ASSUME \/ \E p \in Processes : RecordRedisOperationError(p)
               \/ CollectMetrics \/ UNCHANGED vars
        PROVE  LargestInv'
    <2>1. UNCHANGED <<at, duration, histogram, collected, overlapped, faults>>
      BY <1>4 DEF RecordRedisOperationError, CollectMetrics, vars, processVars
    <2> QED BY <2>1 DEF LargestInv, Sending
  <1> QED BY <1>1, <1>2, <1>3, <1>4, FaultsUp DEF Next

-----------------------------------------------------------------------------
(* The theorems.                                                           *)

MetricsInv ==
    /\ TypeOK /\ FailureInv /\ TrailInv /\ RecordedInv /\ SnapshotCoherent
    /\ ExactInv /\ MissingInv /\ LargestInv

\* Initially nothing is counted, recorded or to be done.
LEMMA MetricsInit == Init => MetricsInv
  <1> SUFFICES ASSUME Init PROVE MetricsInv
    OBVIOUS
  <1>0. /\ 0 \in Nat /\ 0 \in Int /\ 0 + 0 = 0 /\ 0 <= 0 /\ 0 + 0 + 0 = 0
        /\ 0 \in 0..MaxCalls /\ 0 \in 0..MaxFaults
        /\ \A d \in Nat : 0 * d = 0
    BY MetricsAssumption, SMTT(60)
  <1>1. TypeOK
    <2>1. "idle" \in Commands \cup {"idle"} /\ "enqueue" \in Reports
      BY DEF Reports
    <2>2. EmptyHistogram \in DurationHistogram
      BY <1>0 DEF EmptyHistogram, DurationHistogram
    <2> QED BY <1>0, <2>1, <2>2 DEF Init, TypeOK
  <1>2. /\ histogram.count = 0 /\ histogram.sum_ms = 0 /\ histogram.max_ms = 0
        /\ collected.count = 0 /\ collected.sum_ms = 0 /\ collected.max_ms = 0
        /\ snapshot.histogram.count = 0 /\ snapshot.histogram.sum_ms = 0
        /\ snapshot.histogram.max_ms = 0
    BY SMTT(60) DEF Init, EmptyHistogram
  <1>3. /\ \A n : Counting(n) = {}
        /\ Erring = {} /\ Sending({"sum"}) = {} /\ Sending({"count"}) = {}
        /\ Sending({"count", "sum"}) = {} /\ Sending(DurationCommands) = {}
        /\ Sending({"set_max"}) = {} /\ Sending({"get_max", "set_max"}) = {}
    BY DEF Init, Counting, Erring, Sending, DurationCommands
  <1>4. Cardinality({}) = 0
    BY FS_EmptySet
  <1>5. FailureInv
    BY DEF Init, FailureInv
  <1>6. TrailInv
    <2>1. /\ \A n \in Counters : counters[n] = 0 /\ occurred[n] = 0
          /\ faults = 0 /\ "redis_operation_errors" \in Counters
      BY DEF Init, Counters
    <2>2. /\ \A n : Cardinality(Counting(n)) = 0
          /\ Cardinality(Erring) = 0
      BY <1>3, <1>4
    <2>3. ASSUME NEW n \in Counters \ {"redis_operation_errors"}
          PROVE  /\ counters[n] + Cardinality(Counting(n)) <= occurred[n]
                 /\ occurred[n] <= counters[n] + Cardinality(Counting(n)) + faults
      BY <2>1, <2>2, SMTT(60)
    <2>4. counters["redis_operation_errors"] + Cardinality(Erring) <= faults
      BY <2>1, <2>2, SMTT(60)
    <2> QED BY <2>3, <2>4 DEF TrailInv
  <1>7. RecordedInv
    <2>1. ASSUME NEW d \in Durations
          PROVE  \E k \in Nat : /\ histogram.count = k + Cardinality(Sending({"sum"}))
                                /\ histogram.sum_ms <= k * d
      <3>1. d \in Nat
        BY MetricsAssumption
      <3>2. 0 = 0 + Cardinality(Sending({"sum"}))
        BY <1>0, <1>3, <1>4
      <3> QED BY <1>0, <1>2, <3>1, <3>2
    <2> QED BY <1>0, <1>2, <1>3, <2>1 DEF RecordedInv
  <1>8. SnapshotCoherent
    <2>1. \A d \in Durations : d \in Nat
      BY MetricsAssumption
    <2>2. /\ snapshot.histogram.max_ms <= snapshot.histogram.sum_ms
          /\ \A d \in Durations :
                snapshot.histogram.sum_ms <= snapshot.histogram.count * d
      BY <1>2, <2>1, SMTT(60)
    <2> QED BY <2>2 DEF SnapshotCoherent
  <1>9. ExactInv
    <2>1. 0 = 0 + Cardinality(Sending({"count"})) /\ IsSum(Sending({"count", "sum"}), duration, 0)
      BY <1>0, <1>3, <1>4, SumEmpty
    <2> QED BY <1>0, <1>2, <2>1 DEF ExactInv
  <1>10. LargestInv
    BY <1>0, <1>2, <1>3 DEF LargestInv
  <1>11. MissingInv
    BY <1>2 DEF MissingInv
  <1> QED BY <1>1, <1>5, <1>6, <1>7, <1>8, <1>9, <1>10, <1>11 DEF MetricsInv

\* MetricsInv is an invariant of the commands of any number of processes, with
\* errors and crashes anywhere between them.
THEOREM MetricsInvariant == Spec => []MetricsInv
  <1>1. MetricsInv /\ [Next]_vars => MetricsInv'
    <2> SUFFICES ASSUME MetricsInv, [Next]_vars PROVE MetricsInv'
      OBVIOUS
    <2>1. TypeOK'
      BY TypeStep DEF MetricsInv
    <2>2. FailureInv' /\ TrailInv'
      BY <2>1, FailureStep, TrailStep DEF MetricsInv
    <2>3. RecordedInv' /\ SnapshotCoherent'
      BY <2>1, RecordedStep, SnapshotStep DEF MetricsInv
    <2>4. ExactInv' /\ LargestInv'
      BY <2>1, ExactStep, LargestStep DEF MetricsInv
    <2>5. MissingInv'
      BY MissingStep DEF MetricsInv
    <2> QED BY <2>1, <2>2, <2>3, <2>4, <2>5 DEF MetricsInv
  <1> QED BY <1>1, MetricsInit, PTL DEF Spec

\* Counters, histograms and durations stay natural numbers, and every process
\* at one of the commands of its report.
THEOREM MetricsTypes == Spec => []TypeOK
  <1>1. MetricsInv => TypeOK
    BY DEF MetricsInv
  <1> QED BY <1>1, MetricsInvariant, PTL

\* However many processes report at once, a counter never runs ahead of what it
\* counts, and a fault costs it one event at most (RecordCounter).
THEOREM CountersNeverLead == Spec => []CountersTrail
  <1>1. MetricsInv => CountersTrail
    <2> SUFFICES ASSUME MetricsInv PROVE CountersTrail
      OBVIOUS
    <2>1. TypeOK /\ TrailInv
      BY DEF MetricsInv
    <2>2. Erring \in SUBSET Processes /\ \A n : Counting(n) \in SUBSET Processes
      BY DEF Erring, Counting
    <2>3. \A S \in SUBSET Processes : Cardinality(S) \in Nat
      BY MetricsAssumption, FS_Subset, FS_CardinalityType
    <2>4. ASSUME NEW n \in Counters \ {"redis_operation_errors"}
          PROVE  /\ counters[n] <= occurred[n]
                 /\ occurred[n] <= counters[n] + Cardinality(Counting(n)) + faults
      <3>1. counters[n] \in Nat /\ occurred[n] \in Nat /\ Cardinality(Counting(n)) \in Nat
        BY <2>1, <2>2, <2>3, NumberFacts
      <3>2. /\ counters[n] + Cardinality(Counting(n)) <= occurred[n]
            /\ occurred[n] <= counters[n] + Cardinality(Counting(n)) + faults
        BY <2>1 DEF TrailInv
      <3> QED BY <3>1, <3>2, SMTT(60)
    <2>5. counters["redis_operation_errors"] <= faults
      <3>1. /\ counters["redis_operation_errors"] \in Nat
            /\ Cardinality(Erring) \in Nat /\ faults \in Nat
        BY <2>1, <2>2, <2>3, NumberFacts DEF Counters
      <3>2. counters["redis_operation_errors"] + Cardinality(Erring) <= faults
        BY <2>1 DEF TrailInv
      <3> QED BY <3>1, <3>2, SMTT(60)
    <2> QED BY <2>4, <2>5 DEF CountersTrail
  <1> QED BY <1>1, MetricsInvariant, PTL

\* A snapshot of CollectMetrics fits together, between any two commands of any
\* RecordDurationMs.
THEOREM SnapshotsFit == Spec => []SnapshotCoherent
  <1>1. MetricsInv => SnapshotCoherent
    BY DEF MetricsInv
  <1> QED BY <1>1, MetricsInvariant, PTL

\* Without faults, what processes record with RecordDurationMs is what one
\* MetricsCollector would have recorded, but for a maximum that two of them
\* were about to write at once.
THEOREM HistogramsAreExact == Spec => []HistogramExact
  <1>1. MetricsInv => HistogramExact
    <2> SUFFICES ASSUME MetricsInv, Quiet
                 PROVE  /\ histogram.count = collected.count
                        /\ histogram.sum_ms = collected.sum_ms
                        /\ histogram.max_ms <= collected.max_ms
                        /\ ~overlapped => histogram.max_ms = collected.max_ms
      BY DEF HistogramExact
    <2>1. TypeOK /\ ExactInv /\ LargestInv /\ faults = 0
      BY DEF MetricsInv, Quiet
    <2>2. /\ Sending({"count"}) = {} /\ Sending({"count", "sum"}) = {}
          /\ Sending(DurationCommands) = {}
      BY DEF Quiet, Idle, Sending, DurationCommands
    <2>3. Cardinality({}) = 0
      BY FS_EmptySet
    <2>4. collected.count = histogram.count + 0
      BY <2>1, <2>2, <2>3 DEF ExactInv
    <2>5. PICK v \in Int : IsSum({}, duration, v) /\ collected.sum_ms = histogram.sum_ms + v
      BY <2>1, <2>2 DEF ExactInv
    <2>6. collected.sum_ms = histogram.sum_ms + 0
      BY <2>5, SumEmpty
    <2>7. /\ histogram.count \in Nat /\ histogram.sum_ms \in Nat
      BY <2>1, NumberFacts
    <2>8. histogram.count = collected.count /\ histogram.sum_ms = collected.sum_ms
      BY <2>4, <2>6, <2>7, SMTT(60)
    <2> QED BY <2>1, <2>2, <2>8 DEF LargestInv
  <1> QED BY <1>1, MetricsInvariant, PTL

=============================================================================
