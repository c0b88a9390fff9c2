--------------------------- MODULE TaskQueueProofs ---------------------------
(***************************************************************************)
(* Proofs about TaskQueue, for every set of tasks, workers and threads and *)
(* every value of the other constants: types, that no task is lost, the    *)
(* retry budget, what stands next to a status, and that no delayed task is *)
(* early; that a task is in one place, and that its status names it, until *)
(* a worker that has lost its lease reports an outcome; that two threads   *)
(* work on one task only after a lease has ended; and that TaskQueue       *)
(* implements TaskLifecycle: every step changes what the lifecycle sees of *)
(* at most one task, as one of the lifecycle's actions does.               *)
(***************************************************************************)
EXTENDS TaskQueue, TLAPS

\* The leaves are for Zenon unless they name another prover.
USE ZenonT(60)

-----------------------------------------------------------------------------
(* The list operations of the scripts.                                     *)

\* LPUSH: the new list is the old one with the element at the end.
LEMMA AppendFacts ==
    ASSUME NEW S, NEW list \in Seq(S), NEW e \in S
    PROVE  /\ Append(list, e) \in Seq(S)
           /\ Len(Append(list, e)) = Len(list) + 1
           /\ \A i \in 1..Len(list) : Append(list, e)[i] = list[i]
           /\ Append(list, e)[Len(list) + 1] = e
  BY SMTT(60)

\* RPOP: the new list is the old one without its first element.
LEMMA TailFacts ==
    ASSUME NEW S, NEW list \in Seq(S), list # <<>>
    PROVE  /\ Head(list) \in S
           /\ Head(list) = list[1]
           /\ Tail(list) \in Seq(S)
           /\ Len(list) \in Nat \ {0}
           /\ Len(Tail(list)) = Len(list) - 1
           /\ \A i \in 1..(Len(list) - 1) : Tail(list)[i] = list[i + 1]
  BY SMTT(60)

\* LREM: every element but the i-th is kept, in order.
LEMMA WithoutIndexFacts ==
    ASSUME NEW S, NEW list \in Seq(S), NEW i \in 1..Len(list)
    PROVE  /\ WithoutIndex(list, i) \in Seq(S)
           /\ Len(WithoutIndex(list, i)) = Len(list) - 1
           /\ \A j \in 1..(Len(list) - 1) :
                  WithoutIndex(list, i)[j] =
                      IF j < i THEN list[j] ELSE list[j + 1]
  <1>1. Len(list) \in Nat /\ Len(list) - 1 \in Nat
    BY SMTT(60)
  <1>2. \A j \in 1..Len(list) : list[j] \in S
    BY SMTT(60)
  <1>3. WithoutIndex(list, i) \in [1..(Len(list) - 1) -> S]
    BY <1>1, <1>2, SMTT(60) DEF WithoutIndex
  <1>4. WithoutIndex(list, i) \in Seq(S)
    BY <1>1, <1>3, SMTT(60)
  <1>5. Len(WithoutIndex(list, i)) = Len(list) - 1
    BY <1>1, <1>3, <1>4, SMTT(60)
  <1> QED BY <1>4, <1>5 DEF WithoutIndex

\* Every element of a list has the list's type.
LEMMA ListElements ==
    ASSUME NEW S, NEW list \in Seq(S)
    PROVE  /\ Len(list) \in Nat
           /\ \A i \in 1..Len(list) : list[i] \in S
  BY SMTT(60)

\* Which tasks a list has a message of, after LPUSH, RPOP and LREM.
LEMMA InListAppend ==
    ASSUME NEW list \in Seq(TaskMessage), NEW e \in TaskMessage, NEW t
    PROVE  InList(Append(list, e), t) <=> InList(list, t) \/ e.id = t
  <1> DEFINE longer == Append(list, e)
  <1>1. /\ Len(list) \in Nat
        /\ Len(longer) = Len(list) + 1
        /\ \A i \in 1..Len(list) : longer[i] = list[i]
        /\ longer[Len(list) + 1] = e
    BY AppendFacts, ListElements, SMTT(60)
  <1> HIDE DEF longer
  <1>2. InList(longer, t) <=> InList(list, t) \/ e.id = t
    <2>1. ASSUME InList(longer, t)
          PROVE  InList(list, t) \/ e.id = t
      <3>1. PICK i \in 1..Len(longer) : longer[i].id = t
        BY <2>1 DEF InList
      <3>2. CASE i = Len(list) + 1
        BY <1>1, <3>1, <3>2
      <3>3. CASE i \in 1..Len(list)
        BY <1>1, <3>1, <3>3 DEF InList
      <3> QED BY <1>1, <3>2, <3>3, SMTT(60)
    <2>2. ASSUME InList(list, t)
          PROVE  InList(longer, t)
      BY <1>1, <2>2, SMTT(60) DEF InList
    <2>3. ASSUME e.id = t
          PROVE  InList(longer, t)
      BY <1>1, <2>3, SMTT(60) DEF InList
    <2> QED BY <2>1, <2>2, <2>3
  <1> QED BY <1>2 DEF longer

\* A list without its head holds the other ids, and no new ones (RPOP).
LEMMA InListTail ==
    ASSUME NEW list \in Seq(TaskMessage), list # <<>>, NEW t
    PROVE  InList(list, t) <=> InList(Tail(list), t) \/ Head(list).id = t
  <1> DEFINE rest == Tail(list)
  <1>1. /\ Len(list) \in Nat \ {0}
        /\ Len(rest) = Len(list) - 1
        /\ \A i \in 1..(Len(list) - 1) : rest[i] = list[i + 1]
        /\ Head(list) = list[1]
    BY TailFacts
  <1> HIDE DEF rest
  <1>2. InList(list, t) <=> InList(rest, t) \/ Head(list).id = t
    <2>1. ASSUME InList(list, t)
          PROVE  InList(rest, t) \/ Head(list).id = t
      <3>1. PICK i \in 1..Len(list) : list[i].id = t
        BY <2>1 DEF InList
      <3>2. CASE i = 1
        BY <1>1, <3>1, <3>2
      <3>3. CASE i # 1
        <4>1. i - 1 \in 1..Len(rest) /\ rest[i - 1] = list[i]
          BY <1>1, <3>3, SMTT(60)
        <4> QED BY <3>1, <4>1 DEF InList
      <3> QED BY <3>2, <3>3
    <2>2. ASSUME InList(rest, t)
          PROVE  InList(list, t)
      <3>1. PICK i \in 1..Len(rest) : rest[i].id = t
        BY <2>2 DEF InList
      <3>2. i + 1 \in 1..Len(list) /\ list[i + 1] = rest[i]
        BY <1>1, SMTT(60)
      <3> QED BY <3>1, <3>2 DEF InList
    <2>3. ASSUME Head(list).id = t
          PROVE  InList(list, t)
      BY <1>1, <2>3, SMTT(60) DEF InList
    <2> QED BY <2>1, <2>2, <2>3
  <1> QED BY <1>2 DEF rest

\* A list without one element holds the other ids, and no new ones (LREM).
LEMMA InListWithout ==
    ASSUME NEW list \in Seq(TaskMessage), NEW i \in 1..Len(list), NEW t
    PROVE  /\ InList(WithoutIndex(list, i), t) => InList(list, t)
           /\ InList(list, t) => InList(WithoutIndex(list, i), t)
                                 \/ list[i].id = t
  <1> DEFINE shorter == WithoutIndex(list, i)
  <1>1. /\ Len(list) \in Nat
        /\ Len(shorter) = Len(list) - 1
        /\ \A j \in 1..(Len(list) - 1) :
               shorter[j] = IF j < i THEN list[j] ELSE list[j + 1]
    BY WithoutIndexFacts, ListElements
  <1> HIDE DEF shorter
  <1>2. ASSUME InList(shorter, t)
        PROVE  InList(list, t)
    <2>1. PICK j \in 1..Len(shorter) : shorter[j].id = t
      BY <1>2 DEF InList
    <2>2. j \in 1..Len(list) /\ j + 1 \in 1..Len(list)
      BY <1>1, SMTT(60)
    <2>3. shorter[j] = list[j] \/ shorter[j] = list[j + 1]
      BY <1>1
    <2> QED BY <2>1, <2>2, <2>3 DEF InList
  <1>3. ASSUME InList(list, t)
        PROVE  InList(shorter, t) \/ list[i].id = t
    <2>1. PICK j \in 1..Len(list) : list[j].id = t
      BY <1>3 DEF InList
    <2>2. CASE j < i
      <3>1. j \in 1..Len(shorter) /\ shorter[j] = list[j]
        BY <1>1, <2>2, SMTT(60)
      <3> QED BY <2>1, <3>1 DEF InList
    <2>3. CASE j = i
      BY <2>1, <2>3
    <2>4. CASE j > i
      <3>1. j - 1 \in 1..Len(shorter) /\ shorter[j - 1] = list[j]
        BY <1>1, <2>4, SMTT(60)
      <3> QED BY <2>1, <3>1 DEF InList
    <2> QED BY <2>2, <2>3, <2>4, SMTT(60)
  <1> QED BY <1>2, <1>3 DEF shorter

-----------------------------------------------------------------------------
(* Type correctness.                                                       *)

DelayedMessage == [id : Tasks, retry_count : Nat, run_at : Time,
                   reserved_at : {Null}]

\* The message of a first run, as Enqueue and RetryDeadTask push it.
LEMMA FreshMessage ==
    ASSUME NEW t \in Tasks
    PROVE  [id |-> t, retry_count |-> 0, run_at |-> Null, reserved_at |-> Null]
               \in TaskMessage
  BY DEF TaskMessage

\* The enqueue transaction preserves the types of the keys.
LEMMA EnqueueType ==
    ASSUME BrokerTypeOK, NEW t \in Tasks, NEW run_at \in Time \cup {Null},
           NEW now \in Time, Enqueue(t, run_at, now)
    PROVE  BrokerTypeOK'
  <1>1. pending' \in Seq(TaskMessage)
    <2> DEFINE e == [id |-> t, retry_count |-> 0, run_at |-> Null,
                     reserved_at |-> Null]
    <2>1. pending \in Seq(TaskMessage) /\ e \in TaskMessage
      BY FreshMessage DEF BrokerTypeOK
    <2>2. pending' = pending \/ pending' = Append(pending, e)
      BY DEF Enqueue
    <2> HIDE DEF e
    <2> QED BY <2>1, <2>2, AppendFacts
  <1>2. delayed' \in SUBSET DelayedMessage
    <2>1. CASE IsFuture(run_at, now)
      <3>1. [id |-> t, retry_count |-> 0, run_at |-> run_at,
             reserved_at |-> Null] \in DelayedMessage
        BY <2>1 DEF IsFuture, DelayedMessage
      <3> QED BY <2>1, <3>1 DEF Enqueue, BrokerTypeOK, DelayedMessage
    <2>2. CASE ~IsFuture(run_at, now)
      BY <2>2 DEF Enqueue, BrokerTypeOK, DelayedMessage
    <2> QED BY <2>1, <2>2
  <1>3. status' \in [Tasks -> TaskStatus]
    BY DEF Enqueue, BrokerTypeOK, TaskStatus
  <1> QED BY <1>1, <1>2, <1>3 DEF Enqueue, BrokerTypeOK, DelayedMessage

\* The reserved message is a message with the id and count of the oldest one.
LEMMA ReservableFacts ==
    ASSUME BrokerTypeOK, pending # <<>>, NEW now \in Time
    PROVE  /\ Reservable(now) \in TaskMessage
           /\ Reservable(now).id = Head(pending).id
           /\ Reservable(now).retry_count = Head(pending).retry_count
           /\ Head(pending) \in TaskMessage
           /\ Reservable(now) # Null
  <1>1. Head(pending) \in TaskMessage
    BY TailFacts DEF BrokerTypeOK
  <1> QED BY <1>1, NullAssumption DEF Reservable, TaskMessage

\* kReserveScript preserves the types, and returns a message.
LEMMA ReserveType ==
    ASSUME BrokerTypeOK, NEW now \in Time, ReserveScript(now)
    PROVE  BrokerTypeOK'
  <1>1. pending' \in Seq(TaskMessage)
    BY TailFacts DEF ReserveScript, BrokerTypeOK
  <1>2. Reservable(now) \in TaskMessage
    BY ReservableFacts DEF ReserveScript
  <1>3. running' \in [Tasks -> TaskMessage \cup {Null}]
    BY <1>2 DEF ReserveScript, BrokerTypeOK
  <1>4. status' \in [Tasks -> TaskStatus]
    BY DEF ReserveScript, BrokerTypeOK, TaskStatus
  <1> QED BY <1>1, <1>3, <1>4 DEF ReserveScript, BrokerTypeOK

\* kReserveScript preserves the types when the message does not decode.
LEMMA ReserveDropType ==
    ASSUME BrokerTypeOK, ReserveDropScript
    PROVE  BrokerTypeOK'
  BY TailFacts DEF ReserveDropScript, BrokerTypeOK

\* kPromoteOneScript preserves the types.
LEMMA PromoteOneType ==
    ASSUME BrokerTypeOK, NEW m \in delayed, NEW now, PromoteOneScript(m, now)
    PROVE  BrokerTypeOK'
  <1>1. m.id \in Tasks /\ [m EXCEPT !.run_at = Null] \in TaskMessage
    BY DEF BrokerTypeOK, TaskMessage
  <1>2. pending' \in Seq(TaskMessage)
    BY <1>1, AppendFacts DEF PromoteOneScript, BrokerTypeOK
  <1>3. status' \in [Tasks -> TaskStatus]
    BY DEF PromoteOneScript, BrokerTypeOK, TaskStatus
  <1> QED BY <1>2, <1>3 DEF PromoteOneScript, BrokerTypeOK

\* kPromoteOneScript preserves the types when the message does not decode.
LEMMA PromoteDropType ==
    ASSUME BrokerTypeOK, NEW m \in delayed, NEW now, PromoteDropScript(m, now)
    PROVE  BrokerTypeOK'
  BY DEF PromoteDropScript, BrokerTypeOK

\* kReclaimOneScript preserves the types.
LEMMA ReclaimType ==
    ASSUME BrokerTypeOK, NEW t \in Tasks, NEW now, NEW timeout,
           ReclaimOneScript(t, now, timeout)
    PROVE  BrokerTypeOK'
  <1>1. [running[t] EXCEPT !.reserved_at = Null] \in TaskMessage
    BY DEF ReclaimOneScript, IsStale, BrokerTypeOK, TaskMessage
  <1>2. pending' \in Seq(TaskMessage)
    BY <1>1, AppendFacts DEF ReclaimOneScript, BrokerTypeOK
  <1>3. running' \in [Tasks -> TaskMessage \cup {Null}]
    BY DEF ReclaimOneScript, BrokerTypeOK
  <1>4. status' \in [Tasks -> TaskStatus]
    BY DEF ReclaimOneScript, BrokerTypeOK, TaskStatus
  <1> QED BY <1>2, <1>3, <1>4 DEF ReclaimOneScript, BrokerTypeOK

\* kRetryScript preserves the types, given a message that has a time to run.
LEMMA RetryType ==
    ASSUME BrokerTypeOK, NEW m \in DelayedMessage, RetryScript(m)
    PROVE  BrokerTypeOK'
  <1>1. m.id \in Tasks
    BY DEF DelayedMessage
  <1>2. delayed' \in SUBSET DelayedMessage
    BY DEF RetryScript, BrokerTypeOK, DelayedMessage
  <1>3. running' \in [Tasks -> TaskMessage \cup {Null}]
    BY DEF RetryScript, BrokerTypeOK
  <1>4. status' \in [Tasks -> TaskStatus]
    BY DEF RetryScript, BrokerTypeOK, TaskStatus
  <1>5. failures' \in SUBSET Tasks
    BY <1>1 DEF RetryScript, BrokerTypeOK
  <1> QED BY <1>2, <1>3, <1>4, <1>5
             DEF RetryScript, BrokerTypeOK, DelayedMessage

\* kFailScript preserves the types, with and without a running entry.
LEMMA FailType ==
    ASSUME BrokerTypeOK, NEW t \in Tasks, FailScript(t)
    PROVE  BrokerTypeOK'
  <1>1. dead' \in Seq(TaskMessage)
    <2>1. CASE running[t] = Null
      BY <2>1 DEF FailScript, BrokerTypeOK
    <2>2. CASE running[t] # Null
      <3>1. running[t] \in TaskMessage /\ dead \in Seq(TaskMessage)
        BY <2>2 DEF BrokerTypeOK
      <3>2. dead' = Append(dead, running[t])
        BY <2>2 DEF FailScript
      <3> QED BY <3>1, <3>2, AppendFacts
    <2> QED BY <2>1, <2>2
  <1>2. running' \in [Tasks -> TaskMessage \cup {Null}]
    BY DEF FailScript, BrokerTypeOK
  <1>3. status' \in [Tasks -> TaskStatus]
    BY DEF FailScript, BrokerTypeOK, TaskStatus
  <1> QED BY <1>1, <1>2, <1>3 DEF FailScript, BrokerTypeOK

\* kAckScript preserves the types.
LEMMA AckType ==
    ASSUME BrokerTypeOK, NEW t \in Tasks, AckScript(t)
    PROVE  BrokerTypeOK'
  BY DEF AckScript, BrokerTypeOK, TaskStatus, ResultPayload

\* kRetryDeadTaskScript preserves the types.
LEMMA RetryDeadType ==
    ASSUME BrokerTypeOK, NEW t \in Tasks, RetryDeadTaskScript(t)
    PROVE  BrokerTypeOK'
  <1>1. dead' \in Seq(TaskMessage)
    BY WithoutIndexFacts, SMTT(60) DEF RetryDeadTaskScript, BrokerTypeOK
  <1>2. pending' \in Seq(TaskMessage)
    BY FreshMessage, AppendFacts, SMTT(60) DEF RetryDeadTaskScript, BrokerTypeOK
  <1>3. status' \in [Tasks -> TaskStatus]
    BY DEF RetryDeadTaskScript, BrokerTypeOK, TaskStatus
  <1> QED BY <1>1, <1>2, <1>3 DEF RetryDeadTaskScript, BrokerTypeOK

\* What a worker reads as NowUnixMs is a time.
LEMMA NowIsTime ==
    ASSUME TypeOK, NEW w \in Workers
    PROVE  NowUnixMs(w) \in Time
  BY WorkerAssumption, SMTT(60) DEF TypeOK, NowUnixMs, Time

\* Retry writes a message that the sorted set may hold: one more retry of the
\* task, within its policy, because ShouldRetry was asked first.
LEMMA RetryWrites ==
    ASSUME TypeOK, NEW w \in Workers, NEW th \in Threads,
           hands[w][th] \in TaskMessage, Retry(w, th)
    PROVE  \E n \in DelayedMessage :
               /\ RetryScript(n) /\ n.id = hands[w][th].id
               /\ n.retry_count = hands[w][th].retry_count + 1
               /\ n.retry_count <= Policy[n.id].max_retries
  <1> DEFINE m == hands[w][th]
  <1>1. m.id \in Tasks /\ m.retry_count \in Nat
    BY DEF TaskMessage
  <1>2. Policy[m.id].max_retries \in Nat
    BY <1>1, PolicyAssumption DEF RetryPolicies
  <1>3. ShouldRetry(m.retry_count, Policy[m.id])
    BY DEF Retry
  <1>4. PICK d \in ComputeRetryDelayMs(Policy[m.id], m.retry_count + 1) :
            RetryScript(RetryMessage(m, NowUnixMs(w) + d))
    BY DEF Retry
  <1> HIDE DEF m
  <1>5. m.retry_count + 1 \in 1..Policy[m.id].max_retries
    BY <1>1, <1>2, <1>3, SMTT(60) DEF ShouldRetry
  <1>6. d \in Nat
    BY <1>1, <1>4, <1>5, PolicyAssumption
  <1> DEFINE n == RetryMessage(m, NowUnixMs(w) + d)
  <1>7. NowUnixMs(w) + d \in Nat
    BY <1>6, NowIsTime, SMTT(60) DEF Time
  <1>8. /\ n \in DelayedMessage /\ n.id = m.id
        /\ n.retry_count = m.retry_count + 1
        /\ n.retry_count <= Policy[m.id].max_retries
    BY <1>1, <1>2, <1>5, <1>7, SMTT(60) DEF RetryMessage, DelayedMessage, Time
  <1> QED BY <1>4, <1>8 DEF m

\* What a report leaves alone is well typed, and it is about a message.
LEMMA ReportType ==
    ASSUME TypeOK, NEW w \in Workers, NEW th \in Threads, Report(w, th)
    PROVE  /\ hands[w][th] \in TaskMessage
           /\ hands[w][th].id \in Tasks
           /\ BrokerTypeOK' => TypeOK'
  <1>1. hands[w][th] \in TaskMessage
    BY DEF Report, TypeOK
  <1>2. hands[w][th].id \in Tasks
    BY <1>1 DEF TaskMessage
  <1>3. hands' \in [Workers -> [Threads -> TaskMessage \cup {Null}]]
    BY DEF Report, TypeOK
  <1>4. late' \in SUBSET Tasks
    BY <1>2 DEF Report, TypeOK
  <1> QED BY <1>1, <1>2, <1>3, <1>4 DEF Report, TypeOK

\* Every action of clients, workers and the environment preserves the types.
LEMMA TypeStep == TypeOK /\ [Next]_vars => TypeOK'
  <1> SUFFICES ASSUME TypeOK, [Next]_vars
               PROVE  TypeOK'
    OBVIOUS
  <1>0. BrokerTypeOK
    BY DEF TypeOK
  <1>1. ASSUME NEW t \in Tasks, ClientEnqueue(t)
        PROVE  TypeOK'
    <2>1. BrokerTypeOK'
      BY <1>0, <1>1, EnqueueType, WorkerAssumption DEF ClientEnqueue, TypeOK
    <2> QED BY <2>1, <1>1 DEF ClientEnqueue, TypeOK, workerVars
  <1>2. ASSUME NEW t \in Tasks, ClientRetryDead(t)
        PROVE  TypeOK'
    <2>1. BrokerTypeOK'
      BY <1>0, <1>2, RetryDeadType DEF ClientRetryDead
    <2> QED BY <2>1, <1>2 DEF ClientRetryDead, TypeOK, workerVars
  <1>3. ASSUME NEW w \in Workers, StartPoll(w)
        PROVE  TypeOK'
    BY <1>3, NowIsTime
       DEF StartPoll, TypeOK, brokerVars, BrokerTypeOK, PollStates
  <1>4. ASSUME NEW w \in Workers, Promote(w)
        PROVE  TypeOK'
    <2>1. BrokerTypeOK'
      <3>1. CASE \E m \in delayed : PromoteOneScript(m, now_ms[w])
        BY <1>0, <3>1, PromoteOneType
      <3>2. CASE \E m \in delayed : PromoteDropScript(m, now_ms[w])
        BY <1>0, <3>2, PromoteDropType
      <3>3. CASE UNCHANGED brokerVars
        BY <1>0, <3>3 DEF brokerVars, BrokerTypeOK
      <3> QED BY <1>4, <3>1, <3>2, <3>3 DEF Promote
    <2>2. pc' \in [Workers -> PollStates]
      BY <1>4 DEF Promote, TypeOK, PollStates
    <2> QED BY <1>4, <2>1, <2>2 DEF Promote, TypeOK
  <1>5. ASSUME NEW w \in Workers, Scan(w)
        PROVE  TypeOK'
    BY <1>5 DEF Scan, TypeOK, brokerVars, BrokerTypeOK, PollStates
  <1>6. ASSUME NEW w \in Workers, NEW t \in Tasks, Reclaim(w, t)
        PROVE  TypeOK'
    <2>1. BrokerTypeOK'
      <3>1. CASE ReclaimOneScript(t, now_ms[w], VisibilityTimeout[w])
        BY <1>0, <3>1, ReclaimType
      <3>2. CASE UNCHANGED brokerVars
        BY <1>0, <3>2 DEF brokerVars, BrokerTypeOK
      <3> QED BY <1>6, <3>1, <3>2 DEF Reclaim
    <2> QED BY <1>6, <2>1 DEF Reclaim, TypeOK
  <1>7. ASSUME NEW w \in Workers, StartReserve(w)
        PROVE  TypeOK'
    BY <1>7, NowIsTime
       DEF StartReserve, TypeOK, brokerVars, BrokerTypeOK, PollStates
  <1>8. ASSUME NEW w \in Workers, Reserve(w)
        PROVE  TypeOK'
    <2>0. now_ms[w] \in Time
      BY DEF TypeOK
    <2>1. BrokerTypeOK'
      <3>1. CASE ReserveScript(now_ms[w])
        BY <1>0, <2>0, <3>1, ReserveType
      <3>2. CASE ReserveDropScript
        BY <1>0, <3>2, ReserveDropType
      <3>3. CASE UNCHANGED brokerVars
        BY <1>0, <3>3 DEF brokerVars, BrokerTypeOK
      <3> QED BY <1>8, <3>1, <3>2, <3>3 DEF Reserve
    <2>2. hands' \in [Workers -> [Threads -> TaskMessage \cup {Null}]]
      <3>1. CASE ReserveScript(now_ms[w])
        <4>1. Reservable(now_ms[w]) \in TaskMessage
          BY <1>0, <2>0, <3>1, ReservableFacts DEF ReserveScript
        <4>2. ASSUME NEW th \in FreeThreads(w),
                     hands' = [hands EXCEPT ![w][th] = Reservable(now_ms[w])]
              PROVE  hands' \in [Workers -> [Threads -> TaskMessage \cup {Null}]]
          BY <4>1, <4>2 DEF TypeOK, FreeThreads
        <4>3. CASE UNCHANGED hands
          BY <4>3 DEF TypeOK
        <4> QED BY <1>8, <4>2, <4>3 DEF Reserve
      <3>2. CASE UNCHANGED hands
        BY <3>2 DEF TypeOK
      <3> QED BY <1>8, <3>1, <3>2 DEF Reserve
    <2>3. now_ms' \in [Workers -> Time] /\ pc' \in [Workers -> PollStates]
      BY <1>8 DEF Reserve, TypeOK, PollStates, Time
    <2> QED BY <1>8, <2>1, <2>2, <2>3 DEF Reserve, TypeOK
  <1>9. ASSUME NEW w \in Workers, NEW th \in Threads, ProcessTask(w, th)
        PROVE  TypeOK'
    <2>0. Report(w, th)
      BY <1>9 DEF ProcessTask, FailUnknown, Ack, Retry, Fail
    <2>1. hands[w][th] \in TaskMessage /\ hands[w][th].id \in Tasks
      BY <2>0, ReportType
    <2>2. CASE FailScript(hands[w][th].id)
      BY <1>0, <2>0, <2>1, <2>2, FailType, ReportType
    <2>3. CASE AckScript(hands[w][th].id)
      BY <1>0, <2>0, <2>1, <2>3, AckType, ReportType
    <2>4. CASE Retry(w, th)
      <3>1. \E n \in DelayedMessage : RetryScript(n)
        BY <2>1, <2>4, RetryWrites
      <3>2. BrokerTypeOK'
        BY <1>0, <3>1, RetryType
      <3> QED BY <2>0, <3>2, ReportType
    <2> QED BY <1>9, <2>2, <2>3, <2>4 DEF ProcessTask, FailUnknown, Ack, Fail
  <1>10. ASSUME NEW w \in Workers, Crash(w)
         PROVE  TypeOK'
    BY <1>10, SMTT(60)
       DEF Crash, TypeOK, brokerVars, BrokerTypeOK, PollStates, Time
  <1>11. ASSUME NEW w \in Workers, Restart(w)
         PROVE  TypeOK'
    BY <1>11 DEF Restart, TypeOK, brokerVars, BrokerTypeOK, PollStates
  <1>12. CASE Tick
    BY <1>12, SMTT(60)
       DEF Tick, TypeOK, brokerVars, BrokerTypeOK, workerVars, Time
  <1>13. CASE UNCHANGED vars
    BY <1>13 DEF vars, brokerVars, workerVars, TypeOK, BrokerTypeOK
  <1> QED BY <1>1, <1>2, <1>3, <1>4, <1>5, <1>6, <1>7, <1>8, <1>9, <1>10, <1>11,
             <1>12, <1>13
             DEF Next, Poll

\* Every reachable state is well typed; in particular the sorted set only ever
\* holds messages with a run_at and without a lease.
THEOREM TypeCorrect == Spec => []TypeOK
  <1>1. Init => TypeOK
    BY SMTT(60)
       DEF Init, BrokerInit, TypeOK, BrokerTypeOK, TaskStatus, ResultPayload,
           PollStates, Time
  <1> QED BY <1>1, TypeStep, PTL DEF Spec

-----------------------------------------------------------------------------
(* No task is lost.  The induction needs to know that a running entry is a *)
(* message of its key, so that reclaiming or failing it keeps that key's    *)
(* task; no fact about who holds a lease is needed, since every script that *)
(* takes a message of a task from one key puts one in another, or stores a  *)
(* result.                                                                 *)

KeptInv == BrokerTypeOK /\ RunningKeyed /\ NoTaskLost

\* The enqueue transaction loses no task.
LEMMA EnqueueKeeps ==
    ASSUME KeptInv, NEW t \in Tasks, NEW run_at, NEW now, Enqueue(t, run_at, now)
    PROVE  RunningKeyed' /\ NoTaskLost'
  <1>1. RunningKeyed'
    BY DEF KeptInv, RunningKeyed, Enqueue
  <1>2. SUFFICES ASSUME NEW u \in Tasks \ Undecodable, status'[u] # "none"
                 PROVE  IsQueued(u)' \/ results'[u] # "none"
    BY <1>1 DEF NoTaskLost
  <1>3. /\ pending \in Seq(TaskMessage)
        /\ u # t => status[u] # "none"
    BY <1>2 DEF KeptInv, BrokerTypeOK, Enqueue
  <1>4. InList(pending, u) => InList(pending, u)'
    <2> DEFINE e == [id |-> t, retry_count |-> 0, run_at |-> Null,
                     reserved_at |-> Null]
    <2>1. e \in TaskMessage /\ (pending' = pending \/ pending' = Append(pending, e))
      BY FreshMessage DEF Enqueue
    <2> HIDE DEF e
    <2>2. InList(pending, u) => InList(pending', u)
      BY <1>3, <2>1, InListAppend
    <2> QED BY <2>2 DEF InList
  <1>5. InDelayed(u) => InDelayed(u)'
    BY DEF Enqueue, InDelayed
  <1>6. CASE u = t
    <2>1. CASE IsFuture(run_at, now)
      <3> DEFINE d == [id |-> t, retry_count |-> 0, run_at |-> run_at,
                       reserved_at |-> Null]
      <3>1. d.id = t /\ d \in delayed'
        BY <2>1 DEF Enqueue
      <3> HIDE DEF d
      <3> QED BY <1>6, <3>1 DEF InDelayed, IsQueued
    <2>2. CASE ~IsFuture(run_at, now)
      <3> DEFINE e == [id |-> t, retry_count |-> 0, run_at |-> Null,
                       reserved_at |-> Null]
      <3>1. /\ e.id = t /\ e \in TaskMessage
            /\ pending' = Append(pending, e)
        BY <2>2, FreshMessage DEF Enqueue
      <3> HIDE DEF e
      <3>2. InList(pending', t)
        BY <1>3, <3>1, InListAppend
      <3> QED BY <1>6, <3>2 DEF IsQueued, InList
    <2> QED BY <2>1, <2>2
  <1>7. CASE u # t
    BY <1>3, <1>4, <1>5, <1>7 DEF Enqueue, KeptInv, NoTaskLost, IsQueued, InList
  <1> QED BY <1>6, <1>7

\* kReserveScript loses no task: what leaves pending is in running.
LEMMA ReserveKeeps ==
    ASSUME KeptInv, NEW now \in Time, ReserveScript(now)
    PROVE  RunningKeyed' /\ NoTaskLost'
  <1> DEFINE m == Reservable(now)
  <1>1. /\ m \in TaskMessage
        /\ m.id = Head(pending).id
        /\ m.id \in Tasks
        /\ m # Null
        /\ pending \in Seq(TaskMessage)
        /\ running \in [Tasks -> TaskMessage \cup {Null}]
        /\ status \in [Tasks -> TaskStatus]
    <2>1. m \in TaskMessage /\ m.id = Head(pending).id /\ m # Null
      BY ReservableFacts DEF KeptInv, ReserveScript
    <2> QED BY <2>1 DEF KeptInv, BrokerTypeOK, TaskMessage
  <1>2. running' = [running EXCEPT ![m.id] = m]
    BY DEF ReserveScript
  <1> HIDE DEF m
  <1>3. RunningKeyed'
    BY <1>1, <1>2 DEF KeptInv, RunningKeyed
  <1>4. SUFFICES ASSUME NEW u \in Tasks \ Undecodable, status'[u] # "none"
                 PROVE  IsQueued(u)' \/ results'[u] # "none"
    BY <1>3 DEF NoTaskLost
  <1>5. CASE u = m.id
    BY <1>1, <1>2, <1>5 DEF IsQueued
  <1>6. CASE u # m.id
    <2>1. status[u] # "none" /\ running'[u] = running[u]
      BY <1>1, <1>2, <1>4, <1>6 DEF ReserveScript, m
    <2>2. InList(pending, u) => InList(pending', u)
      BY <1>1, <1>6, InListTail DEF ReserveScript
    <2> QED BY <2>1, <2>2
               DEF ReserveScript, KeptInv, NoTaskLost, IsQueued, InList,
                   InDelayed
  <1> QED BY <1>5, <1>6

\* kReserveScript loses no task but one that does not decode.
LEMMA ReserveDropKeeps ==
    ASSUME KeptInv, ReserveDropScript
    PROVE  RunningKeyed' /\ NoTaskLost'
  <1>1. RunningKeyed'
    BY DEF KeptInv, RunningKeyed, ReserveDropScript
  <1>2. SUFFICES ASSUME NEW u \in Tasks \ Undecodable, status'[u] # "none"
                 PROVE  IsQueued(u)' \/ results'[u] # "none"
    BY <1>1 DEF NoTaskLost
  <1>3. InList(pending, u) => InList(pending', u)
    BY InListTail DEF ReserveDropScript, KeptInv, BrokerTypeOK
  <1> QED BY <1>2, <1>3
             DEF ReserveDropScript, KeptInv, NoTaskLost, IsQueued, InList,
                 InDelayed

\* kPromoteOneScript loses no task: what leaves delayed is in pending.
LEMMA PromoteOneKeeps ==
    ASSUME KeptInv, NEW m \in delayed, NEW now, PromoteOneScript(m, now)
    PROVE  RunningKeyed' /\ NoTaskLost'
  <1> DEFINE e == [m EXCEPT !.run_at = Null]
  <1>1. /\ e \in TaskMessage /\ e.id = m.id /\ m.id \in Tasks
        /\ pending \in Seq(TaskMessage)
    BY DEF KeptInv, BrokerTypeOK, TaskMessage
  <1>2. pending' = Append(pending, e)
    BY DEF PromoteOneScript
  <1> HIDE DEF e
  <1>3. RunningKeyed'
    BY DEF KeptInv, RunningKeyed, PromoteOneScript
  <1>4. SUFFICES ASSUME NEW u \in Tasks \ Undecodable, status'[u] # "none"
                 PROVE  IsQueued(u)' \/ results'[u] # "none"
    BY <1>3 DEF NoTaskLost
  <1>5. InList(pending', u) <=> InList(pending, u) \/ m.id = u
    BY <1>1, <1>2, InListAppend
  <1>6. CASE u = m.id
    BY <1>5, <1>6 DEF IsQueued, InList
  <1>7. CASE u # m.id
    <2>1. status[u] # "none"
      BY <1>4, <1>7 DEF PromoteOneScript, KeptInv, BrokerTypeOK
    <2>2. InDelayed(u) => InDelayed(u)'
      BY <1>7 DEF PromoteOneScript, InDelayed
    <2> QED BY <1>5, <2>1, <2>2
               DEF PromoteOneScript, KeptInv, NoTaskLost, IsQueued, InList
  <1> QED BY <1>6, <1>7

\* kPromoteOneScript loses no task but one that does not decode.
LEMMA PromoteDropKeeps ==
    ASSUME KeptInv, NEW m \in delayed, NEW now, PromoteDropScript(m, now)
    PROVE  RunningKeyed' /\ NoTaskLost'
  <1>1. RunningKeyed'
    BY DEF KeptInv, RunningKeyed, PromoteDropScript
  <1>2. SUFFICES ASSUME NEW u \in Tasks \ Undecodable, status'[u] # "none"
                 PROVE  IsQueued(u)' \/ results'[u] # "none"
    BY <1>1 DEF NoTaskLost
  <1>3. InDelayed(u) => InDelayed(u)'
    BY DEF PromoteDropScript, InDelayed
  <1> QED BY <1>2, <1>3
             DEF PromoteDropScript, KeptInv, NoTaskLost, IsQueued, InList

\* kReclaimOneScript loses no task: what leaves running is in pending.
LEMMA ReclaimKeeps ==
    ASSUME KeptInv, NEW t \in Tasks, NEW now, NEW timeout,
           ReclaimOneScript(t, now, timeout)
    PROVE  RunningKeyed' /\ NoTaskLost'
  <1> DEFINE e == [running[t] EXCEPT !.reserved_at = Null]
  <1>0. /\ running[t] \in TaskMessage /\ running[t].id = t
        /\ pending \in Seq(TaskMessage)
        /\ running \in [Tasks -> TaskMessage \cup {Null}]
    BY DEF KeptInv, BrokerTypeOK, RunningKeyed, ReclaimOneScript, IsStale
  <1>1. /\ e \in TaskMessage /\ e.id = t
        /\ pending \in Seq(TaskMessage)
        /\ running \in [Tasks -> TaskMessage \cup {Null}]
    BY <1>0 DEF TaskMessage
  <1>2. pending' = Append(pending, e)
    BY DEF ReclaimOneScript
  <1> HIDE DEF e
  <1>3. RunningKeyed'
    BY <1>1 DEF KeptInv, RunningKeyed, ReclaimOneScript
  <1>4. SUFFICES ASSUME NEW u \in Tasks \ Undecodable, status'[u] # "none"
                 PROVE  IsQueued(u)' \/ results'[u] # "none"
    BY <1>3 DEF NoTaskLost
  <1>5. InList(pending', u) <=> InList(pending, u) \/ t = u
    BY <1>1, <1>2, InListAppend
  <1>6. CASE u = t
    BY <1>5, <1>6 DEF IsQueued, InList
  <1>7. CASE u # t
    <2>1. status[u] # "none" /\ running'[u] = running[u]
      BY <1>1, <1>4, <1>7 DEF ReclaimOneScript, KeptInv, BrokerTypeOK
    <2> QED BY <1>5, <2>1
               DEF ReclaimOneScript, KeptInv, NoTaskLost, IsQueued, InList,
                   InDelayed
  <1> QED BY <1>6, <1>7

\* kRetryScript loses no task: its message is in delayed.
LEMMA RetryKeeps ==
    ASSUME KeptInv, NEW m \in DelayedMessage, RetryScript(m)
    PROVE  RunningKeyed' /\ NoTaskLost'
  <1>1. m.id \in Tasks /\ running \in [Tasks -> TaskMessage \cup {Null}]
    BY DEF DelayedMessage, KeptInv, BrokerTypeOK
  <1>2. RunningKeyed'
    BY <1>1 DEF KeptInv, RunningKeyed, RetryScript
  <1>3. SUFFICES ASSUME NEW u \in Tasks \ Undecodable, status'[u] # "none"
                 PROVE  IsQueued(u)' \/ results'[u] # "none"
    BY <1>2 DEF NoTaskLost
  <1>4. CASE u = m.id
    BY <1>4 DEF RetryScript, InDelayed, IsQueued
  <1>5. CASE u # m.id
    <2>1. status[u] # "none" /\ running'[u] = running[u]
      BY <1>1, <1>3, <1>5 DEF RetryScript, KeptInv, BrokerTypeOK
    <2>2. InDelayed(u) => InDelayed(u)'
      BY DEF RetryScript, InDelayed
    <2> QED BY <2>1, <2>2 DEF RetryScript, KeptInv, NoTaskLost, IsQueued, InList
  <1> QED BY <1>4, <1>5

\* A task is failed by a worker that had it, so it has a status.
LEMMA FailKeeps ==
    ASSUME KeptInv, NEW t \in Tasks, status[t] # "none", FailScript(t)
    PROVE  RunningKeyed' /\ NoTaskLost'
  <1>1. /\ running \in [Tasks -> TaskMessage \cup {Null}]
        /\ dead \in Seq(TaskMessage)
    BY DEF KeptInv, BrokerTypeOK
  <1>2. RunningKeyed'
    BY <1>1 DEF KeptInv, RunningKeyed, FailScript
  <1>3. SUFFICES ASSUME NEW u \in Tasks \ Undecodable, status'[u] # "none"
                 PROVE  IsQueued(u)' \/ results'[u] # "none"
    BY <1>2 DEF NoTaskLost
  <1>4. status[u] # "none"
    BY <1>3 DEF FailScript, KeptInv, BrokerTypeOK
  <1>5. CASE running[t] = Null
    <2>1. running' = running /\ dead' = dead
      BY <1>1, <1>5 DEF FailScript
    <2> QED BY <1>4, <2>1
               DEF FailScript, KeptInv, NoTaskLost, IsQueued, InList, InDelayed
  <1>6. CASE running[t] # Null
    <2>1. running[t] \in TaskMessage /\ running[t].id = t
      BY <1>1, <1>6 DEF KeptInv, RunningKeyed
    <2>2. dead' = Append(dead, running[t])
      BY <1>6 DEF FailScript
    <2>3. InList(dead', u) <=> InList(dead, u) \/ t = u
      BY <1>1, <2>1, <2>2, InListAppend
    <2>4. CASE u = t
      BY <2>3, <2>4 DEF IsQueued, InList
    <2>5. CASE u # t
      <3>1. running'[u] = running[u]
        BY <1>1, <2>5 DEF FailScript
      <3> QED BY <1>4, <2>3, <3>1
                 DEF FailScript, KeptInv, NoTaskLost, IsQueued, InList,
                     InDelayed
    <2> QED BY <2>4, <2>5
  <1> QED BY <1>5, <1>6

\* kAckScript loses no task: the one it removes has a result.
LEMMA AckKeeps ==
    ASSUME KeptInv, NEW t \in Tasks, AckScript(t)
    PROVE  RunningKeyed' /\ NoTaskLost'
  <1>1. running \in [Tasks -> TaskMessage \cup {Null}]
    BY DEF KeptInv, BrokerTypeOK
  <1>2. RunningKeyed'
    BY <1>1 DEF KeptInv, RunningKeyed, AckScript
  <1>3. SUFFICES ASSUME NEW u \in Tasks \ Undecodable, status'[u] # "none"
                 PROVE  IsQueued(u)' \/ results'[u] # "none"
    BY <1>2 DEF NoTaskLost
  <1>4. CASE u = t
    BY <1>4 DEF AckScript, KeptInv, BrokerTypeOK
  <1>5. CASE u # t
    <2>1. /\ status[u] # "none"
          /\ running'[u] = running[u]
          /\ results'[u] = results[u]
      BY <1>1, <1>3, <1>5 DEF AckScript, KeptInv, BrokerTypeOK
    <2> QED BY <2>1
               DEF AckScript, KeptInv, NoTaskLost, IsQueued, InList, InDelayed
  <1> QED BY <1>4, <1>5

\* kRetryDeadTaskScript loses no task: what leaves dead is in pending.
LEMMA RetryDeadKeeps ==
    ASSUME KeptInv, NEW t \in Tasks, RetryDeadTaskScript(t)
    PROVE  RunningKeyed' /\ NoTaskLost'
  <1> DEFINE e == [id |-> t, retry_count |-> 0, run_at |-> Null,
                   reserved_at |-> Null]
  <1>1. /\ e.id = t /\ e \in TaskMessage
        /\ pending' = Append(pending, e)
    BY FreshMessage DEF RetryDeadTaskScript
  <1> HIDE DEF e
  <1>2. pending \in Seq(TaskMessage) /\ dead \in Seq(TaskMessage)
    BY DEF KeptInv, BrokerTypeOK
  <1>3. RunningKeyed'
    BY DEF KeptInv, RunningKeyed, RetryDeadTaskScript
  <1>4. SUFFICES ASSUME NEW u \in Tasks \ Undecodable, status'[u] # "none"
                 PROVE  IsQueued(u)' \/ results'[u] # "none"
    BY <1>3 DEF NoTaskLost
  <1>5. InList(pending', u) <=> InList(pending, u) \/ t = u
    BY <1>1, <1>2, InListAppend
  <1>6. CASE u = t
    BY <1>5, <1>6 DEF IsQueued, InList
  <1>7. CASE u # t
    <2>1. status[u] # "none"
      BY <1>4, <1>7 DEF RetryDeadTaskScript, KeptInv, BrokerTypeOK
    <2>2. PICK i \in 1..Len(dead) :
              dead[i].id = t /\ dead' = WithoutIndex(dead, i)
      BY DEF RetryDeadTaskScript
    <2>3. InList(dead, u) => InList(dead', u)
      BY <1>2, <1>7, <2>2, InListWithout
    <2> QED BY <1>5, <2>1, <2>3
           
  DEF RetryDeadTaskScript, KeptInv, NoTaskLost, IsQueued, InList, InDelayed
  <1> QED BY <1>6, <1>7

\* A worker only works on a task that was enqueued.
HeldKnown ==
    \A w \in Workers, th \in Threads :
        hands[w][th] # Null => status[hands[w][th].id] # "none"

NoTaskLostInv == TypeOK /\ RunningKeyed /\ HeldKnown /\ NoTaskLost

\* No script deletes a field of taskq:status.
LEMMA StatusStays ==
    ASSUME TypeOK, [Next]_vars, NEW t \in Tasks, status[t] # "none"
    PROVE  status'[t] # "none"
  <1>0. status \in [Tasks -> TaskStatus]
    BY DEF TypeOK, BrokerTypeOK
  <1>1. ASSUME NEW u \in Tasks, ClientEnqueue(u)
        PROVE  status'[t] # "none"
    BY <1>0, <1>1 DEF ClientEnqueue, Enqueue
  <1>2. ASSUME NEW u \in Tasks, ClientRetryDead(u)
        PROVE  status'[t] # "none"
    BY <1>0, <1>2 DEF ClientRetryDead, RetryDeadTaskScript
  <1>3. ASSUME NEW w \in Workers, Promote(w)
        PROVE  status'[t] # "none"
    BY <1>0, <1>3 DEF Promote, PromoteOneScript, PromoteDropScript, brokerVars
  <1>4. ASSUME NEW w \in Workers, NEW u \in Tasks, Reclaim(w, u)
        PROVE  status'[t] # "none"
    BY <1>0, <1>4 DEF Reclaim, ReclaimOneScript, brokerVars
  <1>5. ASSUME NEW w \in Workers, Reserve(w)
        PROVE  status'[t] # "none"
    BY <1>0, <1>5 DEF Reserve, ReserveScript, ReserveDropScript, brokerVars
  <1>6. ASSUME NEW w \in Workers, NEW th \in Threads, ProcessTask(w, th)
        PROVE  status'[t] # "none"
    BY <1>0, <1>6
       DEF ProcessTask, FailUnknown, Ack, Retry, Fail, FailScript, AckScript,
           RetryScript
  <1>7. ASSUME NEW w \in Workers,
               StartPoll(w) \/ Scan(w) \/ StartReserve(w) \/ Crash(w) \/ Restart(w)
        PROVE  status'[t] # "none"
    BY <1>7 DEF StartPoll, Scan, StartReserve, Crash, Restart, brokerVars
  <1>8. CASE Tick
    BY <1>8 DEF Tick, brokerVars
  <1>9. CASE UNCHANGED vars
    BY <1>9 DEF vars, brokerVars
  <1> QED BY <1>1, <1>2, <1>3, <1>4, <1>5, <1>6, <1>7, <1>8, <1>9 DEF Next, Poll

\* Every action keeps it that a task in a worker's hands has a status.
LEMMA HeldKnownStep ==
    ASSUME TypeOK, HeldKnown, [Next]_vars
    PROVE  HeldKnown'
  <1> SUFFICES ASSUME NEW w \in Workers, NEW th \in Threads, hands'[w][th] # Null
               PROVE  status'[hands'[w][th].id] # "none"
    BY DEF HeldKnown
  <1>1. TypeOK'
    BY TypeStep
  <1>2. CASE hands'[w][th] = hands[w][th]
    <2>1. hands[w][th].id \in Tasks
      BY <1>2 DEF TypeOK, TaskMessage
    <2>2. status[hands[w][th].id] # "none"
      BY <1>2 DEF HeldKnown
    <2> QED BY <1>2, <2>1, <2>2, StatusStays
  <1>3. CASE hands'[w][th] # hands[w][th]
    <2>1. PICK v \in Workers : Reserve(v) /\ ReserveScript(now_ms[v])
                               /\ hands'[w][th] = Reservable(now_ms[v])
      <3>1. ASSUME NEW v \in Workers, Reserve(v)
            PROVE  ReserveScript(now_ms[v])
                   /\ hands'[w][th] = Reservable(now_ms[v])
        BY <1>3, <3>1, SMTT(60) DEF Reserve, FreeThreads, TypeOK
      <3>2. ASSUME NEW v \in Workers, NEW tv \in Threads, ProcessTask(v, tv)
            PROVE  FALSE
        <4>1. hands' = [hands EXCEPT ![v][tv] = Null]
          BY <3>2 DEF ProcessTask, FailUnknown, Ack, Retry, Fail, Report
        <4> QED BY <1>3, <4>1 DEF TypeOK
      <3>3. ASSUME NEW v \in Workers, Crash(v)
            PROVE  FALSE
        BY <1>3, <3>3 DEF Crash, TypeOK
      <3>4. ASSUME NEW v \in Workers,
                   \/ StartPoll(v) \/ Promote(v) \/ Scan(v) \/ StartReserve(v)
                   \/ Restart(v) \/ \E t \in Tasks : Reclaim(v, t)
            PROVE  FALSE
        BY <1>3, <3>4
           DEF StartPoll, Promote, Scan, StartReserve, Restart, Reclaim
      <3>5. ASSUME NEW t \in Tasks, ClientEnqueue(t) \/ ClientRetryDead(t)
            PROVE  FALSE
        BY <1>3, <3>5 DEF ClientEnqueue, ClientRetryDead, workerVars
      <3>6. ~Tick /\ ~UNCHANGED vars
        BY <1>3 DEF Tick, vars, workerVars
      <3> QED BY <3>1, <3>2, <3>3, <3>4, <3>5, <3>6 DEF Next, Poll
    <2>2. hands'[w][th].id \in Tasks
      BY <1>1, SMTT(60) DEF TypeOK, TaskMessage
    <2> QED BY <2>1, <2>2 DEF ReserveScript, TypeOK, BrokerTypeOK
  <1> QED BY <1>2, <1>3

\* Every action preserves the inductive invariant of NoTaskLost.
LEMMA NoTaskLostStep == NoTaskLostInv /\ [Next]_vars => NoTaskLostInv'
  <1> SUFFICES ASSUME NoTaskLostInv, [Next]_vars
               PROVE  NoTaskLostInv'
    OBVIOUS
  <1>1. TypeOK' /\ HeldKnown'
    BY TypeStep, HeldKnownStep DEF NoTaskLostInv
  <1>2. KeptInv /\ TypeOK
    BY DEF NoTaskLostInv, KeptInv, TypeOK
  <1>3. CASE UNCHANGED brokerVars
    <2>1. RunningKeyed' /\ NoTaskLost'
      BY <1>2, <1>3
         DEF KeptInv, brokerVars, RunningKeyed, NoTaskLost, IsQueued, InList,
             InDelayed
    <2> QED BY <1>1, <2>1 DEF NoTaskLostInv
  <1>4. ASSUME NEW t \in Tasks, ClientEnqueue(t) \/ ClientRetryDead(t)
        PROVE  RunningKeyed' /\ NoTaskLost'
    BY <1>2, <1>4, EnqueueKeeps, RetryDeadKeeps
       DEF ClientEnqueue, ClientRetryDead
  <1>5. ASSUME NEW w \in Workers, Promote(w), ~UNCHANGED brokerVars
        PROVE  RunningKeyed' /\ NoTaskLost'
    BY <1>2, <1>5, PromoteOneKeeps, PromoteDropKeeps DEF Promote
  <1>6. ASSUME NEW w \in Workers, NEW t \in Tasks, Reclaim(w, t),
               ~UNCHANGED brokerVars
        PROVE  RunningKeyed' /\ NoTaskLost'
    BY <1>2, <1>6, ReclaimKeeps DEF Reclaim
  <1>7. ASSUME NEW w \in Workers, Reserve(w), ~UNCHANGED brokerVars
        PROVE  RunningKeyed' /\ NoTaskLost'
    <2>1. now_ms[w] \in Time
      BY <1>2 DEF TypeOK
    <2> QED BY <1>2, <1>7, <2>1, ReserveKeeps, ReserveDropKeeps DEF Reserve
  <1>8. ASSUME NEW w \in Workers, NEW th \in Threads, ProcessTask(w, th)
        PROVE  RunningKeyed' /\ NoTaskLost'
    <2>1. /\ hands[w][th] \in TaskMessage /\ hands[w][th].id \in Tasks
          /\ status[hands[w][th].id] # "none"
      <3>1. Report(w, th)
        BY <1>8 DEF ProcessTask, FailUnknown, Ack, Retry, Fail
      <3> QED BY <1>2, <3>1, ReportType DEF Report, NoTaskLostInv, HeldKnown
    <2>2. CASE FailScript(hands[w][th].id)
      BY <1>2, <2>1, <2>2, FailKeeps
    <2>3. CASE AckScript(hands[w][th].id)
      BY <1>2, <2>1, <2>3, AckKeeps
    <2>4. CASE Retry(w, th)
      BY <1>2, <2>1, <2>4, RetryWrites, RetryKeeps
    <2> QED BY <1>8, <2>2, <2>3, <2>4 DEF ProcessTask, FailUnknown, Ack, Fail
  <1>9. ASSUME NEW w \in Workers,
               StartPoll(w) \/ Scan(w) \/ StartReserve(w) \/ Crash(w) \/ Restart(w)
        PROVE  UNCHANGED brokerVars
    BY <1>9 DEF StartPoll, Scan, StartReserve, Crash, Restart
  <1>10. Tick \/ UNCHANGED vars => UNCHANGED brokerVars
    BY DEF Tick, vars
  <1>11. CASE ~UNCHANGED brokerVars
    <2>1. RunningKeyed' /\ NoTaskLost'
      BY <1>4, <1>5, <1>6, <1>7, <1>8, <1>9, <1>10, <1>11 DEF Next, Poll
    <2> QED BY <1>1, <2>1 DEF NoTaskLostInv
  <1> QED BY <1>3, <1>11

\* The inductive invariant holds throughout.
LEMMA KeptInvariant == Spec => []NoTaskLostInv
  <1>1. Init => TypeOK
    BY SMTT(60)
       DEF Init, BrokerInit, TypeOK, BrokerTypeOK, TaskStatus, ResultPayload,
           PollStates, Time
  <1>2. Init => RunningKeyed /\ HeldKnown /\ NoTaskLost
    BY SMTT(60) DEF Init, BrokerInit, RunningKeyed, HeldKnown, NoTaskLost
  <1>3. Init => NoTaskLostInv
    BY <1>1, <1>2 DEF NoTaskLostInv
  <1> QED BY <1>3, NoTaskLostStep, PTL DEF Spec

\* No interleaving of clients, polls, reports, crashes and restarts loses a
\* task: each stays in a key of the queue until it has a result.
THEOREM TasksAreKept == Spec => []NoTaskLost
  <1>1. NoTaskLostInv => NoTaskLost
    BY DEF NoTaskLostInv
  <1> QED BY <1>1, KeptInvariant, PTL

-----------------------------------------------------------------------------
(* The retry budget, as a type of its own: all messages, wherever they are, *)
(* are in a set that every script stays in.                                *)

Budgeted == {m \in TaskMessage : m.retry_count <= Policy[m.id].max_retries}

BudgetInv ==
    /\ pending \in Seq(Budgeted)
    /\ delayed \subseteq Budgeted
    /\ running \in [Tasks -> Budgeted \cup {Null}]
    /\ dead \in Seq(Budgeted)
    /\ hands \in [Workers -> [Threads -> Budgeted \cup {Null}]]

\* A first or requeued message is within any policy.
LEMMA FreshIsBudgeted ==
    ASSUME NEW t \in Tasks, NEW run_at \in Time \cup {Null}
    PROVE  [id |-> t, retry_count |-> 0, run_at |-> run_at, reserved_at |-> Null]
               \in Budgeted
  <1>1. Policy[t].max_retries \in Nat
    BY PolicyAssumption DEF RetryPolicies
  <1> QED BY <1>1, SMTT(60) DEF Budgeted, TaskMessage

\* The scripts that stamp or clear a time keep the count.
LEMMA StampedIsBudgeted ==
    ASSUME NEW m \in Budgeted, NEW time \in Time \cup {Null}
    PROVE  /\ [m EXCEPT !.reserved_at = time] \in Budgeted
           /\ [m EXCEPT !.run_at = time] \in Budgeted
  BY DEF Budgeted, TaskMessage

\* Every action keeps all messages within their budgets.
LEMMA BudgetStep ==
    ASSUME TypeOK, BudgetInv, [Next]_vars
    PROVE  BudgetInv'
  <1>0. \A w \in Workers : now_ms[w] \in Time
    BY DEF TypeOK
  <1>1. ASSUME NEW t \in Tasks, ClientEnqueue(t)
        PROVE  BudgetInv'
    <2>1. PICK run_at \in RunAts : Enqueue(t, run_at, clock)
      BY <1>1 DEF ClientEnqueue
    <2>2. run_at \in Time \cup {Null} /\ Null \in Time \cup {Null}
      BY WorkerAssumption
    <2>3. pending' \in Seq(Budgeted)
      <3> DEFINE m == [id |-> t, retry_count |-> 0, run_at |-> Null,
                       reserved_at |-> Null]
      <3>1. m \in Budgeted /\ pending \in Seq(Budgeted)
        BY <2>2, FreshIsBudgeted DEF BudgetInv
      <3>2. pending' = pending \/ pending' = Append(pending, m)
        BY <2>1 DEF Enqueue
      <3> HIDE DEF m
      <3> QED BY <3>1, <3>2, SMTT(60)
    <2>4. delayed' \subseteq Budgeted
      BY <2>1, <2>2, FreshIsBudgeted, SMTT(60) DEF Enqueue, BudgetInv
    <2> QED BY <1>1, <2>1, <2>3, <2>4
               DEF ClientEnqueue, Enqueue, BudgetInv, workerVars
  <1>2. ASSUME NEW t \in Tasks, ClientRetryDead(t)
        PROVE  BudgetInv'
    <2>1. PICK i \in 1..Len(dead) : dead' = WithoutIndex(dead, i)
      BY <1>2 DEF ClientRetryDead, RetryDeadTaskScript
    <2>2. dead' \in Seq(Budgeted)
      BY <2>1, WithoutIndexFacts DEF BudgetInv
    <2>3. pending' \in Seq(Budgeted)
      <3>1. [id |-> t, retry_count |-> 0, run_at |-> Null, reserved_at |-> Null]
                \in Budgeted
        BY FreshIsBudgeted
      <3> QED BY <1>2, <3>1, AppendFacts, SMTT(60)
                 DEF ClientRetryDead, RetryDeadTaskScript, BudgetInv
    <2> QED BY <1>2, <2>2, <2>3
               DEF ClientRetryDead, RetryDeadTaskScript, BudgetInv, workerVars
  <1>3. ASSUME NEW w \in Workers, Promote(w)
        PROVE  BudgetInv'
    <2>1. ASSUME NEW m \in delayed, PromoteOneScript(m, now_ms[w])
          PROVE  BudgetInv'
      <3>1. [m EXCEPT !.run_at = Null] \in Budgeted
        BY StampedIsBudgeted DEF BudgetInv
      <3>2. pending' \in Seq(Budgeted)
        BY <2>1, <3>1, AppendFacts DEF PromoteOneScript, BudgetInv
      <3> QED BY <1>3, <2>1, <3>2 DEF Promote, PromoteOneScript, BudgetInv
    <2>2. ASSUME NEW m \in delayed, PromoteDropScript(m, now_ms[w])
          PROVE  BudgetInv'
      BY <1>3, <2>2 DEF Promote, PromoteDropScript, BudgetInv
    <2>3. CASE UNCHANGED brokerVars
      BY <1>3, <2>3 DEF Promote, brokerVars, BudgetInv
    <2> QED BY <1>3, <2>1, <2>2, <2>3 DEF Promote
  <1>4. ASSUME NEW w \in Workers, NEW t \in Tasks, Reclaim(w, t)
        PROVE  BudgetInv'
    <2>1. CASE ReclaimOneScript(t, now_ms[w], VisibilityTimeout[w])
      <3>1. running[t] \in Budgeted
        BY <2>1 DEF ReclaimOneScript, IsStale, BudgetInv
      <3>2. [running[t] EXCEPT !.reserved_at = Null] \in Budgeted
        BY <3>1, StampedIsBudgeted
      <3>3. pending' \in Seq(Budgeted)
        BY <2>1, <3>2, AppendFacts DEF ReclaimOneScript, BudgetInv
      <3> QED BY <1>4, <2>1, <3>3 DEF Reclaim, ReclaimOneScript, BudgetInv
    <2>2. CASE UNCHANGED brokerVars
      BY <1>4, <2>2 DEF Reclaim, brokerVars, BudgetInv
    <2> QED BY <1>4, <2>1, <2>2 DEF Reclaim
  <1>5. ASSUME NEW w \in Workers, Reserve(w)
        PROVE  BudgetInv'
    <2>1. CASE ReserveScript(now_ms[w])
      <3> DEFINE m == Reservable(now_ms[w])
      <3>1. m \in Budgeted /\ Tail(pending) \in Seq(Budgeted)
        BY <1>0, <2>1, TailFacts, StampedIsBudgeted
           DEF ReserveScript, Reservable, BudgetInv
      <3> HIDE DEF m
      <3>2. running' \in [Tasks -> Budgeted \cup {Null}]
        BY <2>1, <3>1 DEF ReserveScript, BudgetInv, m
      <3>3. hands' \in [Workers -> [Threads -> Budgeted \cup {Null}]]
        <4>1. ASSUME NEW th \in FreeThreads(w), hands' = [hands EXCEPT ![w][th] = m]
              PROVE  hands' \in [Workers -> [Threads -> Budgeted \cup {Null}]]
          BY <3>1, <4>1 DEF BudgetInv, FreeThreads
        <4>2. CASE UNCHANGED hands
          BY <4>2 DEF BudgetInv
        <4> QED BY <1>5, <4>1, <4>2 DEF Reserve, m
      <3> QED BY <2>1, <3>1, <3>2, <3>3 DEF ReserveScript, BudgetInv
    <2>2. CASE ReserveDropScript /\ UNCHANGED hands
      BY <2>2, TailFacts DEF ReserveDropScript, BudgetInv
    <2>3. CASE UNCHANGED <<brokerVars, hands>>
      BY <2>3 DEF brokerVars, BudgetInv
    <2> QED BY <1>5, <2>1, <2>2, <2>3 DEF Reserve
  <1>6. ASSUME NEW w \in Workers, NEW th \in Threads, ProcessTask(w, th)
        PROVE  BudgetInv'
    <2> DEFINE m == hands[w][th]
    <2>1. m \in Budgeted /\ m.id \in Tasks
      <3>1. m # Null
        BY <1>6 DEF ProcessTask, FailUnknown, Ack, Retry, Fail, Report
      <3>2. m \in Budgeted
        BY <3>1 DEF BudgetInv
      <3> HIDE DEF m
      <3> QED BY <3>2 DEF Budgeted, TaskMessage
    <2>2. hands' \in [Workers -> [Threads -> Budgeted \cup {Null}]]
      <3>1. hands' = [hands EXCEPT ![w][th] = Null]
        BY <1>6 DEF ProcessTask, FailUnknown, Ack, Retry, Fail, Report
      <3> QED BY <3>1 DEF BudgetInv
    <2>3. CASE FailScript(m.id)
      <3>1. running[m.id] # Null => running[m.id] \in Budgeted
        BY <2>1 DEF BudgetInv
      <3>2. dead' \in Seq(Budgeted)
        <4>1. CASE running[m.id] # Null /\ dead' = Append(dead, running[m.id])
          <5>1. running[m.id] \in Budgeted /\ dead \in Seq(Budgeted)
            BY <3>1, <4>1 DEF BudgetInv
          <5> QED BY <4>1, <5>1, AppendFacts
        <4>2. CASE dead' = dead
          BY <4>2 DEF BudgetInv
        <4> QED BY <2>3, <4>1, <4>2 DEF FailScript
      <3> QED BY <2>1, <2>2, <2>3, <3>2 DEF FailScript, BudgetInv
    <2>4. CASE AckScript(m.id)
      BY <2>1, <2>2, <2>4 DEF AckScript, BudgetInv
    <2>5. CASE Retry(w, th)
      <3>1. m \in TaskMessage
        BY <2>1 DEF Budgeted
      <3>2. PICK n \in DelayedMessage :
                /\ RetryScript(n) /\ n.id = m.id
                /\ n.retry_count <= Policy[n.id].max_retries
        BY <2>5, <3>1, RetryWrites
      <3>3. n \in Budgeted
        BY <3>2 DEF DelayedMessage, TaskMessage, Budgeted
      <3> QED BY <2>1, <2>2, <3>2, <3>3 DEF RetryScript, BudgetInv
    <2> QED BY <1>6, <2>3, <2>4, <2>5 DEF ProcessTask, FailUnknown, Ack, Fail
  <1>7. ASSUME NEW w \in Workers, Crash(w)
        PROVE  BudgetInv'
    BY <1>7 DEF Crash, brokerVars, BudgetInv
  <1>8. ASSUME NEW w \in Workers,
               StartPoll(w) \/ Scan(w) \/ StartReserve(w) \/ Restart(w)
        PROVE  BudgetInv'
    BY <1>8 DEF StartPoll, Scan, StartReserve, Restart, brokerVars, BudgetInv
  <1>9. CASE Tick
    BY <1>9 DEF Tick, brokerVars, workerVars, BudgetInv
  <1>10. CASE UNCHANGED vars
    BY <1>10 DEF vars, brokerVars, workerVars, BudgetInv
  <1> QED BY <1>1, <1>2, <1>3, <1>4, <1>5, <1>6, <1>7, <1>8, <1>9, <1>10
             DEF Next, Poll

\* No copy of a task, in a key of Redis or in a thread's hands, has ever been
\* retried more often than its policy allows, late reports included.
THEOREM RetriesAreBounded == Spec => []RetryBudget
  <1>1. Init => BudgetInv
    BY SMTT(60) DEF Init, BrokerInit, BudgetInv
  <1>2. BudgetInv => RetryBudget
    BY ListElements, SMTT(60) DEF BudgetInv, RetryBudget, Budgeted
  <1>3. TypeOK /\ BudgetInv /\ [Next]_vars => BudgetInv'
    BY BudgetStep
  <1> QED BY <1>1, <1>2, <1>3, TypeCorrect, PTL DEF Spec

-----------------------------------------------------------------------------
(* What stands next to a status.                                           *)

\* The scripts that write a status write or delete, in the same step, the
\* result and the failure reason that belong with it.
LEMMA EvidenceStep ==
    ASSUME TypeOK, StatusEvidence, [Next]_vars
    PROVE  StatusEvidence'
  <1>0. status \in [Tasks -> TaskStatus] /\ results \in [Tasks -> ResultPayload]
    BY DEF TypeOK, BrokerTypeOK
  <1>1. CASE UNCHANGED <<status, results, failures>>
    BY <1>1 DEF StatusEvidence
  <1>2. ASSUME NEW t \in Tasks, NEW s \in {"pending", "running"},
               status' = [status EXCEPT ![t] = s], UNCHANGED results,
               failures' = failures \/ failures' = failures \ {t}
        PROVE  StatusEvidence'
    BY <1>0, <1>2 DEF StatusEvidence
  <1>3. ASSUME NEW t \in Tasks, NEW s \in {"retrying", "dead"},
               status' = [status EXCEPT ![t] = s], UNCHANGED results,
               failures' = failures \cup {t}
        PROVE  StatusEvidence'
    BY <1>0, <1>3 DEF StatusEvidence
  <1>4. ASSUME NEW t \in Tasks, AckScript(t)
        PROVE  StatusEvidence'
    BY <1>0, <1>4 DEF AckScript, StatusEvidence
  <1>5. ASSUME NEW t \in Tasks, ClientEnqueue(t)
        PROVE  StatusEvidence'
    BY <1>2, <1>5 DEF ClientEnqueue, Enqueue
  <1>6. ASSUME NEW t \in Tasks, ClientRetryDead(t)
        PROVE  StatusEvidence'
    BY <1>2, <1>6 DEF ClientRetryDead, RetryDeadTaskScript
  <1>7. ASSUME NEW w \in Workers, Promote(w)
        PROVE  StatusEvidence'
    <2>1. \A m \in delayed : m.id \in Tasks
      BY DEF TypeOK, BrokerTypeOK
    <2> QED BY <1>1, <1>2, <1>7, <2>1
               DEF Promote, PromoteOneScript, PromoteDropScript, brokerVars
  <1>8. ASSUME NEW w \in Workers, NEW t \in Tasks, Reclaim(w, t)
        PROVE  StatusEvidence'
    BY <1>1, <1>2, <1>8 DEF Reclaim, ReclaimOneScript, brokerVars
  <1>9. ASSUME NEW w \in Workers, Reserve(w)
        PROVE  StatusEvidence'
    <2>1. CASE ReserveScript(now_ms[w])
      <3>1. Reservable(now_ms[w]).id \in Tasks
        BY <2>1, ReservableFacts DEF ReserveScript, TypeOK, TaskMessage
      <3> QED BY <1>2, <2>1, <3>1 DEF ReserveScript
    <2> QED BY <1>1, <1>9, <2>1 DEF Reserve, ReserveDropScript, brokerVars
  <1>10. ASSUME NEW w \in Workers, NEW th \in Threads, ProcessTask(w, th)
         PROVE  StatusEvidence'
    <2>0. Report(w, th)
      BY <1>10 DEF ProcessTask, FailUnknown, Ack, Retry, Fail
    <2>1. hands[w][th].id \in Tasks
      BY <2>0 DEF Report, TypeOK, TaskMessage
    <2>2. CASE FailScript(hands[w][th].id)
      BY <1>3, <2>1, <2>2 DEF FailScript
    <2>3. CASE Retry(w, th)
      BY <1>3, <2>1, <2>3 DEF Retry, RetryScript, RetryMessage
    <2> QED BY <1>4, <1>10, <2>1, <2>2, <2>3
               DEF ProcessTask, FailUnknown, Ack, Fail
  <1>11. ASSUME NEW w \in Workers,
                StartPoll(w) \/ Scan(w) \/ StartReserve(w) \/ Restart(w) \/ Crash(w)
         PROVE  StatusEvidence'
    BY <1>1, <1>11 DEF StartPoll, Scan, StartReserve, Restart, Crash, brokerVars
  <1>12. CASE Tick \/ UNCHANGED vars
    BY <1>1, <1>12 DEF Tick, vars, brokerVars
  <1> QED BY <1>5, <1>6, <1>7, <1>8, <1>9, <1>10, <1>11, <1>12 DEF Next, Poll

\* A task shown as dead or retrying has a failure reason, and one shown as
\* succeeded has a result and no reason, however late the report that wrote the
\* status was.
THEOREM StatusesHaveEvidence == Spec => []StatusEvidence
  <1>1. Init => StatusEvidence
    BY DEF Init, BrokerInit, StatusEvidence
  <1>2. TypeOK /\ StatusEvidence /\ [Next]_vars => StatusEvidence'
    BY EvidenceStep
  <1> QED BY <1>1, <1>2, TypeCorrect, PTL DEF Spec

-----------------------------------------------------------------------------
(* No delayed task is early.                                               *)

\* The time a tick works with was read from the worker's clock, and that clock
\* has not gone back since.
PollTimePast == \A w \in Workers : now_ms[w] <= NowUnixMs(w)

\* Every action keeps the ticks' times in the past of their clocks.
LEMMA PollTimeStep ==
    ASSUME TypeOK, PollTimePast, [Next]_vars
    PROVE  PollTimePast'
  <1>0. /\ clock \in Nat /\ now_ms \in [Workers -> Nat]
        /\ \A w \in Workers : Skew[w] \in Nat
    BY WorkerAssumption DEF TypeOK, Time
  <1>1. CASE UNCHANGED <<clock, now_ms>>
    BY <1>1 DEF PollTimePast, NowUnixMs
  <1>2. CASE Tick
    BY <1>0, <1>2, SMTT(60) DEF Tick, workerVars, PollTimePast, NowUnixMs
  <1>3. ASSUME NEW w \in Workers, clock' = clock, NEW time \in Nat,
               now_ms' = [now_ms EXCEPT ![w] = time], time <= NowUnixMs(w)
        PROVE  PollTimePast'
    BY <1>0, <1>3 DEF PollTimePast, NowUnixMs
  <1>4. ASSUME NEW w \in Workers
        PROVE  0 <= NowUnixMs(w) /\ NowUnixMs(w) \in Nat
    BY <1>0, SMTT(60) DEF NowUnixMs
  <1>5. ASSUME NEW w \in Workers, Poll(w) \/ Crash(w) \/ Restart(w)
        PROVE  PollTimePast'
    BY <1>1, <1>3, <1>4, <1>5, SMTT(60)
       DEF Poll, StartPoll, Promote, Scan, Reclaim, StartReserve, Reserve,
           Crash, Restart
  <1>6. ASSUME NEW w \in Workers, NEW th \in Threads, ProcessTask(w, th)
        PROVE  PollTimePast'
    BY <1>1, <1>6 DEF ProcessTask, FailUnknown, Ack, Retry, Fail, Report
  <1>7. ASSUME NEW t \in Tasks, ClientEnqueue(t) \/ ClientRetryDead(t)
        PROVE  PollTimePast'
    BY <1>1, <1>7 DEF ClientEnqueue, ClientRetryDead, workerVars
  <1>8. CASE UNCHANGED vars
    BY <1>1, <1>8 DEF vars, workerVars
  <1> QED BY <1>2, <1>5, <1>6, <1>7, <1>8 DEF Next

\* The time a tick works with is never ahead of its worker's clock.
LEMMA PollTimeInvariant == Spec => []PollTimePast
  <1>1. Init => PollTimePast
    BY WorkerAssumption, SMTT(60) DEF Init, PollTimePast, NowUnixMs
  <1>2. TypeOK /\ PollTimePast /\ [Next]_vars => PollTimePast'
    BY PollTimeStep
  <1> QED BY <1>1, <1>2, TypeCorrect, PTL DEF Spec

\* Only the two promotions take a message out of the sorted set, and they take
\* one that was due when the tick read its clock.
LEMMA OnlyDueLeaves ==
    ASSUME TypeOK, PollTimePast, [Next]_vars, NEW m \in delayed \ delayed'
    PROVE  \E w \in Workers : m.run_at <= NowUnixMs(w)
  <1>1. ASSUME NEW w \in Workers, Promote(w)
        PROVE  m.run_at <= NowUnixMs(w)
    <2>1. m \in Due(now_ms[w])
      BY <1>1
         DEF Promote, PromoteOneScript, PromoteDropScript, FirstDue, brokerVars
    <2>2. m.run_at \in Nat /\ now_ms[w] \in Nat /\ NowUnixMs(w) \in Nat
      BY NowIsTime DEF TypeOK, BrokerTypeOK, Time
    <2> QED BY <2>1, <2>2, SMTT(60) DEF Due, PollTimePast
  <1>2. ASSUME NEW w \in Workers,
               StartPoll(w) \/ Scan(w) \/ (\E t \in Tasks : Reclaim(w, t))
                   \/ StartReserve(w) \/ Reserve(w) \/ Crash(w) \/ Restart(w)
        PROVE  FALSE
    BY <1>2
       DEF StartPoll, Scan, Reclaim, ReclaimOneScript, StartReserve, Reserve,
           ReserveScript, ReserveDropScript, Crash, Restart, brokerVars
  <1>3. ASSUME NEW w \in Workers, NEW th \in Threads, ProcessTask(w, th)
        PROVE  FALSE
    BY <1>3
       DEF ProcessTask, FailUnknown, Ack, Retry, Fail, FailScript, AckScript,
           RetryScript
  <1>4. ASSUME NEW t \in Tasks, ClientEnqueue(t) \/ ClientRetryDead(t)
        PROVE  FALSE
    BY <1>4 DEF ClientEnqueue, Enqueue, ClientRetryDead, RetryDeadTaskScript
  <1>5. CASE Tick \/ UNCHANGED vars
    BY <1>5 DEF Tick, vars, brokerVars
  <1> QED BY <1>1, <1>2, <1>3, <1>4, <1>5 DEF Next, Poll

\* A delayed or retried task leaves taskq:delayed only when some worker's clock
\* has reached its run_at_ms, whatever the workers' clocks are.
THEOREM DelaysAreRespected == Spec => DelayRespected
  <1>1. TypeOK /\ PollTimePast /\ [Next]_vars
            => [\A m \in delayed \ delayed' :
                    \E w \in Workers : m.run_at <= NowUnixMs(w)]_vars
    BY OnlyDueLeaves
  <1> QED BY <1>1, TypeCorrect, PollTimeInvariant, PTL DEF Spec, DelayRespected

-----------------------------------------------------------------------------
(* Lists that hold a task at most once.                                    *)

\* LPUSH of an id that a list does not have leaves every id at most once.
LEMMA OnceAppend ==
    ASSUME NEW list \in Seq(TaskMessage), NEW e \in TaskMessage, NEW u,
           AtMostOnce(list, u), e.id = u => ~InList(list, u)
    PROVE  AtMostOnce(Append(list, e), u)
  <1> DEFINE longer == Append(list, e)
  <1>1. /\ Len(list) \in Nat
        /\ Len(longer) = Len(list) + 1
        /\ \A i \in 1..Len(list) : longer[i] = list[i]
        /\ longer[Len(list) + 1] = e
    BY AppendFacts, ListElements, SMTT(60)
  <1> HIDE DEF longer
  <1>2. SUFFICES ASSUME NEW i \in 1..Len(longer), NEW j \in 1..Len(longer),
                        longer[i].id = u, longer[j].id = u
                 PROVE  i = j
    BY DEF AtMostOnce, longer
  <1>3. CASE i \in 1..Len(list) /\ j \in 1..Len(list)
    BY <1>1, <1>2, <1>3 DEF AtMostOnce
  <1>4. CASE i = Len(list) + 1 \/ j = Len(list) + 1
    BY <1>1, <1>2, <1>4, SMTT(60) DEF InList
  <1> QED BY <1>1, <1>3, <1>4, SMTT(60)

\* RPOP leaves every id at most once, and the one it pops not at all.
LEMMA OnceTail ==
    ASSUME NEW list \in Seq(TaskMessage), list # <<>>, NEW u, AtMostOnce(list, u)
    PROVE  /\ AtMostOnce(Tail(list), u)
           /\ Head(list).id = u => ~InList(Tail(list), u)
  <1> DEFINE rest == Tail(list)
  <1>1. /\ Len(list) \in Nat \ {0}
        /\ Len(rest) = Len(list) - 1
        /\ Head(list) = list[1]
        /\ \A i \in 1..Len(rest) : rest[i] = list[i + 1]
    BY TailFacts, ListElements
  <1> HIDE DEF rest
  <1>2. AtMostOnce(rest, u)
    <2>1. SUFFICES ASSUME NEW i \in 1..Len(rest), NEW j \in 1..Len(rest),
                          rest[i].id = u, rest[j].id = u
                   PROVE  i = j
      BY DEF AtMostOnce
    <2>2. i + 1 \in 1..Len(list) /\ j + 1 \in 1..Len(list)
      BY <1>1, SMTT(60)
    <2>3. list[i + 1].id = u /\ list[j + 1].id = u
      BY <1>1, <2>1
    <2>4. i + 1 = j + 1
      BY <2>2, <2>3 DEF AtMostOnce
    <2> QED BY <1>1, <2>4, SMTT(60)
  <1>3. ASSUME Head(list).id = u, NEW i \in 1..Len(rest), rest[i].id = u
        PROVE  FALSE
    <2>1. 1 \in 1..Len(list) /\ i + 1 \in 1..Len(list)
      BY <1>1, SMTT(60)
    <2>2. list[1].id = u /\ list[i + 1].id = u
      BY <1>1, <1>3
    <2>3. i + 1 = 1
      BY <2>1, <2>2 DEF AtMostOnce
    <2> QED BY <1>1, <2>3, SMTT(60)
  <1> QED BY <1>2, <1>3 DEF InList, rest

\* So does LREM, for the one it takes.
LEMMA OnceWithout ==
    ASSUME NEW list \in Seq(TaskMessage), NEW k \in 1..Len(list), NEW u,
           AtMostOnce(list, u)
    PROVE  /\ AtMostOnce(WithoutIndex(list, k), u)
           /\ list[k].id = u => ~InList(WithoutIndex(list, k), u)
  <1> DEFINE rest == WithoutIndex(list, k)
  <1>1. /\ Len(list) \in Nat
        /\ Len(rest) = Len(list) - 1
        /\ \A i \in 1..Len(rest) : rest[i] = IF i < k THEN list[i] ELSE list[i + 1]
    BY WithoutIndexFacts, ListElements
  <1> HIDE DEF rest
  <1> DEFINE At(i) == IF i < k THEN i ELSE i + 1
  <1>2. \A i \in 1..Len(rest) : /\ At(i) \in 1..Len(list)
                                /\ At(i) # k
                                /\ rest[i] = list[At(i)]
    BY <1>1, SMTT(60)
  <1>3. \A i, j \in 1..Len(rest) : At(i) = At(j) => i = j
    BY <1>1, SMTT(60)
  <1> HIDE DEF At
  <1>4. ASSUME NEW i \in 1..Len(rest), NEW j \in 1..Len(rest),
               rest[i].id = u, rest[j].id = u
        PROVE  i = j
    <2>1. At(i) = At(j)
      BY <1>2, <1>4 DEF AtMostOnce
    <2> QED BY <1>3, <2>1
  <1>5. list[k].id = u => ~InList(rest, u)
    BY <1>2 DEF AtMostOnce, InList
  <1> QED BY <1>4, <1>5 DEF rest, AtMostOnce

-----------------------------------------------------------------------------
(* One place, as a condition on the values of the keys.                    *)

\* A task u with these values of the keys is in one place, and there once, and
\* its status st names the place.
Fits(p, d, r, x, st, res, u) ==
    LET Delayed == \E m \in d : m.id = u IN
    /\ AtMostOnce(p, u) /\ AtMostOnce(x, u)
    /\ \A m, n \in d : m.id = u /\ n.id = u => m = n
    /\ InList(p, u) => ~Delayed /\ r = Null /\ ~InList(x, u) /\ st = "pending"
    /\ Delayed => r = Null /\ ~InList(x, u)
    /\ \A m \in d : m.id = u =>
           st = IF m.retry_count = 0 THEN "pending" ELSE "retrying"
    /\ r # Null => ~InList(x, u) /\ st = "running"
    /\ InList(x, u) => st = "dead"
    /\ res # "none" => /\ ~InList(p, u) /\ ~Delayed /\ r = Null /\ ~InList(x, u)
                       /\ st = "succeeded"

OnePlace(u) ==
    Fits(pending, delayed, running[u], dead, status[u], results[u], u)

\* A task that has lost copies only, its status unchanged, still fits.
LEMMA FewerFit ==
    ASSUME NEW u, NEW p, NEW d, NEW r, NEW x, NEW st, NEW res,
           NEW p2, NEW d2, NEW r2, NEW x2,
           Fits(p, d, r, x, st, res, u),
           AtMostOnce(p2, u), InList(p2, u) => InList(p, u),
           AtMostOnce(x2, u), InList(x2, u) => InList(x, u),
           \A m \in d2 : m.id = u => m \in d,
           r2 = r \/ r2 = Null
    PROVE  Fits(p2, d2, r2, x2, st, res, u)
  BY DEF Fits

\* What OnePlace says of the next state.
LEMMA OnePlaceNext ==
    ASSUME NEW u,
           Fits(pending', delayed', running'[u], dead', status'[u], results'[u], u)
    PROVE  OnePlace(u)'
  BY DEF OnePlace, Fits, AtMostOnce, InList

\* SingleCopy and StatusMatchesPlace say that every task without a late report
\* is in one place.
LEMMA OnePlaceMeans ==
    (\A u \in Tasks \ late : OnePlace(u)) <=> SingleCopy /\ StatusMatchesPlace
  BY DEF OnePlace, Fits, SingleCopy, StatusMatchesPlace, InDelayed, IsQueued

-----------------------------------------------------------------------------
(* Each script keeps a task in one place.                                  *)

\* What an append changes for a task: the list gains it if it is the message's.
LEMMA AppendPlaces ==
    ASSUME NEW list \in Seq(TaskMessage), NEW e \in TaskMessage, NEW u,
           AtMostOnce(list, u)
    PROVE  /\ e.id = u /\ ~InList(list, u) => /\ AtMostOnce(Append(list, e), u)
                                              /\ InList(Append(list, e), u)
           /\ e.id # u => /\ AtMostOnce(Append(list, e), u)
                          /\ InList(Append(list, e), u) => InList(list, u)
  BY OnceAppend, InListAppend

\* The enqueue transaction, of a task that has no status yet.
LEMMA EnqueuePlaces ==
    ASSUME BrokerTypeOK, NEW u \in Tasks, OnePlace(u), NEW t \in Tasks,
           NEW run_at, NEW now, status[t] = "none", Enqueue(t, run_at, now)
    PROVE  OnePlace(u)'
  <1> DEFINE d == [id |-> t, retry_count |-> 0, run_at |-> run_at,
                   reserved_at |-> Null]
             e == [id |-> t, retry_count |-> 0, run_at |-> Null,
                   reserved_at |-> Null]
  <1>1. /\ pending \in Seq(TaskMessage) /\ e \in TaskMessage
        /\ e.id = t /\ d.id = t /\ d.retry_count = 0
        /\ status \in [Tasks -> TaskStatus]
    BY FreshMessage DEF BrokerTypeOK
  <1>2. \/ delayed' = delayed \cup {d} /\ pending' = pending
        \/ pending' = Append(pending, e) /\ delayed' = delayed
    BY DEF Enqueue
  <1>3. /\ status' = [status EXCEPT ![t] = "pending"]
        /\ running' = running /\ results' = results /\ dead' = dead
    BY DEF Enqueue
  <1> HIDE DEF d, e
  <1>4. AtMostOnce(pending, u) /\ AtMostOnce(dead, u)
    BY DEF OnePlace, Fits
  <1>5. CASE u # t
    <2>1. /\ AtMostOnce(pending', u)
          /\ InList(pending', u) => InList(pending, u)
      BY <1>1, <1>2, <1>4, <1>5, AppendPlaces
    <2>2. \A m \in delayed' : m.id = u => m \in delayed
      BY <1>1, <1>2, <1>5
    <2>3. status'[u] = status[u]
      BY <1>1, <1>3, <1>5
    <2>4. Fits(pending', delayed', running[u], dead, status[u], results[u], u)
      BY <1>4, <2>1, <2>2, FewerFit DEF OnePlace
    <2> QED BY <1>3, <2>3, <2>4, OnePlaceNext
  <1>6. CASE u = t
    <2>1. /\ ~InList(pending, u) /\ ~InList(dead, u) /\ running[u] = Null
          /\ results[u] = "none"
          /\ \A m \in delayed : m.id # u
      BY <1>6 DEF OnePlace, Fits
    <2>2. status'[u] = "pending"
      BY <1>1, <1>3, <1>6
    <2>3. CASE delayed' = delayed \cup {d} /\ pending' = pending
      <3>1. \A m \in delayed' : m.id = u => m = d
        BY <2>1, <2>3
      <3>2. Fits(pending', delayed', running'[u], dead', status'[u], results'[u], u)
        BY <1>1, <1>3, <1>4, <2>1, <2>2, <2>3, <3>1 DEF Fits
      <3> QED BY <3>2, OnePlaceNext
    <2>4. CASE pending' = Append(pending, e) /\ delayed' = delayed
      <3>1. AtMostOnce(pending', u)
        BY <1>1, <1>4, <1>6, <2>1, <2>4, AppendPlaces
      <3>2. Fits(pending', delayed', running'[u], dead', status'[u], results'[u], u)
        BY <1>3, <1>4, <2>1, <2>2, <2>4, <3>1 DEF Fits
      <3> QED BY <3>2, OnePlaceNext
    <2> QED BY <1>2, <2>3, <2>4
  <1> QED BY <1>5, <1>6

\* A message appended to pending, its task's status set to match, when the
\* script has taken the task's only copy from where it was.
LEMMA ToPending ==
    ASSUME BrokerTypeOK, NEW u \in Tasks, OnePlace(u), NEW e \in TaskMessage,
           pending' = Append(pending, e),
           status' = [status EXCEPT ![e.id] = "pending"], results' = results,
           AtMostOnce(dead', u), InList(dead', u) => InList(dead, u),
           delayed' \subseteq delayed,
           running'[u] = running[u] \/ running'[u] = Null,
           e.id = u => /\ ~InList(pending, u) /\ ~InList(dead', u)
                       /\ running'[u] = Null /\ results[u] = "none"
                       /\ \A m \in delayed' : m.id # u
    PROVE  OnePlace(u)'
  <1>1. /\ pending \in Seq(TaskMessage) /\ AtMostOnce(pending, u)
        /\ status \in [Tasks -> TaskStatus] /\ e.id \in Tasks
    BY DEF BrokerTypeOK, OnePlace, Fits, TaskMessage
  <1>2. CASE e.id # u
    <2>1. AtMostOnce(pending', u) /\ (InList(pending', u) => InList(pending, u))
      BY <1>1, <1>2, AppendPlaces
    <2>2. status'[u] = status[u]
      BY <1>1, <1>2
    <2>3. Fits(pending', delayed', running'[u], dead', status[u], results[u], u)
      BY <2>1, FewerFit DEF OnePlace
    <2> QED BY <2>2, <2>3, OnePlaceNext
  <1>3. CASE e.id = u
    <2>1. AtMostOnce(pending', u)
      BY <1>1, <1>3, AppendPlaces
    <2>2. status'[u] = "pending"
      BY <1>1, <1>3
    <2>3. Fits(pending', delayed', running'[u], dead', status'[u], results'[u], u)
      BY <1>3, <2>1, <2>2 DEF Fits
    <2> QED BY <2>3, OnePlaceNext
  <1> QED BY <1>2, <1>3

\* kPromoteOneScript moves the task's only delayed message.
LEMMA PromoteOnePlaces ==
    ASSUME BrokerTypeOK, NEW u \in Tasks, OnePlace(u), NEW m \in delayed, NEW now,
           PromoteOneScript(m, now)
    PROVE  OnePlace(u)'
  <1> DEFINE e == [m EXCEPT !.run_at = Null]
  <1>1. e \in TaskMessage /\ e.id = m.id
    BY DEF BrokerTypeOK, TaskMessage
  <1>2. /\ pending' = Append(pending, e)
        /\ status' = [status EXCEPT ![e.id] = "pending"]
        /\ delayed' = delayed \ {m}
        /\ running' = running /\ results' = results /\ dead' = dead
    BY <1>1 DEF PromoteOneScript
  <1> HIDE DEF e
  <1>3. AtMostOnce(dead', u)
    BY <1>2 DEF OnePlace, Fits
  <1>4. e.id = u => /\ ~InList(pending, u) /\ ~InList(dead', u)
                    /\ running'[u] = Null /\ results[u] = "none"
                    /\ \A n \in delayed' : n.id # u
    BY <1>1, <1>2 DEF OnePlace, Fits
  <1> QED BY <1>1, <1>2, <1>3, <1>4, ToPending

\* kReclaimOneScript moves the task's running entry.
LEMMA ReclaimPlaces ==
    ASSUME BrokerTypeOK, RunningKeyed, NEW u \in Tasks, OnePlace(u),
           NEW t \in Tasks, NEW now, NEW timeout, ReclaimOneScript(t, now, timeout)
    PROVE  OnePlace(u)'
  <1> DEFINE e == [running[t] EXCEPT !.reserved_at = Null]
  <1>0. running[t] \in TaskMessage /\ running[t].id = t
    BY DEF BrokerTypeOK, RunningKeyed, ReclaimOneScript, IsStale
  <1>1. e \in TaskMessage /\ e.id = t
    BY <1>0 DEF TaskMessage
  <1>2. /\ pending' = Append(pending, e)
        /\ status' = [status EXCEPT ![e.id] = "pending"]
        /\ running' = [running EXCEPT ![t] = Null]
        /\ delayed' = delayed /\ results' = results /\ dead' = dead
    BY <1>1 DEF ReclaimOneScript
  <1> HIDE DEF e
  <1>3. AtMostOnce(dead', u)
    BY <1>2 DEF OnePlace, Fits
  <1>4. running'[u] = IF u = t THEN Null ELSE running[u]
    BY <1>2 DEF BrokerTypeOK
  <1>5. running[t] # Null
    BY DEF ReclaimOneScript, IsStale
  <1>6. e.id = u => /\ ~InList(pending, u) /\ ~InList(dead', u)
                    /\ running'[u] = Null /\ results[u] = "none"
                    /\ \A n \in delayed' : n.id # u
    BY <1>1, <1>2, <1>4, <1>5 DEF OnePlace, Fits
  <1> QED BY <1>1, <1>2, <1>3, <1>4, <1>6, ToPending

\* kRetryDeadTaskScript moves the task's only dead message.
LEMMA RetryDeadPlaces ==
    ASSUME BrokerTypeOK, NEW u \in Tasks, OnePlace(u), NEW t \in Tasks,
           RetryDeadTaskScript(t)
    PROVE  OnePlace(u)'
  <1> DEFINE e == [id |-> t, retry_count |-> 0, run_at |-> Null,
                   reserved_at |-> Null]
  <1>1. e \in TaskMessage /\ e.id = t /\ dead \in Seq(TaskMessage)
    BY FreshMessage DEF BrokerTypeOK
  <1>2. PICK i \in 1..Len(dead) : dead[i].id = t /\ dead' = WithoutIndex(dead, i)
    BY DEF RetryDeadTaskScript
  <1>3. /\ pending' = Append(pending, e)
        /\ status' = [status EXCEPT ![e.id] = "pending"]
        /\ delayed' = delayed /\ results' = results /\ running' = running
    BY DEF RetryDeadTaskScript
  <1> HIDE DEF e
  <1>4. AtMostOnce(dead, u)
    BY DEF OnePlace, Fits
  <1>5. /\ AtMostOnce(dead', u)
        /\ t = u => ~InList(dead', u)
        /\ InList(dead', u) => InList(dead, u)
    BY <1>1, <1>2, <1>4, OnceWithout, InListWithout
  <1>6. InList(dead, t)
    BY <1>2 DEF InList
  <1>7. e.id = u => /\ ~InList(pending, u) /\ ~InList(dead', u)
                    /\ running'[u] = Null /\ results[u] = "none"
                    /\ \A n \in delayed' : n.id # u
    BY <1>1, <1>3, <1>5, <1>6 DEF OnePlace, Fits
  <1> QED BY <1>1, <1>3, <1>5, <1>7, ToPending

\* The scripts that find a message they cannot decode only take it away.
LEMMA DropPlaces ==
    ASSUME BrokerTypeOK, NEW u \in Tasks, OnePlace(u),
           \/ \E m \in delayed, now \in Time : PromoteDropScript(m, now)
           \/ ReserveDropScript
    PROVE  OnePlace(u)'
  <1>1. /\ pending \in Seq(TaskMessage)
        /\ AtMostOnce(pending, u) /\ AtMostOnce(dead, u)
    BY DEF BrokerTypeOK, OnePlace, Fits
  <1>2. /\ delayed' \subseteq delayed
        /\ pending' = pending \/ (pending # <<>> /\ pending' = Tail(pending))
        /\ running' = running /\ status' = status /\ results' = results
        /\ dead' = dead
    <2>1. CASE \E m \in delayed, now \in Time : PromoteDropScript(m, now)
      BY <2>1 DEF PromoteDropScript
    <2>2. CASE ReserveDropScript
      BY <2>2 DEF ReserveDropScript
    <2> QED BY <2>1, <2>2
  <1>3. AtMostOnce(pending', u) /\ (InList(pending', u) => InList(pending, u))
    <2>1. CASE pending' = pending
      BY <1>1, <2>1
    <2>2. CASE pending # <<>> /\ pending' = Tail(pending)
      BY <1>1, <2>2, OnceTail, InListTail
    <2> QED BY <1>2, <2>1, <2>2
  <1>4. Fits(pending', delayed', running[u], dead, status[u], results[u], u)
    BY <1>1, <1>2, <1>3, FewerFit DEF OnePlace
  <1> QED BY <1>2, <1>4, OnePlaceNext

\* kReserveScript moves the task's only pending message.
LEMMA ReservePlaces ==
    ASSUME BrokerTypeOK, NEW u \in Tasks, OnePlace(u), NEW now \in Time,
           ReserveScript(now)
    PROVE  OnePlace(u)'
  <1> DEFINE m == Reservable(now)
  <1>1. /\ m \in TaskMessage /\ m.id = Head(pending).id /\ m.id \in Tasks
        /\ pending # <<>> /\ pending \in Seq(TaskMessage)
    BY ReservableFacts DEF ReserveScript, BrokerTypeOK, TaskMessage
  <1>2. /\ pending' = Tail(pending)
        /\ running' = [running EXCEPT ![m.id] = m]
        /\ status' = [status EXCEPT ![m.id] = "running"]
        /\ delayed' = delayed /\ results' = results /\ dead' = dead
    BY DEF ReserveScript
  <1> HIDE DEF m
  <1>3. /\ AtMostOnce(pending, u) /\ AtMostOnce(dead, u)
        /\ running \in [Tasks -> TaskMessage \cup {Null}]
        /\ status \in [Tasks -> TaskStatus]
    BY DEF OnePlace, Fits, BrokerTypeOK
  <1>4. /\ AtMostOnce(pending', u)
        /\ InList(pending', u) => InList(pending, u)
        /\ m.id = u => InList(pending, u) /\ ~InList(pending', u)
    BY <1>1, <1>2, <1>3, OnceTail, InListTail
  <1>5. CASE m.id # u
    <2>1. running'[u] = running[u] /\ status'[u] = status[u]
      BY <1>1, <1>2, <1>3, <1>5
    <2>2. Fits(pending', delayed, running[u], dead, status[u], results[u], u)
      BY <1>3, <1>4, FewerFit DEF OnePlace
    <2> QED BY <1>2, <2>1, <2>2, OnePlaceNext
  <1>6. CASE m.id = u
    <2>1. /\ ~InList(dead, u) /\ results[u] = "none"
          /\ \A n \in delayed : n.id # u
      BY <1>4, <1>6 DEF OnePlace, Fits
    <2>2. status'[u] = "running"
      BY <1>1, <1>2, <1>3, <1>6
    <2>3. Fits(pending', delayed', running'[u], dead', status'[u], results'[u], u)
      BY <1>2, <1>3, <1>4, <1>6, <2>1, <2>2 DEF Fits
    <2> QED BY <2>3, OnePlaceNext
  <1> QED BY <1>5, <1>6

\* The places of a task that has a running entry.
LEMMA RunningOnly ==
    ASSUME NEW t, OnePlace(t), running[t] # Null
    PROVE  /\ ~InList(pending, t) /\ ~InList(dead, t) /\ results[t] = "none"
           /\ \A m \in delayed : m.id # t
  BY DEF OnePlace, Fits

\* kRetryScript, called for a task that has a running entry, moves it.
LEMMA RetryPlaces ==
    ASSUME BrokerTypeOK, NEW u \in Tasks, OnePlace(u), NEW m \in DelayedMessage,
           m.retry_count # 0, m.id = u => running[u] # Null, RetryScript(m)
    PROVE  OnePlace(u)'
  <1>1. /\ AtMostOnce(pending, u) /\ AtMostOnce(dead, u)
        /\ running \in [Tasks -> TaskMessage \cup {Null}]
        /\ status \in [Tasks -> TaskStatus] /\ m.id \in Tasks
    BY DEF OnePlace, Fits, BrokerTypeOK, DelayedMessage
  <1>2. /\ running' = [running EXCEPT ![m.id] = Null]
        /\ status' = [status EXCEPT ![m.id] = "retrying"]
        /\ delayed' = delayed \cup {m}
        /\ pending' = pending /\ results' = results /\ dead' = dead
    BY DEF RetryScript
  <1>3. CASE m.id # u
    <2>1. running'[u] = running[u] /\ status'[u] = status[u]
      BY <1>1, <1>2, <1>3
    <2>2. Fits(pending, delayed', running[u], dead, status[u], results[u], u)
      BY <1>1, <1>2, <1>3, FewerFit, SMTT(60) DEF OnePlace
    <2> QED BY <1>2, <2>1, <2>2, OnePlaceNext
  <1>4. CASE m.id = u
    <2>1. running'[u] = Null /\ status'[u] = "retrying"
      BY <1>1, <1>2, <1>4
    <2>2. /\ ~InList(pending, u) /\ ~InList(dead, u) /\ results[u] = "none"
          /\ \A n \in delayed' : n.id = u => n = m
      BY <1>2, <1>4, RunningOnly
    <2>3. Fits(pending', delayed', running'[u], dead', status'[u], results'[u], u)
      BY <1>1, <1>2, <2>1, <2>2 DEF Fits
    <2> QED BY <2>3, OnePlaceNext
  <1> QED BY <1>3, <1>4

\* kFailScript, called for a task that has a running entry, moves it.
LEMMA FailPlaces ==
    ASSUME BrokerTypeOK, RunningKeyed, NEW u \in Tasks, OnePlace(u), NEW t \in Tasks,
           t = u => running[u] # Null, FailScript(t)
    PROVE  OnePlace(u)'
  <1>1. /\ AtMostOnce(pending, u) /\ AtMostOnce(dead, u)
        /\ running \in [Tasks -> TaskMessage \cup {Null}]
        /\ status \in [Tasks -> TaskStatus] /\ dead \in Seq(TaskMessage)
    BY DEF OnePlace, Fits, BrokerTypeOK
  <1>2. /\ running' = [running EXCEPT ![t] = Null]
        /\ status' = [status EXCEPT ![t] = "dead"]
        /\ \/ running[t] # Null /\ dead' = Append(dead, running[t])
           \/ running[t] = Null /\ dead' = dead
        /\ pending' = pending /\ results' = results /\ delayed' = delayed
    BY DEF FailScript
  <1>3. running[t] # Null => running[t] \in TaskMessage /\ running[t].id = t
    BY <1>1 DEF RunningKeyed
  <1>4. CASE t # u
    <2>1. running'[u] = running[u] /\ status'[u] = status[u]
      BY <1>1, <1>2, <1>4
    <2>2. AtMostOnce(dead', u) /\ (InList(dead', u) => InList(dead, u))
      BY <1>1, <1>2, <1>3, <1>4, AppendPlaces
    <2>3. Fits(pending, delayed, running[u], dead', status[u], results[u], u)
      BY <1>1, <2>2, FewerFit DEF OnePlace
    <2> QED BY <1>2, <2>1, <2>3, OnePlaceNext
  <1>5. CASE t = u
    <2>1. running'[u] = Null /\ status'[u] = "dead"
      BY <1>1, <1>2, <1>5
    <2>2. /\ ~InList(pending, u) /\ ~InList(dead, u) /\ results[u] = "none"
          /\ \A n \in delayed : n.id # u
      BY <1>5, RunningOnly
    <2>3. AtMostOnce(dead', u)
      <3>1. /\ running[t] \in TaskMessage /\ running[t].id = u
            /\ dead' = Append(dead, running[t])
        BY <1>2, <1>3, <1>5
      <3> QED BY <1>1, <2>2, <3>1, OnceAppend
    <2>4. Fits(pending', delayed', running'[u], dead', status'[u], results'[u], u)
      BY <1>1, <1>2, <2>1, <2>2, <2>3 DEF Fits
    <2> QED BY <2>4, OnePlaceNext
  <1> QED BY <1>4, <1>5

\* kAckScript, called for a task that has a running entry, leaves it in no place.
LEMMA AckPlaces ==
    ASSUME BrokerTypeOK, NEW u \in Tasks, OnePlace(u), NEW t \in Tasks,
           t = u => running[u] # Null, AckScript(t)
    PROVE  OnePlace(u)'
  <1>1. /\ AtMostOnce(pending, u) /\ AtMostOnce(dead, u)
        /\ running \in [Tasks -> TaskMessage \cup {Null}]
        /\ status \in [Tasks -> TaskStatus] /\ results \in [Tasks -> ResultPayload]
    BY DEF OnePlace, Fits, BrokerTypeOK
  <1>2. /\ running' = [running EXCEPT ![t] = Null]
        /\ status' = [status EXCEPT ![t] = "succeeded"]
        /\ results' = [results EXCEPT ![t] = "empty"]
        /\ pending' = pending /\ dead' = dead /\ delayed' = delayed
    BY DEF AckScript
  <1>3. CASE t # u
    <2>1. running'[u] = running[u] /\ status'[u] = status[u] /\ results'[u] = results[u]
      BY <1>1, <1>2, <1>3
    <2> QED BY <1>2, <2>1, OnePlaceNext DEF OnePlace
  <1>4. CASE t = u
    <2>1. running'[u] = Null /\ status'[u] = "succeeded"
      BY <1>1, <1>2, <1>4
    <2>2. /\ ~InList(pending, u) /\ ~InList(dead, u)
          /\ \A n \in delayed : n.id # u
      BY <1>4, RunningOnly
    <2>3. Fits(pending', delayed', running'[u], dead', status'[u], results'[u], u)
      BY <1>1, <1>2, <2>1, <2>2 DEF Fits
    <2> QED BY <2>3, OnePlaceNext
  <1> QED BY <1>3, <1>4

-----------------------------------------------------------------------------
(* SingleCopy and StatusMatchesPlace.                                      *)

PlacesInv == \A u \in Tasks \ late : OnePlace(u)

\* A thread that reports for a task without making it late finds its own message
\* in the running hash.
LEMMA TimelyReport ==
    ASSUME TypeOK, NEW w \in Workers, NEW th \in Threads, ProcessTask(w, th)
    PROVE  /\ hands[w][th] \in TaskMessage /\ hands[w][th].id \in Tasks
           /\ late \subseteq late'
           /\ hands[w][th].id \notin late' => running[hands[w][th].id] = hands[w][th]
  <1>1. Report(w, th)
    BY DEF ProcessTask, FailUnknown, Ack, Retry, Fail
  <1>2. hands[w][th] \in TaskMessage /\ hands[w][th].id \in Tasks
    BY <1>1 DEF Report, TypeOK, TaskMessage
  <1> QED BY <1>1, <1>2 DEF Report, HoldsLease

\* Late reports are not forgotten.
LEMMA LateGrows ==
    ASSUME TypeOK, [Next]_vars
    PROVE  late \subseteq late'
  <1>1. ASSUME NEW w \in Workers, NEW th \in Threads, ProcessTask(w, th)
        PROVE  late \subseteq late'
    BY <1>1, TimelyReport
  <1> QED BY <1>1
             DEF Next, Poll, ClientEnqueue, ClientRetryDead, StartPoll, Promote,
                 Scan, Reclaim, StartReserve, Reserve, Crash, Restart, Tick, vars

\* Every action keeps every task without a late report in one place.
LEMMA PlacesStep ==
    ASSUME NoTaskLostInv, PlacesInv, [Next]_vars
    PROVE  PlacesInv'
  <1>0. TypeOK /\ BrokerTypeOK /\ RunningKeyed
    BY DEF NoTaskLostInv, TypeOK
  <1>1. late \subseteq late'
    BY <1>0, LateGrows
  <1>2. SUFFICES ASSUME NEW u \in Tasks, u \notin late', OnePlace(u)
                 PROVE  OnePlace(u)'
    BY <1>1 DEF PlacesInv
  <1>3. CASE UNCHANGED brokerVars
    BY <1>2, <1>3 DEF brokerVars, OnePlace, Fits, AtMostOnce, InList
  <1>4. ASSUME NEW t \in Tasks, ClientEnqueue(t) \/ ClientRetryDead(t)
        PROVE  OnePlace(u)'
    BY <1>0, <1>2, <1>4, EnqueuePlaces, RetryDeadPlaces
       DEF ClientEnqueue, ClientRetryDead
  <1>5. ASSUME NEW w \in Workers, Promote(w), ~UNCHANGED brokerVars
        PROVE  OnePlace(u)'
    <2>1. now_ms[w] \in Time
      BY <1>0 DEF TypeOK
    <2> QED BY <1>0, <1>2, <1>5, <2>1, PromoteOnePlaces, DropPlaces DEF Promote
  <1>6. ASSUME NEW w \in Workers, NEW t \in Tasks, Reclaim(w, t),
               ~UNCHANGED brokerVars
        PROVE  OnePlace(u)'
    BY <1>0, <1>2, <1>6, ReclaimPlaces DEF Reclaim
  <1>7. ASSUME NEW w \in Workers, Reserve(w), ~UNCHANGED brokerVars
        PROVE  OnePlace(u)'
    <2>1. now_ms[w] \in Time
      BY <1>0 DEF TypeOK
    <2> QED BY <1>0, <1>2, <1>7, <2>1, ReservePlaces, DropPlaces DEF Reserve
  <1>8. ASSUME NEW w \in Workers, NEW th \in Threads, ProcessTask(w, th)
        PROVE  OnePlace(u)'
    <2> DEFINE m == hands[w][th]
    <2>1. /\ m \in TaskMessage /\ m.id \in Tasks
          /\ m.id = u => running[u] # Null
      BY <1>0, <1>2, <1>8, TimelyReport, NullAssumption, SMTT(60)
    <2>2. CASE FailScript(m.id)
      BY <1>0, <1>2, <2>1, <2>2, FailPlaces
    <2>3. CASE AckScript(m.id)
      BY <1>0, <1>2, <2>1, <2>3, AckPlaces
    <2>4. CASE Retry(w, th)
      <3>1. PICK n \in DelayedMessage :
                /\ RetryScript(n) /\ n.id = m.id
                /\ n.retry_count = m.retry_count + 1
        BY <1>0, <2>1, <2>4, RetryWrites
      <3>2. n.retry_count # 0
        BY <2>1, <3>1, SMTT(60) DEF TaskMessage
      <3> QED BY <1>0, <1>2, <2>1, <3>1, <3>2, RetryPlaces
    <2> QED BY <1>8, <2>2, <2>3, <2>4 DEF ProcessTask, FailUnknown, Ack, Fail
  <1>9. ASSUME NEW w \in Workers,
               StartPoll(w) \/ Scan(w) \/ StartReserve(w) \/ Crash(w) \/ Restart(w)
        PROVE  UNCHANGED brokerVars
    BY <1>9 DEF StartPoll, Scan, StartReserve, Crash, Restart
  <1>10. Tick \/ UNCHANGED vars => UNCHANGED brokerVars
    BY DEF Tick, vars
  <1> QED BY <1>3, <1>4, <1>5, <1>6, <1>7, <1>8, <1>9, <1>10 DEF Next, Poll

\* Before any late report of it, a task is in one place, under its status.
LEMMA PlacesInvariant == Spec => []PlacesInv
  <1>1. Init => PlacesInv
    BY SMTT(60)
       DEF Init, BrokerInit, PlacesInv, OnePlace, Fits, AtMostOnce, InList
  <1>2. NoTaskLostInv /\ PlacesInv /\ [Next]_vars => PlacesInv'
    BY PlacesStep
  <1> QED BY <1>1, <1>2, KeptInvariant, PTL DEF Spec

\* As long as no worker that had lost its lease has reported for a task, the
\* scripts have only ever moved it: it is in one key, and there once.
THEOREM TasksAreNotCopied == Spec => []SingleCopy
  <1>1. PlacesInv => SingleCopy
    BY OnePlaceMeans DEF PlacesInv
  <1> QED BY <1>1, PlacesInvariant, PTL

\* Under the same condition the status that the CLI shows names that key.
THEOREM StatusesNamePlaces == Spec => []StatusMatchesPlace
  <1>1. PlacesInv => StatusMatchesPlace
    BY OnePlaceMeans DEF PlacesInv
  <1> QED BY <1>1, PlacesInvariant, PTL

-----------------------------------------------------------------------------
(* LeaseExclusive.  The induction needs to know that a message in a         *)
(* thread's hands is the running entry of its task unless its lease is over. *)

\* The lease of m is over when the true time is c.
ExpiredAt(m, c) ==
    \E w \in Workers : (c + Skew[w]) - m.reserved_at > VisibilityTimeout[w]

\* The messages in hands h, when the running hash is r, the time c and the tasks
\* with late reports lt: each is stamped, and is the running entry or expired;
\* of two of one task one is expired.
Leases(h, r, c, lt) ==
    /\ \A w \in Workers, th \in Threads :
           h[w][th] # Null =>
               /\ h[w][th].reserved_at \in Nat
               /\ \/ h[w][th].id \in lt
                  \/ r[h[w][th].id] = h[w][th]
                  \/ ExpiredAt(h[w][th], c)
    /\ \A w, v \in Workers : \A th, tv \in Threads :
           /\ <<w, th>> # <<v, tv>>
           /\ h[w][th] # Null /\ h[v][tv] # Null
           /\ h[w][th].id = h[v][tv].id /\ h[w][th].id \notin lt
           => ExpiredAt(h[w][th], c) \/ ExpiredAt(h[v][tv], c)

LeasesInv == Leases(hands, running, clock, late)

\* The invariant in the next state, from the next values of what it reads.
LEMMA LeasesNext ==
    ASSUME Leases(hands', running', clock', late')
    PROVE  LeasesInv'
  BY DEF LeasesInv, Leases, ExpiredAt

\* A lease that is over stays over.
LEMMA StaysExpired ==
    ASSUME NEW c \in Nat, NEW d \in Nat, c <= d, NEW m, m.reserved_at \in Nat,
           ExpiredAt(m, c)
    PROVE  ExpiredAt(m, d)
  <1>1. PICK w \in Workers : (c + Skew[w]) - m.reserved_at > VisibilityTimeout[w]
    BY DEF ExpiredAt
  <1>2. Skew[w] \in Nat /\ VisibilityTimeout[w] \in Nat
    BY WorkerAssumption
  <1>3. (d + Skew[w]) - m.reserved_at > VisibilityTimeout[w]
    BY <1>1, <1>2, SMTT(60)
  <1> QED BY <1>3 DEF ExpiredAt

\* No thread gets a message, and the running entry of a task changes only if the
\* leases of all who work on it are over.
OnlyExpiredChange(h, r, c, h2, r2, lt2) ==
    \A w \in Workers, th \in Threads :
        /\ h2[w][th] \in {h[w][th], Null}
        /\ h2[w][th] # Null /\ h2[w][th].id \notin lt2 =>
               \/ r2[h2[w][th].id] = r[h2[w][th].id]
               \/ ExpiredAt(h2[w][th], c)

\* No new lease is given and time does not go back: the invariant holds after it.
LEMMA LeasesFewer ==
    ASSUME NEW h, NEW r, NEW c \in Nat, NEW lt, Leases(h, r, c, lt),
           NEW h2, NEW r2, NEW d \in Nat, NEW lt2, c <= d, lt \subseteq lt2,
           OnlyExpiredChange(h, r, c, h2, r2, lt2)
    PROVE  Leases(h2, r2, d, lt2)
  <1>1. ASSUME NEW w \in Workers, NEW th \in Threads, h2[w][th] # Null
        PROVE  /\ h2[w][th] = h[w][th]
               /\ h2[w][th].reserved_at \in Nat
               /\ ExpiredAt(h2[w][th], c) => ExpiredAt(h2[w][th], d)
               /\ \/ h2[w][th].id \in lt2
                  \/ r2[h2[w][th].id] = h2[w][th]
                  \/ ExpiredAt(h2[w][th], d)
    <2>1. h2[w][th] = h[w][th]
      BY <1>1 DEF OnlyExpiredChange
    <2>2. /\ h2[w][th].reserved_at \in Nat
          /\ \/ h2[w][th].id \in lt
             \/ r[h2[w][th].id] = h2[w][th]
             \/ ExpiredAt(h2[w][th], c)
      BY <1>1, <2>1 DEF Leases
    <2>3. ExpiredAt(h2[w][th], c) => ExpiredAt(h2[w][th], d)
      BY <2>2, StaysExpired
    <2>4. \/ h2[w][th].id \in lt2
          \/ r2[h2[w][th].id] = r[h2[w][th].id]
          \/ ExpiredAt(h2[w][th], c)
      BY <1>1 DEF OnlyExpiredChange
    <2> QED BY <2>1, <2>2, <2>3, <2>4
  <1>2. ASSUME NEW w \in Workers, NEW v \in Workers,
               NEW th \in Threads, NEW tv \in Threads, <<w, th>> # <<v, tv>>,
               h2[w][th] # Null, h2[v][tv] # Null,
               h2[w][th].id = h2[v][tv].id, h2[w][th].id \notin lt2
        PROVE  ExpiredAt(h2[w][th], d) \/ ExpiredAt(h2[v][tv], d)
    <2>1. h2[w][th] = h[w][th] /\ h2[v][tv] = h[v][tv]
      BY <1>2 DEF OnlyExpiredChange
    <2>2. ExpiredAt(h[w][th], c) \/ ExpiredAt(h[v][tv], c)
      BY <1>2, <2>1 DEF Leases
    <2> QED BY <1>1, <1>2, <2>1, <2>2
  <1> QED BY <1>1, <1>2 DEF Leases

\* kReclaimOneScript ends a lease that is over by the clock of the worker that
\* calls it, although it compares with the time read when the tick began.
LEMMA ReclaimedIsExpired ==
    ASSUME TypeOK, PollTimePast, NEW w \in Workers, NEW t \in Tasks,
           IsStale(t, now_ms[w], VisibilityTimeout[w])
    PROVE  ExpiredAt(running[t], clock)
  <1>1. running[t] \in TaskMessage
    BY DEF TypeOK, BrokerTypeOK, IsStale
  <1>2. running[t].reserved_at \in Nat
    BY <1>1 DEF IsStale, TaskMessage, Time
  <1>3. /\ now_ms[w] \in Nat /\ clock \in Nat
        /\ Skew[w] \in Nat /\ VisibilityTimeout[w] \in Nat
    BY WorkerAssumption DEF TypeOK, Time
  <1>4. /\ now_ms[w] <= clock + Skew[w]
        /\ now_ms[w] - running[t].reserved_at > VisibilityTimeout[w]
    BY DEF PollTimePast, NowUnixMs, IsStale
  <1>5. (clock + Skew[w]) - running[t].reserved_at > VisibilityTimeout[w]
    BY <1>2, <1>3, <1>4, SMTT(60)
  <1> QED BY <1>5 DEF ExpiredAt

\* A thread gets a message that has just become its task's running entry, the
\* leases of all others who work on the task being over.
LEMMA LeasesMore ==
    ASSUME NEW h \in [Workers -> [Threads -> TaskMessage \cup {Null}]],
           NEW r, NEW c \in Nat, NEW lt, Leases(h, r, c, lt),
           NEW w \in Workers, NEW th \in Threads, NEW m, m.reserved_at \in Nat,
           r[m.id] = m,
           \A v \in Workers, tv \in Threads :
               h[v][tv] # Null /\ h[v][tv].id = m.id /\ m.id \notin lt =>
                   ExpiredAt(h[v][tv], c)
    PROVE  Leases([h EXCEPT ![w][th] = m], r, c, lt)
  <1> DEFINE h2 == [h EXCEPT ![w][th] = m]
  <1>1. /\ h2[w][th] = m
        /\ \A v \in Workers, tv \in Threads :
               <<v, tv>> # <<w, th>> => h2[v][tv] = h[v][tv]
    OBVIOUS
  <1> HIDE DEF h2
  <1>2. ASSUME NEW v \in Workers, NEW tv \in Threads, h2[v][tv] # Null
        PROVE  /\ h2[v][tv].reserved_at \in Nat
               /\ \/ h2[v][tv].id \in lt
                  \/ r[h2[v][tv].id] = h2[v][tv]
                  \/ ExpiredAt(h2[v][tv], c)
    <2>1. CASE <<v, tv>> = <<w, th>>
      BY <1>1, <2>1
    <2>2. CASE <<v, tv>> # <<w, th>>
      BY <1>1, <1>2, <2>2 DEF Leases
    <2> QED BY <2>1, <2>2
  <1>3. ASSUME NEW v \in Workers, NEW x \in Workers,
               NEW tv \in Threads, NEW tx \in Threads, <<v, tv>> # <<x, tx>>,
               h2[v][tv] # Null, h2[x][tx] # Null,
               h2[v][tv].id = h2[x][tx].id, h2[v][tv].id \notin lt
        PROVE  ExpiredAt(h2[v][tv], c) \/ ExpiredAt(h2[x][tx], c)
    <2>1. CASE <<v, tv>> = <<w, th>>
      BY <1>1, <1>3, <2>1
    <2>2. CASE <<x, tx>> = <<w, th>>
      BY <1>1, <1>3, <2>2
    <2>3. CASE <<v, tv>> # <<w, th>> /\ <<x, tx>> # <<w, th>>
      BY <1>1, <1>3, <2>3, SMTT(60) DEF Leases
    <2> QED BY <2>1, <2>2, <2>3
  <1> QED BY <1>2, <1>3 DEF Leases, h2

\* Every action keeps the leases apart.
LEMMA LeasesStep ==
    ASSUME NoTaskLostInv, PlacesInv, PollTimePast, LeasesInv, [Next]_vars
    PROVE  LeasesInv'
  <1>0. /\ TypeOK /\ BrokerTypeOK
        /\ clock \in Nat /\ clock <= clock
        /\ hands \in [Workers -> [Threads -> TaskMessage \cup {Null}]]
        /\ running \in [Tasks -> TaskMessage \cup {Null}]
    BY SMTT(60) DEF NoTaskLostInv, TypeOK, BrokerTypeOK, Time
  <1>1. \A w \in Workers, th \in Threads : hands[w][th] # Null =>
            hands[w][th].id \in Tasks
    BY <1>0 DEF TaskMessage
  <1>2. ASSUME hands' = hands, running' = running, late' = late,
               clock' \in Nat, clock <= clock'
        PROVE  LeasesInv'
    <2>1. OnlyExpiredChange(hands, running, clock, hands', running', late')
      BY <1>2 DEF OnlyExpiredChange
    <2>2. Leases(hands', running', clock', late')
      BY <1>0, <1>2, <2>1, LeasesFewer DEF LeasesInv
    <2> QED BY <2>2, LeasesNext
  <1>3. ASSUME NEW w \in Workers, NEW t \in Tasks, Reclaim(w, t)
        PROVE  LeasesInv'
    <2>1. CASE ReclaimOneScript(t, now_ms[w], VisibilityTimeout[w])
      <3>1. /\ hands' = hands /\ late' = late /\ clock' = clock
            /\ running' = [running EXCEPT ![t] = Null]
        BY <1>3, <2>1 DEF Reclaim, ReclaimOneScript
      <3>2. ExpiredAt(running[t], clock)
        BY <1>0, <2>1, ReclaimedIsExpired DEF ReclaimOneScript
      <3>3. ASSUME NEW v \in Workers, NEW tv \in Threads,
                   hands[v][tv] # Null, hands[v][tv].id \notin late
            PROVE  \/ running'[hands[v][tv].id] = running[hands[v][tv].id]
                   \/ ExpiredAt(hands[v][tv], clock)
        <4>1. CASE hands[v][tv].id = t
          BY <3>2, <3>3, <4>1 DEF LeasesInv, Leases
        <4>2. CASE hands[v][tv].id # t
          BY <1>0, <1>1, <3>1, <3>3, <4>2
        <4> QED BY <4>1, <4>2
      <3>4. OnlyExpiredChange(hands, running, clock, hands', running', late')
        BY <3>1, <3>3 DEF OnlyExpiredChange
      <3>5. Leases(hands', running', clock', late')
        BY <1>0, <3>1, <3>4, LeasesFewer DEF LeasesInv
      <3> QED BY <3>5, LeasesNext
    <2>2. CASE UNCHANGED brokerVars
      BY <1>0, <1>2, <1>3, <2>2 DEF Reclaim, brokerVars
    <2> QED BY <1>3, <2>1, <2>2 DEF Reclaim
  <1>4. ASSUME NEW w \in Workers, Reserve(w)
        PROVE  LeasesInv'
    <2>1. CASE ReserveScript(now_ms[w])
      <3> DEFINE m == Reservable(now_ms[w])
      <3>1. /\ m \in TaskMessage /\ m.id \in Tasks /\ m.reserved_at \in Nat
            /\ InList(pending, m.id)
        <4>1. now_ms[w] \in Time /\ pending # <<>> /\ pending \in Seq(TaskMessage)
          BY <1>0, <2>1 DEF TypeOK, BrokerTypeOK, ReserveScript
        <4>2. m \in TaskMessage /\ m.id = Head(pending).id
          BY <1>0, <4>1, ReservableFacts
        <4>3. m.reserved_at = now_ms[w]
          <5>1. Head(pending) \in TaskMessage
            BY <4>1, TailFacts
          <5> QED BY <5>1 DEF Reservable, TaskMessage
        <4>4. InList(pending, m.id)
          BY <4>1, <4>2, InListTail
        <4> QED BY <4>1, <4>2, <4>3, <4>4 DEF TaskMessage, Time
      <3>2. /\ running' = [running EXCEPT ![m.id] = m]
            /\ late' = late /\ clock' = clock
        BY <1>4, <2>1 DEF Reserve, ReserveScript
      <3>3. \/ \E th \in Threads : hands' = [hands EXCEPT ![w][th] = m]
            \/ hands' = hands
        BY <1>4, <2>1
           DEF Reserve, FreeThreads, ReserveScript, ReserveDropScript,
               brokerVars
      <3> HIDE DEF m
      <3>4. ASSUME NEW v \in Workers, NEW tv \in Threads,
                   hands[v][tv] # Null, hands[v][tv].id = m.id, m.id \notin late
            PROVE  ExpiredAt(hands[v][tv], clock)
        <4>1. running[m.id] = Null
          BY <3>1, <3>4 DEF PlacesInv, OnePlace, Fits
        <4> QED BY <3>4, <4>1 DEF LeasesInv, Leases
      <3>5. ASSUME NEW v \in Workers, NEW tv \in Threads,
                   hands[v][tv] # Null, hands[v][tv].id \notin late
            PROVE  \/ running'[hands[v][tv].id] = running[hands[v][tv].id]
                   \/ ExpiredAt(hands[v][tv], clock)
        <4>1. CASE hands[v][tv].id = m.id
          BY <3>4, <3>5, <4>1
        <4>2. CASE hands[v][tv].id # m.id
          BY <1>0, <1>1, <3>1, <3>2, <3>5, <4>2
        <4> QED BY <4>1, <4>2
      <3>6. Leases(hands, running', clock, late)
        <4>1. OnlyExpiredChange(hands, running, clock, hands, running', late)
          BY <3>5 DEF OnlyExpiredChange
        <4> QED BY <1>0, <4>1, LeasesFewer DEF LeasesInv
      <3>7. running'[m.id] = m
        BY <1>0, <3>1, <3>2
      <3>8. Leases(hands', running', clock, late)
        <4>1. ASSUME NEW th \in Threads, hands' = [hands EXCEPT ![w][th] = m]
              PROVE  Leases(hands', running', clock, late)
          <5>1. Leases([hands EXCEPT ![w][th] = m], running', clock, late)
            BY <1>0, <3>1, <3>4, <3>6, <3>7, LeasesMore
          <5> QED BY <4>1, <5>1
        <4>2. CASE hands' = hands
          BY <3>6, <4>2
        <4> QED BY <3>3, <4>1, <4>2
      <3> QED BY <3>2, <3>8, LeasesNext
    <2>2. CASE (ReserveDropScript \/ UNCHANGED brokerVars) /\ UNCHANGED hands
      BY <1>0, <1>2, <1>4, <2>2 DEF Reserve, ReserveDropScript, brokerVars
    <2> QED BY <1>4, <2>1, <2>2 DEF Reserve
  <1>5. ASSUME NEW w \in Workers, NEW th \in Threads, ProcessTask(w, th)
        PROVE  LeasesInv'
    <2> DEFINE m == hands[w][th]
    <2>1. /\ m \in TaskMessage /\ m.id \in Tasks /\ m # Null
          /\ late \subseteq late'
          /\ m.id \notin late' => running[m.id] = m
      BY <1>0, <1>5, TimelyReport, NullAssumption
    <2>2. hands' = [hands EXCEPT ![w][th] = Null] /\ clock' = clock
      BY <1>5 DEF ProcessTask, FailUnknown, Ack, Retry, Fail, Report
    <2>3. running' = [running EXCEPT ![m.id] = Null]
      BY <1>5
         DEF ProcessTask, FailUnknown, Ack, Retry, Fail, FailScript, AckScript,
             RetryScript, RetryMessage
    <2>4. \A v \in Workers, tv \in Threads :
              hands'[v][tv] = IF <<v, tv>> = <<w, th>> THEN Null ELSE hands[v][tv]
      BY <1>0, <2>2
    <2>5. ASSUME NEW v \in Workers, NEW tv \in Threads,
                 hands'[v][tv] # Null, hands'[v][tv].id \notin late'
          PROVE  \/ running'[hands'[v][tv].id] = running[hands'[v][tv].id]
                 \/ ExpiredAt(hands'[v][tv], clock)
      <3>1. <<v, tv>> # <<w, th>> /\ hands'[v][tv] = hands[v][tv]
        BY <2>4, <2>5
      <3>2. CASE hands[v][tv].id = m.id
        <4>1. running[m.id] = m /\ m.id \notin late
          BY <2>1, <2>5, <3>1, <3>2
        <4>2. hands[v][tv] = m \/ ExpiredAt(hands[v][tv], clock)
          BY <2>5, <3>1, <3>2, <4>1 DEF LeasesInv, Leases
        <4>3. ExpiredAt(m, clock) \/ ExpiredAt(hands[v][tv], clock)
          BY <2>1, <2>5, <3>1, <3>2, <4>1 DEF LeasesInv, Leases
        <4> QED BY <3>1, <4>2, <4>3
      <3>3. CASE hands[v][tv].id # m.id
        BY <1>0, <1>1, <2>1, <2>3, <2>5, <3>1, <3>3
      <3> QED BY <3>2, <3>3
    <2>6. Leases(hands', running', clock', late')
      <3>1. OnlyExpiredChange(hands, running, clock, hands', running', late')
        BY <2>4, <2>5 DEF OnlyExpiredChange
      <3> QED BY <1>0, <2>1, <2>2, <3>1, LeasesFewer DEF LeasesInv
    <2> QED BY <2>6, LeasesNext
  <1>6. ASSUME NEW w \in Workers, Crash(w)
        PROVE  LeasesInv'
    <2>1. /\ running' = running /\ late' = late /\ clock' = clock
          /\ \A v \in Workers, tv \in Threads : hands'[v][tv] \in {hands[v][tv], Null}
      BY <1>0, <1>6 DEF Crash, brokerVars
    <2>2. OnlyExpiredChange(hands, running, clock, hands', running', late')
      BY <2>1 DEF OnlyExpiredChange
    <2>3. Leases(hands', running', clock', late')
      BY <1>0, <2>1, <2>2, LeasesFewer DEF LeasesInv
    <2> QED BY <2>3, LeasesNext
  <1>7. ASSUME NEW w \in Workers,
               StartPoll(w) \/ Promote(w) \/ Scan(w) \/ StartReserve(w) \/ Restart(w)
        PROVE  LeasesInv'
    <2>1. hands' = hands /\ running' = running /\ late' = late /\ clock' = clock
      BY <1>7
         DEF StartPoll, Promote, PromoteOneScript, PromoteDropScript, Scan,
             StartReserve, Restart, brokerVars
    <2> QED BY <1>0, <1>2, <2>1
  <1>8. ASSUME NEW t \in Tasks, ClientEnqueue(t) \/ ClientRetryDead(t)
        PROVE  LeasesInv'
    <2>1. hands' = hands /\ running' = running /\ late' = late /\ clock' = clock
      BY <1>8
         DEF ClientEnqueue, Enqueue, ClientRetryDead, RetryDeadTaskScript,
             workerVars
    <2> QED BY <1>0, <1>2, <2>1
  <1>9. CASE Tick
    BY <1>0, <1>2, <1>9, SMTT(60) DEF Tick, brokerVars, workerVars
  <1>10. CASE UNCHANGED vars
    BY <1>0, <1>2, <1>10 DEF vars, brokerVars, workerVars
  <1> QED BY <1>3, <1>4, <1>5, <1>6, <1>7, <1>8, <1>9, <1>10 DEF Next, Poll

\* Two threads, of one worker or of two, work on the same task only after the
\* lease of one of them is over by some worker's clock, as long as no late report
\* has copied the task: although a tick reclaims with a time it read, and from a
\* snapshot it took, before other workers' steps.
THEOREM LeasesExclude == Spec => []LeaseExclusive
  <1>1. Init => LeasesInv
    <2>1. ASSUME Init
          PROVE  \A w \in Workers, th \in Threads : hands[w][th] = Null
      BY <2>1 DEF Init
    <2> QED BY <2>1 DEF LeasesInv, Leases
  <1>2. NoTaskLostInv /\ PlacesInv /\ PollTimePast /\ LeasesInv /\ [Next]_vars
            => LeasesInv'
    BY LeasesStep
  <1>3. LeasesInv => LeaseExclusive
    <2>1. \A m : Expired(m) <=> ExpiredAt(m, clock)
      BY DEF Expired, ExpiredAt, NowUnixMs
    <2>2. SUFFICES ASSUME LeasesInv, NEW w \in Workers, NEW v \in Workers,
                          NEW th \in Threads, NEW tv \in Threads,
                          <<w, th>> # <<v, tv>>,
                          hands[w][th] # Null, hands[v][tv] # Null,
                          hands[w][th].id = hands[v][tv].id,
                          hands[w][th].id \notin late
                   PROVE  Expired(hands[w][th]) \/ Expired(hands[v][tv])
      BY DEF LeaseExclusive
    <2>3. ExpiredAt(hands[w][th], clock) \/ ExpiredAt(hands[v][tv], clock)
      BY <2>2 DEF LeasesInv, Leases
    <2> QED BY <2>1, <2>3
  <1> QED BY <1>1, <1>2, <1>3, KeptInvariant, PlacesInvariant,
             PollTimeInvariant, PTL
             DEF Spec

-----------------------------------------------------------------------------
(* The messages of a task in a list.                                       *)

\* An id is in a list exactly when the list has messages of it.
LEMMA CopiesNone ==
    ASSUME NEW list, NEW u
    PROVE  InList(list, u) <=> CopiesIn(list, u) # {}
  BY DEF InList, CopiesIn

\* What LPUSH does to the messages of an id in a list.
LEMMA CopiesAppend ==
    ASSUME NEW list \in Seq(TaskMessage), NEW e \in TaskMessage, NEW u
    PROVE  /\ e.id = u /\ CopiesIn(list, u) = {} => CopiesIn(Append(list, e), u) = {e}
           /\ e.id # u => CopiesIn(Append(list, e), u) = CopiesIn(list, u)
  <1> DEFINE longer == Append(list, e)
  <1>1. /\ Len(list) \in Nat
        /\ Len(longer) = Len(list) + 1
        /\ \A i \in 1..Len(list) : longer[i] = list[i]
        /\ longer[Len(list) + 1] = e
    BY AppendFacts, ListElements, SMTT(60)
  <1> HIDE DEF longer
  <1>2. ASSUME NEW m \in CopiesIn(longer, u)
        PROVE  m \in CopiesIn(list, u) \cup (IF e.id = u THEN {e} ELSE {})
    <2>1. PICK i \in 1..Len(longer) : longer[i].id = u /\ m = longer[i]
      BY DEF CopiesIn
    <2>2. CASE i \in 1..Len(list)
      BY <1>1, <2>1, <2>2 DEF CopiesIn
    <2>3. CASE i = Len(list) + 1
      BY <1>1, <2>1, <2>3
    <2> QED BY <1>1, <2>2, <2>3, SMTT(60)
  <1>3. ASSUME NEW m \in CopiesIn(list, u)
        PROVE  m \in CopiesIn(longer, u)
    <2>1. PICK i \in 1..Len(list) : list[i].id = u /\ m = list[i]
      BY DEF CopiesIn
    <2>2. i \in 1..Len(longer) /\ longer[i] = m
      BY <1>1, <2>1, SMTT(60)
    <2> QED BY <2>1, <2>2 DEF CopiesIn
  <1>4. e.id = u => e \in CopiesIn(longer, u)
    <2>1. Len(list) + 1 \in 1..Len(longer)
      BY <1>1, SMTT(60)
    <2> QED BY <1>1, <2>1 DEF CopiesIn
  <1>5. /\ e.id = u /\ CopiesIn(list, u) = {} => CopiesIn(longer, u) = {e}
        /\ e.id # u => CopiesIn(longer, u) = CopiesIn(list, u)
    BY <1>2, <1>3, <1>4
  <1> QED BY <1>5 DEF longer

\* What RPOP does to them.
LEMMA CopiesTail ==
    ASSUME NEW list \in Seq(TaskMessage), list # <<>>, NEW u
    PROVE  /\ Head(list).id = u =>
                  CopiesIn(list, u) = CopiesIn(Tail(list), u) \cup {Head(list)}
           /\ Head(list).id # u => CopiesIn(list, u) = CopiesIn(Tail(list), u)
  <1> DEFINE rest == Tail(list)
  <1>1. /\ Len(list) \in Nat \ {0}
        /\ Len(rest) = Len(list) - 1
        /\ Head(list) = list[1]
        /\ \A i \in 1..Len(rest) : rest[i] = list[i + 1]
    BY TailFacts
  <1> HIDE DEF rest
  <1>2. ASSUME NEW m \in CopiesIn(list, u)
        PROVE  m \in CopiesIn(rest, u) \cup
                         (IF Head(list).id = u THEN {Head(list)} ELSE {})
    <2>1. PICK i \in 1..Len(list) : list[i].id = u /\ m = list[i]
      BY DEF CopiesIn
    <2>2. CASE i = 1
      BY <1>1, <2>1, <2>2
    <2>3. CASE i # 1
      <3>1. i - 1 \in 1..Len(rest) /\ rest[i - 1] = m
        BY <1>1, <2>1, <2>3, SMTT(60)
      <3> QED BY <2>1, <3>1 DEF CopiesIn
    <2> QED BY <2>2, <2>3
  <1>3. ASSUME NEW m \in CopiesIn(rest, u)
        PROVE  m \in CopiesIn(list, u)
    <2>1. PICK i \in 1..Len(rest) : rest[i].id = u /\ m = rest[i]
      BY DEF CopiesIn
    <2>2. i + 1 \in 1..Len(list) /\ list[i + 1] = m
      BY <1>1, <2>1, SMTT(60)
    <2> QED BY <2>1, <2>2 DEF CopiesIn
  <1>4. Head(list).id = u => Head(list) \in CopiesIn(list, u)
    <2>1. 1 \in 1..Len(list)
      BY <1>1, SMTT(60)
    <2> QED BY <1>1, <2>1 DEF CopiesIn
  <1>5. /\ Head(list).id = u =>
               CopiesIn(list, u) = CopiesIn(rest, u) \cup {Head(list)}
        /\ Head(list).id # u => CopiesIn(list, u) = CopiesIn(rest, u)
    BY <1>2, <1>3, <1>4
  <1> QED BY <1>5 DEF rest

\* What LREM does to them.
LEMMA CopiesWithout ==
    ASSUME NEW list \in Seq(TaskMessage), NEW k \in 1..Len(list), NEW u,
           list[k].id # u
    PROVE  CopiesIn(WithoutIndex(list, k), u) = CopiesIn(list, u)
  <1> DEFINE rest == WithoutIndex(list, k)
  <1>1. /\ Len(list) \in Nat
        /\ Len(rest) = Len(list) - 1
        /\ \A i \in 1..Len(rest) : rest[i] = IF i < k THEN list[i] ELSE list[i + 1]
    BY WithoutIndexFacts, ListElements
  <1> HIDE DEF rest
  <1>2. ASSUME NEW m \in CopiesIn(list, u)
        PROVE  m \in CopiesIn(rest, u)
    <2>1. PICK i \in 1..Len(list) : list[i].id = u /\ m = list[i]
      BY DEF CopiesIn
    <2>2. CASE i < k
      <3>1. i \in 1..Len(rest) /\ rest[i] = m
        BY <1>1, <2>1, <2>2, SMTT(60)
      <3> QED BY <2>1, <3>1 DEF CopiesIn
    <2>3. CASE i > k
      <3>1. i - 1 \in 1..Len(rest) /\ rest[i - 1] = m
        BY <1>1, <2>1, <2>3, SMTT(60)
      <3> QED BY <2>1, <3>1 DEF CopiesIn
    <2> QED BY <1>1, <2>1, <2>2, <2>3, SMTT(60)
  <1>3. ASSUME NEW m \in CopiesIn(rest, u)
        PROVE  m \in CopiesIn(list, u)
    <2>1. PICK i \in 1..Len(rest) : rest[i].id = u /\ m = rest[i]
      BY DEF CopiesIn
    <2>2. CASE i < k
      <3>1. i \in 1..Len(list) /\ list[i] = m
        BY <1>1, <2>1, <2>2, SMTT(60)
      <3> QED BY <2>1, <3>1 DEF CopiesIn
    <2>3. CASE i >= k
      <3>1. i + 1 \in 1..Len(list) /\ list[i + 1] = m
        BY <1>1, <2>1, <2>3, SMTT(60)
      <3> QED BY <2>1, <3>1 DEF CopiesIn
    <2> QED BY <1>1, <2>2, <2>3, SMTT(60)
  <1>4. CopiesIn(rest, u) = CopiesIn(list, u)
    BY <1>2, <1>3
  <1> QED BY <1>4 DEF rest

-----------------------------------------------------------------------------
(* What the lifecycle sees of a task.                                      *)

\* Phase, for a task without a late report, as a condition on the values of the
\* keys.
PhaseIs(ph, p, d, r, x, st, res, u) ==
    LET Waits == InList(p, u) \/ \E m \in d : m.id = u IN
    /\ st = "none" => ph = "new"
    /\ st # "none" /\ res # "none" => ph = "succeeded"
    /\ st # "none" /\ res = "none" =>
           /\ InList(x, u) => ph = "dead"
           /\ ~InList(x, u) /\ r # Null => ph = "leased"
           /\ ~InList(x, u) /\ r = Null /\ Waits => ph = "waiting"
           /\ ~InList(x, u) /\ r = Null /\ ~Waits => ph = "dropped"

AllCopies(p, d, r, x, u) ==
    CopiesIn(p, u) \cup CopiesIn(x, u) \cup {m \in d : m.id = u} \cup ({r} \ {Null})

\* What the lifecycle sees of a task without a late report: its phase ph and its
\* counts cs.
View(ph, cs, p, d, r, x, st, res, u) ==
    /\ PhaseIs(ph, p, d, r, x, st, res, u)
    /\ cs = {m.retry_count : m \in AllCopies(p, d, r, x, u)}

\* View is what Phase and Counts compute, in this state...
LEMMA ViewNow ==
    ASSUME NEW u
    PROVE  /\ u \in late => Phase(u) = "disputed" /\ Counts(u) = {}
           /\ u \notin late => View(Phase(u), Counts(u), pending, delayed, running[u],
                                    dead, status[u], results[u], u)
  <1>1. u \in late => Phase(u) = "disputed" /\ Counts(u) = {}
    BY DEF Phase, Counts
  <1>2. u \notin late => PhaseIs(Phase(u), pending, delayed, running[u], dead,
                                 status[u], results[u], u)
    BY DEF Phase, PhaseIs, InDelayed
  <1>3. u \notin late => Counts(u) = {m.retry_count : m \in
                             AllCopies(pending, delayed, running[u], dead, u)}
    BY DEF Counts, Copies, AllCopies
  <1> QED BY <1>1, <1>2, <1>3 DEF View

\* ... and in the next.
LEMMA ViewNext ==
    ASSUME NEW u
    PROVE  /\ u \in late' => Phase(u)' = "disputed" /\ Counts(u)' = {}
           /\ u \notin late' => View(Phase(u)', Counts(u)', pending', delayed',
                                     running'[u], dead', status'[u], results'[u], u)
  <1>1. u \in late' => Phase(u)' = "disputed" /\ Counts(u)' = {}
    BY DEF Phase, Counts
  <1>2. u \notin late' => PhaseIs(Phase(u)', pending', delayed', running'[u], dead',
                                  status'[u], results'[u], u)
    BY DEF Phase, PhaseIs, InDelayed, InList
  <1>3. u \notin late' => Counts(u)' = {m.retry_count : m \in
                              AllCopies(pending', delayed', running'[u], dead', u)}
    BY DEF Counts, Copies, AllCopies, CopiesIn
  <1> QED BY <1>1, <1>2, <1>3 DEF View

\* The view of a task with one message, pending or delayed...
LEMMA WaitingView ==
    ASSUME NEW ph, NEW cs, NEW p, NEW d, NEW x, NEW st, NEW u, NEW e,
           View(ph, cs, p, d, Null, x, st, "none", u), st # "none",
           ~InList(x, u), CopiesIn(p, u) \cup {m \in d : m.id = u} = {e}
    PROVE  ph = "waiting" /\ cs = {e.retry_count}
  <1>1. InList(p, u) \/ \E m \in d : m.id = u
    BY CopiesNone
  <1>2. CopiesIn(x, u) = {}
    BY CopiesNone
  <1>3. AllCopies(p, d, Null, x, u) = {e}
    BY <1>2 DEF AllCopies
  <1> QED BY <1>1, <1>3 DEF View, PhaseIs

\* ... in the running hash...
LEMMA LeasedView ==
    ASSUME NEW ph, NEW cs, NEW p, NEW d, NEW r, NEW x, NEW st, NEW u,
           View(ph, cs, p, d, r, x, st, "none", u), st # "none", r # Null,
           ~InList(p, u), ~InList(x, u), \A m \in d : m.id # u
    PROVE  ph = "leased" /\ cs = {r.retry_count}
  <1>1. CopiesIn(x, u) = {} /\ CopiesIn(p, u) = {}
    BY CopiesNone
  <1>2. AllCopies(p, d, r, x, u) = {r}
    BY <1>1 DEF AllCopies
  <1> QED BY <1>2 DEF View, PhaseIs

\* ... in the dead list...
LEMMA DeadView ==
    ASSUME NEW ph, NEW cs, NEW p, NEW d, NEW x, NEW st, NEW u, NEW e,
           View(ph, cs, p, d, Null, x, st, "none", u), st # "none",
           ~InList(p, u), CopiesIn(x, u) = {e}, \A m \in d : m.id # u
    PROVE  ph = "dead" /\ cs = {e.retry_count}
  <1>1. InList(x, u) /\ CopiesIn(p, u) = {}
    BY CopiesNone
  <1>2. AllCopies(p, d, Null, x, u) = {e}
    BY <1>1 DEF AllCopies
  <1> QED BY <1>1, <1>2 DEF View, PhaseIs

\* ... and of a task that is in none of the keys.
LEMMA GoneView ==
    ASSUME NEW ph, NEW cs, NEW p, NEW d, NEW x, NEW st, NEW res, NEW u,
           View(ph, cs, p, d, Null, x, st, res, u), st # "none",
           ~InList(p, u), ~InList(x, u), \A m \in d : m.id # u
    PROVE  /\ ph = IF res # "none" THEN "succeeded" ELSE "dropped"
           /\ cs = {}
  <1>1. CopiesIn(x, u) = {} /\ CopiesIn(p, u) = {}
    BY CopiesNone
  <1>2. AllCopies(p, d, Null, x, u) = {}
    BY <1>1 DEF AllCopies
  <1> QED BY <1>2 DEF View, PhaseIs

Same(u) == Phase(u)' = Phase(u) /\ Counts(u)' = Counts(u)

\* The step changes nothing of what the keys hold of u.
Untouched(u) ==
    /\ CopiesIn(pending', u) = CopiesIn(pending, u)
    /\ CopiesIn(dead', u) = CopiesIn(dead, u)
    /\ {m \in delayed' : m.id = u} = {m \in delayed : m.id = u}
    /\ running'[u] = running[u] /\ status'[u] = status[u] /\ results'[u] = results[u]

\* The lifecycle sees no change of a task that is left alone, or whose life was
\* and remains disputed.
LEMMA UntouchedSame ==
    ASSUME NEW u, u \in late' <=> u \in late, u \in late \/ Untouched(u)
    PROVE  Same(u)
  <1>1. CASE u \in late
    BY <1>1, ViewNow, ViewNext DEF Same
  <1>2. CASE u \notin late
    <2>1. /\ View(Phase(u), Counts(u), pending, delayed, running[u], dead,
                  status[u], results[u], u)
          /\ View(Phase(u)', Counts(u)', pending', delayed', running'[u], dead',
                  status'[u], results'[u], u)
      BY <1>2, ViewNow, ViewNext
    <2>2. Untouched(u)
      BY <1>2
    <2>3. Counts(u)' = Counts(u)
      <3>1. AllCopies(pending', delayed', running'[u], dead', u) =
                AllCopies(pending, delayed, running[u], dead, u)
        BY <2>2 DEF Untouched, AllCopies
      <3> QED BY <2>1, <3>1 DEF View
    <2>4. Phase(u)' = Phase(u)
      <3>1. /\ InList(pending', u) <=> InList(pending, u)
            /\ InList(dead', u) <=> InList(dead, u)
        BY <2>2, CopiesNone DEF Untouched
      <3>2. (\E m \in delayed' : m.id = u) <=> (\E m \in delayed : m.id = u)
        BY <2>2 DEF Untouched
      <3>3. running'[u] = running[u] /\ status'[u] = status[u] /\ results'[u] = results[u]
        BY <2>2 DEF Untouched
      <3> QED BY <2>1, <3>1, <3>2, <3>3, SMTT(60) DEF View, PhaseIs
    <2> QED BY <2>3, <2>4 DEF Same
  <1> QED BY <1>1, <1>2

-----------------------------------------------------------------------------
(* What each script changes.                                               *)

\* The view of every task but t is the same.
OthersSame(t) == \A u \in Tasks : u # t => Same(u)

\* The step does to t what a step of the lifecycle from one phase to another does.
Moves(t, from, to, cs) ==
    Phase(t) = from /\ Phase(t)' = to /\ Counts(t)' = cs

\* A new task starts to wait, with no retry, in either key.
LEMMA EnqueueMoves ==
    ASSUME BrokerTypeOK, PlacesInv, late' = late, NEW t \in Tasks, NEW run_at, NEW now,
           status[t] = "none", Enqueue(t, run_at, now)
    PROVE  OthersSame(t) /\ (t \notin late => Moves(t, "new", "waiting", {0}))
  <1> DEFINE d == [id |-> t, retry_count |-> 0, run_at |-> run_at,
                   reserved_at |-> Null]
             e == [id |-> t, retry_count |-> 0, run_at |-> Null,
                   reserved_at |-> Null]
  <1>1. /\ pending \in Seq(TaskMessage) /\ e \in TaskMessage
        /\ e.id = t /\ d.id = t /\ d.retry_count = 0 /\ e.retry_count = 0
        /\ status \in [Tasks -> TaskStatus]
    BY FreshMessage DEF BrokerTypeOK
  <1>2. \/ delayed' = delayed \cup {d} /\ pending' = pending
        \/ pending' = Append(pending, e) /\ delayed' = delayed
    BY DEF Enqueue
  <1>3. /\ status' = [status EXCEPT ![t] = "pending"]
        /\ running' = running /\ results' = results /\ dead' = dead
    BY DEF Enqueue
  <1> HIDE DEF d, e
  <1>4. ASSUME NEW u \in Tasks, u # t
        PROVE  Same(u)
    <2>1. CopiesIn(pending', u) = CopiesIn(pending, u)
      <3>1. CASE pending' = pending
        BY <3>1
      <3>2. CASE pending' = Append(pending, e)
        BY <1>1, <1>4, <3>2, CopiesAppend
      <3> QED BY <1>2, <3>1, <3>2
    <2>2. Untouched(u)
      BY <1>1, <1>2, <1>3, <1>4, <2>1 DEF Untouched
    <2> QED BY <2>2, UntouchedSame
  <1>5. ASSUME t \notin late
        PROVE  Moves(t, "new", "waiting", {0})
    <2>1. /\ ~InList(pending, t) /\ ~InList(dead, t) /\ running[t] = Null
          /\ results[t] = "none"
          /\ \A m \in delayed : m.id # t
      BY <1>5 DEF PlacesInv, OnePlace, Fits
    <2>2. Phase(t) = "new"
      BY <1>5, ViewNow DEF View, PhaseIs
    <2>3. CopiesIn(pending, t) = {}
      BY <2>1, CopiesNone
    <2>4. PICK m : /\ CopiesIn(pending', t) \cup {n \in delayed' : n.id = t} = {m}
                   /\ m.retry_count = 0
      <3>1. CASE delayed' = delayed \cup {d} /\ pending' = pending
        <4>1. CopiesIn(pending', t) \cup {n \in delayed' : n.id = t} = {d}
          BY <1>1, <2>1, <2>3, <3>1
        <4> QED BY <1>1, <4>1
      <3>2. CASE pending' = Append(pending, e) /\ delayed' = delayed
        <4>1. CopiesIn(pending', t) = {e}
          <5>1. CopiesIn(Append(pending, e), t) = {e}
            <6>1. pending \in Seq(TaskMessage) /\ e \in TaskMessage /\ e.id = t
              BY <1>1
            <6> QED BY <2>3, <6>1, CopiesAppend
          <5> QED BY <3>2, <5>1
        <4>2. CopiesIn(pending', t) \cup {n \in delayed' : n.id = t} = {e}
          BY <2>1, <3>2, <4>1
        <4> QED BY <1>1, <4>2
      <3> QED BY <1>2, <3>1, <3>2
    <2>5. View(Phase(t)', Counts(t)', pending', delayed', Null, dead', "pending",
               "none", t)
      <3>1. status'[t] = "pending" /\ running'[t] = Null /\ results'[t] = "none"
        BY <1>1, <1>3, <2>1
      <3> QED BY <1>5, <3>1, ViewNext
    <2>6. Phase(t)' = "waiting" /\ Counts(t)' = {m.retry_count}
      <3>1. ~InList(dead', t) /\ "pending" # "none"
        BY <1>3, <2>1
      <3> QED BY <2>4, <2>5, <3>1, WaitingView, SMTT(60)
    <2> QED BY <2>2, <2>4, <2>6 DEF Moves
  <1> QED BY <1>4, <1>5 DEF OthersSame

\* A dead task waits again, with no retry.
LEMMA RetryDeadMoves ==
    ASSUME BrokerTypeOK, PlacesInv, late' = late, NEW t \in Tasks,
           RetryDeadTaskScript(t)
    PROVE  OthersSame(t) /\ (t \notin late => Moves(t, "dead", "waiting", {0}))
  <1> DEFINE e == [id |-> t, retry_count |-> 0, run_at |-> Null,
                   reserved_at |-> Null]
  <1>1. /\ pending \in Seq(TaskMessage) /\ dead \in Seq(TaskMessage)
        /\ e \in TaskMessage /\ e.id = t /\ e.retry_count = 0
        /\ status \in [Tasks -> TaskStatus]
    BY FreshMessage DEF BrokerTypeOK
  <1>2. PICK i \in 1..Len(dead) : dead[i].id = t /\ dead' = WithoutIndex(dead, i)
    BY DEF RetryDeadTaskScript
  <1>3. /\ pending' = Append(pending, e)
        /\ status' = [status EXCEPT ![t] = "pending"]
        /\ delayed' = delayed /\ results' = results /\ running' = running
    BY DEF RetryDeadTaskScript
  <1> HIDE DEF e
  <1>4. ASSUME NEW u \in Tasks, u # t
        PROVE  Same(u)
    <2>1. CopiesIn(pending', u) = CopiesIn(pending, u)
      BY <1>1, <1>3, <1>4, CopiesAppend
    <2>2. CopiesIn(dead', u) = CopiesIn(dead, u)
      BY <1>1, <1>2, <1>4, CopiesWithout
    <2>3. Untouched(u)
      BY <1>1, <1>3, <1>4, <2>1, <2>2 DEF Untouched
    <2> QED BY <2>3, UntouchedSame
  <1>5. ASSUME t \notin late
        PROVE  Moves(t, "dead", "waiting", {0})
    <2>0. InList(dead, t)
      BY <1>2 DEF InList
    <2>1. /\ ~InList(pending, t) /\ AtMostOnce(dead, t) /\ running[t] = Null
          /\ results[t] = "none" /\ status[t] = "dead"
          /\ \A m \in delayed : m.id # t
      BY <1>5, <2>0 DEF PlacesInv, OnePlace, Fits
    <2>2. Phase(t) = "dead"
      BY <1>5, <2>0, <2>1, ViewNow DEF View, PhaseIs
    <2>3. CopiesIn(pending, t) = {}
      BY <2>1, CopiesNone
    <2>4. CopiesIn(pending', t) = {e}
      <3>1. CopiesIn(Append(pending, e), t) = {e}
        <4>1. pending \in Seq(TaskMessage) /\ e \in TaskMessage /\ e.id = t
          BY <1>1
        <4> QED BY <2>3, <4>1, CopiesAppend
      <3> QED BY <1>3, <3>1
    <2>5. CopiesIn(pending', t) \cup {n \in delayed' : n.id = t} = {e}
      BY <1>3, <2>1, <2>4
    <2>6. ~InList(dead', t)
      BY <1>1, <1>2, <2>1, OnceWithout
    <2>7. View(Phase(t)', Counts(t)', pending', delayed', Null, dead', "pending",
               "none", t)
      <3>1. status'[t] = "pending" /\ running'[t] = Null /\ results'[t] = "none"
        BY <1>1, <1>3, <2>1
      <3> QED BY <1>5, <3>1, ViewNext
    <2>8. Phase(t)' = "waiting" /\ Counts(t)' = {e.retry_count}
      <3>1. "pending" # "none"
        OBVIOUS
      <3> QED BY <2>5, <2>6, <2>7, <3>1, WaitingView, SMTT(60)
    <2> QED BY <1>1, <2>2, <2>8 DEF Moves
  <1> QED BY <1>4, <1>5 DEF OthersSame

\* A promotion moves a message between two keys in which its task waits.
LEMMA PromoteOneMoves ==
    ASSUME BrokerTypeOK, PlacesInv, late' = late, NEW m \in delayed, NEW now,
           PromoteOneScript(m, now)
    PROVE  \A u \in Tasks : Same(u)
  <1> DEFINE e == [m EXCEPT !.run_at = Null]
  <1>0. PICK t \in Tasks : m.id = t
    BY DEF BrokerTypeOK
  <1>1. /\ e \in TaskMessage /\ e.id = t /\ e.retry_count = m.retry_count
        /\ pending \in Seq(TaskMessage) /\ status \in [Tasks -> TaskStatus]
    BY <1>0 DEF BrokerTypeOK, TaskMessage
  <1>2. /\ pending' = Append(pending, e)
        /\ status' = [status EXCEPT ![t] = "pending"]
        /\ delayed' = delayed \ {m}
        /\ running' = running /\ results' = results /\ dead' = dead
    BY <1>0 DEF PromoteOneScript
  <1> HIDE DEF e
  <1>4. ASSUME NEW u \in Tasks, u # t
        PROVE  Same(u)
    <2>1. CopiesIn(pending', u) = CopiesIn(pending, u)
      BY <1>1, <1>2, <1>4, CopiesAppend
    <2>2. Untouched(u)
      BY <1>1, <1>2, <1>0, <1>4, <2>1 DEF Untouched
    <2> QED BY <2>2, UntouchedSame
  <1>5. ASSUME t \notin late
        PROVE  Same(t)
    <2>1. /\ ~InList(pending, t) /\ ~InList(dead, t) /\ running[t] = Null
          /\ results[t] = "none" /\ status[t] \in {"pending", "retrying"}
          /\ \A n \in delayed : n.id = t => n = m
      BY <1>1, <1>0, <1>5, SMTT(60) DEF PlacesInv, OnePlace, Fits
    <2>2. CopiesIn(pending, t) = {}
      BY <2>1, CopiesNone
    <2>3. CopiesIn(pending, t) \cup {n \in delayed : n.id = t} = {m}
      BY <1>0, <2>1, <2>2
    <2>4. CopiesIn(pending', t) = {e}
      BY <1>1, <1>2, <2>2, CopiesAppend
    <2>5. CopiesIn(pending', t) \cup {n \in delayed' : n.id = t} = {e}
      BY <1>2, <2>1, <2>4
    <2>6. Phase(t) = "waiting" /\ Counts(t) = {m.retry_count}
      <3>1. View(Phase(t), Counts(t), pending, delayed, Null, dead, status[t],
                 "none", t)
        BY <1>5, <2>1, ViewNow
      <3>2. status[t] # "none"
        BY <2>1
      <3> QED BY <2>1, <2>3, <3>1, <3>2, WaitingView, SMTT(60)
    <2>7. Phase(t)' = "waiting" /\ Counts(t)' = {e.retry_count}
      <3>1. status'[t] = "pending" /\ running'[t] = Null /\ results'[t] = "none"
        BY <1>1, <1>2, <2>1
      <3>2. View(Phase(t)', Counts(t)', pending', delayed', Null, dead', "pending",
                 "none", t)
        BY <1>5, <3>1, ViewNext
      <3>3. "pending" # "none" /\ ~InList(dead', t)
        BY <1>2, <2>1
      <3> QED BY <2>5, <3>2, <3>3, WaitingView, SMTT(60)
    <2> QED BY <1>1, <2>6, <2>7 DEF Same
  <1>6. ASSUME t \in late
        PROVE  Same(t)
    BY <1>6, UntouchedSame
  <1> QED BY <1>4, <1>5, <1>6

\* A due message that does not decode takes its task out of the queue.
LEMMA PromoteDropMoves ==
    ASSUME BrokerTypeOK, PlacesInv, late' = late, NEW m \in delayed, NEW now,
           PromoteDropScript(m, now), NEW t \in Tasks, m.id = t
    PROVE  OthersSame(t) /\ (t \notin late => Moves(t, "waiting", "dropped", {}))
  <1>1. /\ delayed' = delayed \ {m}
        /\ pending' = pending /\ status' = status /\ running' = running
        /\ results' = results /\ dead' = dead
    BY DEF PromoteDropScript
  <1>2. ASSUME NEW u \in Tasks, u # t
        PROVE  Same(u)
    <2>1. Untouched(u)
      BY <1>1, <1>2 DEF Untouched
    <2> QED BY <2>1, UntouchedSame
  <1>3. ASSUME t \notin late
        PROVE  Moves(t, "waiting", "dropped", {})
    <2>1. /\ ~InList(pending, t) /\ ~InList(dead, t) /\ running[t] = Null
          /\ results[t] = "none" /\ status[t] # "none"
          /\ \A n \in delayed : n.id = t => n = m
      BY <1>3 DEF PlacesInv, OnePlace, Fits
    <2>2. Phase(t) = "waiting"
      BY <1>3, <2>1, ViewNow DEF View, PhaseIs
    <2>3. View(Phase(t)', Counts(t)', pending, delayed', Null, dead, status[t],
               "none", t)
      BY <1>1, <1>3, <2>1, ViewNext
    <2>4. \A n \in delayed' : n.id # t
      BY <1>1, <2>1
    <2>5. Phase(t)' = "dropped" /\ Counts(t)' = {}
      BY <2>1, <2>3, <2>4, GoneView, SMTT(60)
    <2> QED BY <2>2, <2>5 DEF Moves
  <1> QED BY <1>2, <1>3 DEF OthersSame

\* What the oldest pending message says of its task.
LEMMA HeadPlaces ==
    ASSUME BrokerTypeOK, PlacesInv, pending # <<>>, NEW t \in Tasks \ late,
           Head(pending).id = t
    PROVE  /\ ~InList(Tail(pending), t) /\ ~InList(dead, t) /\ running[t] = Null
           /\ results[t] = "none" /\ status[t] # "none"
           /\ \A n \in delayed : n.id # t
           /\ Phase(t) = "waiting" /\ Counts(t) = {Head(pending).retry_count}
  <1>1. pending \in Seq(TaskMessage)
    BY DEF BrokerTypeOK
  <1>2. InList(pending, t)
    BY <1>1, InListTail
  <1>3. /\ AtMostOnce(pending, t) /\ ~InList(dead, t) /\ running[t] = Null
        /\ results[t] = "none" /\ status[t] # "none"
        /\ \A n \in delayed : n.id # t
    BY <1>2 DEF PlacesInv, OnePlace, Fits
  <1>4. ~InList(Tail(pending), t)
    BY <1>1, <1>3, OnceTail
  <1>5. CopiesIn(pending, t) = {Head(pending)}
    <2>1. CopiesIn(Tail(pending), t) = {}
      BY <1>4, CopiesNone
    <2>2. CopiesIn(pending, t) = CopiesIn(Tail(pending), t) \cup {Head(pending)}
      BY <1>1, CopiesTail
    <2> QED BY <2>1, <2>2
  <1>6. CopiesIn(pending, t) \cup {n \in delayed : n.id = t} = {Head(pending)}
    BY <1>3, <1>5
  <1>7. View(Phase(t), Counts(t), pending, delayed, Null, dead, status[t], "none", t)
    BY <1>3, ViewNow
  <1>8. Phase(t) = "waiting" /\ Counts(t) = {Head(pending).retry_count}
    BY <1>3, <1>6, <1>7, WaitingView, SMTT(60)
  <1> QED BY <1>3, <1>4, <1>8

\* So does a popped one.
LEMMA ReserveDropMoves ==
    ASSUME BrokerTypeOK, PlacesInv, late' = late, ReserveDropScript,
           NEW t \in Tasks, Head(pending).id = t
    PROVE  OthersSame(t) /\ (t \notin late => Moves(t, "waiting", "dropped", {}))
  <1>1. /\ pending # <<>> /\ pending' = Tail(pending)
        /\ delayed' = delayed /\ status' = status /\ running' = running
        /\ results' = results /\ dead' = dead /\ pending \in Seq(TaskMessage)
    BY DEF ReserveDropScript, BrokerTypeOK
  <1>2. ASSUME NEW u \in Tasks, u # t
        PROVE  Same(u)
    <2>1. CopiesIn(pending', u) = CopiesIn(pending, u)
      BY <1>1, <1>2, CopiesTail
    <2>2. Untouched(u)
      BY <1>1, <2>1 DEF Untouched
    <2> QED BY <2>2, UntouchedSame
  <1>3. ASSUME t \notin late
        PROVE  Moves(t, "waiting", "dropped", {})
    <2>1. /\ ~InList(Tail(pending), t) /\ ~InList(dead, t) /\ running[t] = Null
          /\ results[t] = "none" /\ status[t] # "none"
          /\ \A n \in delayed : n.id # t
          /\ Phase(t) = "waiting"
      BY <1>1, <1>3, HeadPlaces
    <2>2. View(Phase(t)', Counts(t)', Tail(pending), delayed, Null, dead, status[t],
               "none", t)
      BY <1>1, <1>3, <2>1, ViewNext
    <2>3. Phase(t)' = "dropped" /\ Counts(t)' = {}
      BY <2>1, <2>2, GoneView, SMTT(60)
    <2> QED BY <2>1, <2>3 DEF Moves
  <1> QED BY <1>2, <1>3 DEF OthersSame

\* A reserve leases the task it pops, with its count.
LEMMA ReserveMoves ==
    ASSUME BrokerTypeOK, PlacesInv, late' = late, NEW now \in Time, ReserveScript(now),
           NEW t \in Tasks, Head(pending).id = t
    PROVE  /\ OthersSame(t)
           /\ t \notin late => /\ Moves(t, "waiting", "leased", Counts(t)')
                               /\ Counts(t)' = Counts(t)
  <1> DEFINE m == Reservable(now)
  <1>1. /\ m \in TaskMessage /\ m.id = t /\ m # Null
        /\ m.retry_count = Head(pending).retry_count
        /\ pending # <<>> /\ pending \in Seq(TaskMessage)
        /\ running \in [Tasks -> TaskMessage \cup {Null}]
        /\ status \in [Tasks -> TaskStatus]
    BY ReservableFacts, NullAssumption DEF ReserveScript, BrokerTypeOK
  <1>2. /\ pending' = Tail(pending)
        /\ running' = [running EXCEPT ![t] = m]
        /\ status' = [status EXCEPT ![t] = "running"]
        /\ delayed' = delayed /\ results' = results /\ dead' = dead
    BY <1>1 DEF ReserveScript
  <1> HIDE DEF m
  <1>3. ASSUME NEW u \in Tasks, u # t
        PROVE  Same(u)
    <2>1. CopiesIn(pending', u) = CopiesIn(pending, u)
      BY <1>1, <1>2, <1>3, CopiesTail
    <2>2. running'[u] = running[u] /\ status'[u] = status[u]
      BY <1>1, <1>2, <1>3
    <2>3. Untouched(u)
      BY <1>2, <2>1, <2>2 DEF Untouched
    <2> QED BY <2>3, UntouchedSame
  <1>4. ASSUME t \notin late
        PROVE  Moves(t, "waiting", "leased", Counts(t)') /\ Counts(t)' = Counts(t)
    <2>1. /\ ~InList(Tail(pending), t) /\ ~InList(dead, t)
          /\ results[t] = "none"
          /\ \A n \in delayed : n.id # t
          /\ Phase(t) = "waiting" /\ Counts(t) = {Head(pending).retry_count}
      BY <1>1, <1>4, HeadPlaces
    <2>2. running'[t] = m /\ status'[t] = "running"
      BY <1>1, <1>2
    <2>3. View(Phase(t)', Counts(t)', Tail(pending), delayed, m, dead, "running",
               "none", t)
      BY <1>2, <1>4, <2>1, <2>2, ViewNext
    <2>4. "running" # "none"
      OBVIOUS
    <2>5. Phase(t)' = "leased" /\ Counts(t)' = {m.retry_count}
      BY <1>1, <2>1, <2>3, <2>4, LeasedView, SMTT(60)
    <2> QED BY <1>1, <2>1, <2>5 DEF Moves
  <1> QED BY <1>3, <1>4 DEF OthersSame

\* What a running entry says of its task.
LEMMA RunningPlaces ==
    ASSUME PlacesInv, NEW t \in Tasks \ late, running[t] # Null
    PROVE  /\ ~InList(pending, t) /\ ~InList(dead, t) /\ results[t] = "none"
           /\ \A n \in delayed : n.id # t
           /\ Phase(t) = "leased" /\ Counts(t) = {running[t].retry_count}
  <1>1. /\ ~InList(pending, t) /\ ~InList(dead, t) /\ results[t] = "none"
        /\ status[t] # "none"
        /\ \A n \in delayed : n.id # t
    BY DEF PlacesInv, OnePlace, Fits
  <1>2. View(Phase(t), Counts(t), pending, delayed, running[t], dead, status[t],
             "none", t)
    BY <1>1, ViewNow
  <1>3. Phase(t) = "leased" /\ Counts(t) = {running[t].retry_count}
    BY <1>1, <1>2, LeasedView, SMTT(60)
  <1> QED BY <1>1, <1>3

\* A reclaim ends the lease of its task, which keeps its count.
LEMMA ReclaimMoves ==
    ASSUME BrokerTypeOK, RunningKeyed, PlacesInv, late' = late, NEW t \in Tasks,
           NEW now, NEW timeout, ReclaimOneScript(t, now, timeout)
    PROVE  /\ OthersSame(t)
           /\ t \notin late => /\ Moves(t, "leased", "waiting", Counts(t)')
                               /\ Counts(t)' = Counts(t)
  <1> DEFINE e == [running[t] EXCEPT !.reserved_at = Null]
  <1>0. running[t] \in TaskMessage /\ running[t].id = t /\ running[t] # Null
    BY DEF BrokerTypeOK, RunningKeyed, ReclaimOneScript, IsStale
  <1>1. /\ e \in TaskMessage /\ e.id = t /\ e.retry_count = running[t].retry_count
        /\ pending \in Seq(TaskMessage)
        /\ running \in [Tasks -> TaskMessage \cup {Null}]
        /\ status \in [Tasks -> TaskStatus]
    BY <1>0 DEF TaskMessage, BrokerTypeOK
  <1>2. /\ pending' = Append(pending, e)
        /\ status' = [status EXCEPT ![t] = "pending"]
        /\ running' = [running EXCEPT ![t] = Null]
        /\ delayed' = delayed /\ results' = results /\ dead' = dead
    BY DEF ReclaimOneScript
  <1> HIDE DEF e
  <1>3. pending \in Seq(TaskMessage) /\ e \in TaskMessage /\ e.id = t
    BY <1>1
  <1>4. ASSUME NEW u \in Tasks, u # t
        PROVE  Same(u)
    <2>1. CopiesIn(pending', u) = CopiesIn(pending, u)
      BY <1>2, <1>3, <1>4, CopiesAppend
    <2>2. running'[u] = running[u] /\ status'[u] = status[u]
      BY <1>1, <1>2, <1>4
    <2>3. Untouched(u)
      BY <1>2, <2>1, <2>2 DEF Untouched
    <2> QED BY <2>3, UntouchedSame
  <1>5. ASSUME t \notin late
        PROVE  Moves(t, "leased", "waiting", Counts(t)') /\ Counts(t)' = Counts(t)
    <2>1. /\ ~InList(pending, t) /\ ~InList(dead, t) /\ results[t] = "none"
          /\ \A n \in delayed : n.id # t
          /\ Phase(t) = "leased" /\ Counts(t) = {running[t].retry_count}
      BY <1>0, <1>5, RunningPlaces
    <2>2. CopiesIn(pending', t) = {e}
      <3>1. CopiesIn(pending, t) = {}
        BY <2>1, CopiesNone
      <3>2. CopiesIn(Append(pending, e), t) = {e}
        BY <1>3, <3>1, CopiesAppend
      <3> QED BY <1>2, <3>2
    <2>3. CopiesIn(pending', t) \cup {n \in delayed' : n.id = t} = {e}
      BY <1>2, <2>1, <2>2
    <2>4. running'[t] = Null /\ status'[t] = "pending"
      BY <1>1, <1>2
    <2>5. View(Phase(t)', Counts(t)', pending', delayed', Null, dead, "pending",
               "none", t)
      BY <1>2, <1>5, <2>1, <2>4, ViewNext
    <2>6. "pending" # "none"
      OBVIOUS
    <2>7. Phase(t)' = "waiting" /\ Counts(t)' = {e.retry_count}
      BY <2>1, <2>3, <2>5, <2>6, WaitingView, SMTT(60)
    <2> QED BY <1>1, <2>1, <2>7 DEF Moves
  <1> QED BY <1>4, <1>5 DEF OthersSame

\* The step makes no task late but, possibly, t.
LateOnly(t) == \A u \in Tasks : u # t => (u \in late' <=> u \in late)

\* kRetryScript, called for a lease that is held.
LEMMA RetryMoves ==
    ASSUME BrokerTypeOK, PlacesInv, NEW t \in Tasks, LateOnly(t),
           NEW m \in DelayedMessage, m.id = t, RetryScript(m)
    PROVE  /\ OthersSame(t)
           /\ t \notin late /\ t \notin late' /\ running[t] # Null =>
                  /\ Moves(t, "leased", "waiting", {m.retry_count})
                  /\ Counts(t) = {running[t].retry_count}
  <1>1. /\ running \in [Tasks -> TaskMessage \cup {Null}]
        /\ status \in [Tasks -> TaskStatus]
    BY DEF BrokerTypeOK
  <1>2. /\ running' = [running EXCEPT ![t] = Null]
        /\ status' = [status EXCEPT ![t] = "retrying"]
        /\ delayed' = delayed \cup {m}
        /\ pending' = pending /\ results' = results /\ dead' = dead
    BY DEF RetryScript
  <1>3. ASSUME NEW u \in Tasks, u # t
        PROVE  Same(u)
    <2>1. running'[u] = running[u] /\ status'[u] = status[u]
      BY <1>1, <1>2, <1>3
    <2>2. Untouched(u)
      BY <1>2, <1>3, <2>1 DEF Untouched
    <2> QED BY <1>3, <2>2, UntouchedSame DEF LateOnly
  <1>4. ASSUME t \notin late, t \notin late', running[t] # Null
        PROVE  /\ Moves(t, "leased", "waiting", {m.retry_count})
               /\ Counts(t) = {running[t].retry_count}
    <2>1. /\ ~InList(pending, t) /\ ~InList(dead, t) /\ results[t] = "none"
          /\ \A n \in delayed : n.id # t
          /\ Phase(t) = "leased" /\ Counts(t) = {running[t].retry_count}
      BY <1>4, RunningPlaces
    <2>2. CopiesIn(pending, t) = {}
      BY <2>1, CopiesNone
    <2>3. CopiesIn(pending, t) \cup {n \in delayed' : n.id = t} = {m}
      BY <1>2, <2>1, <2>2
    <2>4. running'[t] = Null /\ status'[t] = "retrying"
      BY <1>1, <1>2
    <2>5. View(Phase(t)', Counts(t)', pending, delayed', Null, dead, "retrying",
               "none", t)
      BY <1>2, <1>4, <2>1, <2>4, ViewNext
    <2>6. "retrying" # "none"
      OBVIOUS
    <2>7. Phase(t)' = "waiting" /\ Counts(t)' = {m.retry_count}
      BY <2>1, <2>3, <2>5, <2>6, WaitingView, SMTT(60)
    <2> QED BY <2>1, <2>7 DEF Moves
  <1> QED BY <1>3, <1>4 DEF OthersSame

\* kFailScript, called for a lease that is held.
LEMMA FailMoves ==
    ASSUME BrokerTypeOK, RunningKeyed, PlacesInv, NEW t \in Tasks, LateOnly(t),
           FailScript(t)
    PROVE  /\ OthersSame(t)
           /\ t \notin late /\ t \notin late' /\ running[t] # Null =>
                  /\ Moves(t, "leased", "dead", {running[t].retry_count})
                  /\ Counts(t) = {running[t].retry_count}
  <1>1. /\ running \in [Tasks -> TaskMessage \cup {Null}]
        /\ status \in [Tasks -> TaskStatus] /\ dead \in Seq(TaskMessage)
    BY DEF BrokerTypeOK
  <1>2. /\ running' = [running EXCEPT ![t] = Null]
        /\ status' = [status EXCEPT ![t] = "dead"]
        /\ \/ running[t] # Null /\ dead' = Append(dead, running[t])
           \/ running[t] = Null /\ dead' = dead
        /\ pending' = pending /\ results' = results /\ delayed' = delayed
    BY DEF FailScript
  <1>3. running[t] # Null => running[t] \in TaskMessage /\ running[t].id = t
    BY <1>1 DEF RunningKeyed
  <1>4. ASSUME NEW u \in Tasks, u # t
        PROVE  Same(u)
    <2>1. running'[u] = running[u] /\ status'[u] = status[u]
      BY <1>1, <1>2, <1>4
    <2>2. CopiesIn(dead', u) = CopiesIn(dead, u)
      <3>1. CASE running[t] # Null /\ dead' = Append(dead, running[t])
        BY <1>1, <1>3, <1>4, <3>1, CopiesAppend
      <3>2. CASE dead' = dead
        BY <3>2
      <3> QED BY <1>2, <3>1, <3>2
    <2>3. Untouched(u)
      BY <1>2, <2>1, <2>2 DEF Untouched
    <2> QED BY <1>4, <2>3, UntouchedSame DEF LateOnly
  <1>5. ASSUME t \notin late, t \notin late', running[t] # Null
        PROVE  /\ Moves(t, "leased", "dead", {running[t].retry_count})
               /\ Counts(t) = {running[t].retry_count}
    <2>1. /\ ~InList(pending, t) /\ ~InList(dead, t) /\ results[t] = "none"
          /\ \A n \in delayed : n.id # t
          /\ Phase(t) = "leased" /\ Counts(t) = {running[t].retry_count}
      BY <1>5, RunningPlaces
    <2>2. CopiesIn(dead', t) = {running[t]}
      <3>1. CopiesIn(dead, t) = {}
        BY <2>1, CopiesNone
      <3>2. CopiesIn(Append(dead, running[t]), t) = {running[t]}
        BY <1>1, <1>3, <1>5, <3>1, CopiesAppend
      <3> QED BY <1>2, <1>5, <3>2
    <2>3. running'[t] = Null /\ status'[t] = "dead"
      BY <1>1, <1>2
    <2>4. View(Phase(t)', Counts(t)', pending, delayed, Null, dead', "dead", "none", t)
      BY <1>2, <1>5, <2>1, <2>3, ViewNext
    <2>5. "dead" # "none"
      OBVIOUS
    <2>6. Phase(t)' = "dead" /\ Counts(t)' = {running[t].retry_count}
      BY <2>1, <2>2, <2>4, <2>5, DeadView, SMTT(60)
    <2> QED BY <2>1, <2>6 DEF Moves
  <1> QED BY <1>4, <1>5 DEF OthersSame

\* kAckScript, called for a lease that is held.
LEMMA AckMoves ==
    ASSUME BrokerTypeOK, PlacesInv, NEW t \in Tasks, LateOnly(t), AckScript(t)
    PROVE  /\ OthersSame(t)
           /\ t \notin late /\ t \notin late' /\ running[t] # Null =>
                  Moves(t, "leased", "succeeded", {})
  <1>1. /\ running \in [Tasks -> TaskMessage \cup {Null}]
        /\ status \in [Tasks -> TaskStatus] /\ results \in [Tasks -> ResultPayload]
    BY DEF BrokerTypeOK
  <1>2. /\ running' = [running EXCEPT ![t] = Null]
        /\ status' = [status EXCEPT ![t] = "succeeded"]
        /\ results' = [results EXCEPT ![t] = "empty"]
        /\ pending' = pending /\ dead' = dead /\ delayed' = delayed
    BY DEF AckScript
  <1>3. ASSUME NEW u \in Tasks, u # t
        PROVE  Same(u)
    <2>1. /\ running'[u] = running[u] /\ status'[u] = status[u]
          /\ results'[u] = results[u]
      BY <1>1, <1>2, <1>3
    <2>2. Untouched(u)
      BY <1>2, <2>1 DEF Untouched
    <2> QED BY <1>3, <2>2, UntouchedSame DEF LateOnly
  <1>4. ASSUME t \notin late, t \notin late', running[t] # Null
        PROVE  Moves(t, "leased", "succeeded", {})
    <2>1. /\ ~InList(pending, t) /\ ~InList(dead, t)
          /\ \A n \in delayed : n.id # t
          /\ Phase(t) = "leased"
      BY <1>4, RunningPlaces
    <2>2. running'[t] = Null /\ status'[t] = "succeeded" /\ results'[t] = "empty"
      BY <1>1, <1>2
    <2>3. View(Phase(t)', Counts(t)', pending, delayed, Null, dead, "succeeded",
               "empty", t)
      BY <1>2, <1>4, <2>2, ViewNext
    <2>4. "succeeded" # "none" /\ "empty" # "none"
      OBVIOUS
    <2>5. Phase(t)' = "succeeded" /\ Counts(t)' = {}
      BY <2>1, <2>3, <2>4, GoneView, SMTT(60)
    <2> QED BY <2>1, <2>5 DEF Moves
  <1> QED BY <1>3, <1>4 DEF OthersSame

-----------------------------------------------------------------------------
(* The refinement.                                                         *)

phases == [t \in Tasks |-> Phase(t)]

counts == [t \in Tasks |-> Counts(t)]

\* The views of all tasks but one being the same, the step is one of the
\* lifecycle's moves.
LEMMA MoveStep ==
    ASSUME NEW t \in Tasks, OthersSame(t), NEW from, NEW to, NEW cs,
           Moves(t, from, to, cs)
    PROVE  /\ Lifecycle!Move(t, from, to)
           /\ Lifecycle!SetCounts(t, cs)
           /\ Counts(t)' = Counts(t) => UNCHANGED counts
  <1>1. \A u \in Tasks : u # t => Phase(u)' = Phase(u) /\ Counts(u)' = Counts(u)
    BY DEF OthersSame, Same
  <1>2. Phase(t) = from /\ Phase(t)' = to /\ Counts(t)' = cs
    BY DEF Moves
  <1>3. phases' = [phases EXCEPT ![t] = to]
    BY <1>1, <1>2 DEF phases
  <1>4. counts' = [counts EXCEPT ![t] = cs]
    BY <1>1, <1>2 DEF counts
  <1>5. Counts(t)' = Counts(t) => counts' = counts
    BY <1>1 DEF counts
  <1>6. phases[t] = from
    BY <1>2 DEF phases
  <1> QED BY <1>3, <1>4, <1>5, <1>6
             DEF Lifecycle!Move, Lifecycle!SetCounts, phases, counts

\* A step that the lifecycle sees in no task is a stuttering step of it.
LEMMA StutterStep ==
    ASSUME \A u \in Tasks : Same(u)
    PROVE  UNCHANGED <<phases, counts>>
  BY DEF Same, phases, counts

\* A worker only works on a task whose message kReserveScript could decode.
HeldDecodable ==
    \A w \in Workers, th \in Threads :
        hands[w][th] # Null => hands[w][th].id \notin Undecodable

\* Every action keeps it.
LEMMA HeldDecodableStep ==
    ASSUME TypeOK, HeldDecodable, [Next]_vars
    PROVE  HeldDecodable'
  <1>0. hands \in [Workers -> [Threads -> TaskMessage \cup {Null}]]
    BY DEF TypeOK
  <1>1. ASSUME \A w \in Workers, th \in Threads : hands'[w][th] \in {hands[w][th], Null}
        PROVE  HeldDecodable'
    BY <1>1 DEF HeldDecodable
  <1>2. ASSUME NEW w \in Workers, Reserve(w)
        PROVE  HeldDecodable'
    <2>1. ASSUME NEW th \in FreeThreads(w), ReserveScript(now_ms[w]),
                 hands' = [hands EXCEPT ![w][th] = Reservable(now_ms[w])]
          PROVE  HeldDecodable'
      <3>1. Reservable(now_ms[w]).id \notin Undecodable
        BY <2>1 DEF ReserveScript
      <3>2. th \in Threads
        BY DEF FreeThreads
      <3> QED BY <1>0, <2>1, <3>1, <3>2 DEF HeldDecodable
    <2>2. CASE UNCHANGED hands
      BY <1>1, <2>2
    <2> QED BY <1>2, <2>1, <2>2 DEF Reserve
  <1>3. ASSUME NEW w \in Workers, NEW th \in Threads, ProcessTask(w, th)
        PROVE  HeldDecodable'
    <2>1. hands' = [hands EXCEPT ![w][th] = Null]
      BY <1>3 DEF ProcessTask, FailUnknown, Ack, Retry, Fail, Report
    <2> QED BY <1>0, <1>1, <2>1
  <1>4. ASSUME NEW w \in Workers, Crash(w)
        PROVE  HeldDecodable'
    BY <1>0, <1>1, <1>4 DEF Crash
  <1>5. ASSUME NEW w \in Workers,
               StartPoll(w) \/ Promote(w) \/ Scan(w)
                   \/ (\E t \in Tasks : Reclaim(w, t)) \/ StartReserve(w) \/ Restart(w)
        PROVE  UNCHANGED hands
    BY <1>5 DEF StartPoll, Promote, Scan, Reclaim, StartReserve, Restart
  <1>6. ASSUME NEW t \in Tasks, ClientEnqueue(t) \/ ClientRetryDead(t)
        PROVE  UNCHANGED hands
    BY <1>6 DEF ClientEnqueue, ClientRetryDead, workerVars
  <1>7. Tick \/ UNCHANGED vars => UNCHANGED hands
    BY DEF Tick, vars, workerVars
  <1> QED BY <1>1, <1>2, <1>3, <1>4, <1>5, <1>6, <1>7 DEF Next, Poll

\* It always holds.
LEMMA HeldDecodableInvariant == Spec => []HeldDecodable
  <1>1. Init => HeldDecodable
    BY SMTT(60) DEF Init, HeldDecodable
  <1>2. TypeOK /\ HeldDecodable /\ [Next]_vars => HeldDecodable'
    BY HeldDecodableStep
  <1> QED BY <1>1, <1>2, TypeCorrect, PTL DEF Spec

\* A late report, whatever it reports, disputes the task.
LEMMA DisputeStep ==
    ASSUME NoTaskLostInv, HeldDecodable, NEW w \in Workers, NEW th \in Threads,
           NEW t \in Tasks, hands[w][th] # Null, hands[w][th].id = t, t \in late',
           OthersSame(t)
    PROVE  Lifecycle!Dispute(t) \/ UNCHANGED <<phases, counts>>
  <1>1. Phase(t)' = "disputed" /\ Counts(t)' = {}
    BY ViewNext
  <1>2. CASE t \in late
    <2>1. Phase(t) = "disputed" /\ Counts(t) = {}
      BY <1>2, ViewNow
    <2>2. \A u \in Tasks : Same(u)
      BY <1>1, <2>1 DEF OthersSame, Same
    <2> QED BY <2>2, StutterStep
  <1>3. CASE t \notin late
    <2>1. status[t] # "none" /\ t \notin Undecodable
      BY DEF NoTaskLostInv, HeldKnown, HeldDecodable
    <2>2. IsQueued(t) \/ results[t] # "none"
      BY <2>1 DEF NoTaskLostInv, NoTaskLost
    <2>3. Phase(t) \notin {"new", "dropped", "disputed"}
      BY <1>3, <2>1, <2>2 DEF Phase, IsQueued
    <2>4. PICK ph : Phase(t) = ph
      OBVIOUS
    <2>5. Lifecycle!Move(t, ph, "disputed") /\ Lifecycle!SetCounts(t, {})
      BY <1>1, <2>4, MoveStep DEF Moves
    <2> QED BY <2>3, <2>4, <2>5 DEF Lifecycle!Dispute, Lifecycle!Move
  <1> QED BY <1>2, <1>3

\* A report, timely or late, is a step of the lifecycle.
LEMMA ReportStep ==
    ASSUME NoTaskLostInv, PlacesInv, RetryBudget, HeldDecodable,
           NEW w \in Workers, NEW th \in Threads, ProcessTask(w, th)
    PROVE  Lifecycle!Next \/ UNCHANGED <<phases, counts>>
  <1>0. TypeOK /\ BrokerTypeOK /\ RunningKeyed
    BY DEF NoTaskLostInv, TypeOK
  <1>1. PICK m \in TaskMessage : hands[w][th] = m
    BY <1>0, TimelyReport
  <1>2. PICK t \in Tasks : m.id = t
    BY DEF TaskMessage
  <1>3. /\ m # Null
        /\ late \subseteq late'
        /\ t \notin late' => running[t] = m /\ t \notin late
    BY <1>0, <1>1, <1>2, TimelyReport, NullAssumption
  <1>4. LateOnly(t)
    BY <1>1, <1>2
       DEF ProcessTask, FailUnknown, Ack, Retry, Fail, Report, LateOnly
  <1>5. ASSUME OthersSame(t), t \in late'
        PROVE  Lifecycle!Next \/ UNCHANGED <<phases, counts>>
    <2>1. Lifecycle!Dispute(t) \/ UNCHANGED <<phases, counts>>
      BY <1>1, <1>2, <1>3, <1>5, DisputeStep
    <2> QED BY <2>1 DEF Lifecycle!Next
  <1>6. m.retry_count \in Nat /\ Policy[t].max_retries \in Nat
    BY PolicyAssumption DEF TaskMessage, RetryPolicies
  <1>7. CASE Retry(w, th)
    <2>1. PICK n \in DelayedMessage :
              /\ n.id = t /\ n.retry_count = m.retry_count + 1
              /\ m.retry_count + 1 <= Policy[t].max_retries /\ RetryScript(n)
      BY <1>0, <1>1, <1>2, <1>7, RetryWrites
    <2>2. OthersSame(t)
      BY <1>0, <1>4, <2>1, RetryMoves
    <2>3. CASE t \notin late'
      <3>1. /\ Moves(t, "leased", "waiting", {m.retry_count + 1})
            /\ Counts(t) = {m.retry_count}
        BY <1>0, <1>3, <1>4, <2>1, <2>3, RetryMoves
      <3>2. /\ Lifecycle!Move(t, "leased", "waiting")
            /\ Lifecycle!SetCounts(t, {m.retry_count + 1})
        BY <2>2, <3>1, MoveStep
      <3>3. m.retry_count < Policy[t].max_retries
        BY <1>6, <2>1, SMTT(60)
      <3>4. Lifecycle!Retry(t)
        BY <3>1, <3>2, <3>3 DEF Lifecycle!Retry
      <3> QED BY <3>4 DEF Lifecycle!Next
    <2> QED BY <1>5, <2>2, <2>3
  <1>8. CASE Ack(w, th)
    <2>1. AckScript(t)
      BY <1>1, <1>2, <1>8 DEF Ack
    <2>2. OthersSame(t)
      BY <1>0, <1>4, <2>1, AckMoves
    <2>3. CASE t \notin late'
      <3>1. Moves(t, "leased", "succeeded", {})
        BY <1>0, <1>3, <1>4, <2>1, <2>3, AckMoves
      <3>2. Lifecycle!Succeed(t)
        BY <2>2, <3>1, MoveStep DEF Lifecycle!Succeed
      <3> QED BY <3>2 DEF Lifecycle!Next
    <2> QED BY <1>5, <2>2, <2>3
  <1>9. CASE FailUnknown(w, th) \/ Fail(w, th)
    <2>1. FailScript(t)
      BY <1>1, <1>2, <1>9 DEF FailUnknown, Fail
    <2>2. OthersSame(t)
      BY <1>0, <1>4, <2>1, FailMoves
    <2>3. (\A v \in Workers : t \in Handles[v]) => m.retry_count = Policy[t].max_retries
      <3>1. m.retry_count <= Policy[t].max_retries
        BY <1>1, <1>2, <1>3 DEF RetryBudget
      <3>2. CASE FailUnknown(w, th)
        BY <1>1, <1>2, <3>2 DEF FailUnknown
      <3>3. CASE Fail(w, th)
        <4>1. ~ShouldRetry(m.retry_count, Policy[t])
          BY <1>1, <1>2, <3>3 DEF Fail
        <4> QED BY <1>6, <3>1, <4>1, SMTT(60) DEF ShouldRetry
      <3> QED BY <1>9, <3>2, <3>3
    <2>4. CASE t \notin late'
      <3>1. /\ Moves(t, "leased", "dead", {m.retry_count})
            /\ Counts(t) = {m.retry_count}
        BY <1>0, <1>3, <1>4, <2>1, <2>4, FailMoves
      <3>2. Counts(t)' = Counts(t)
        BY <3>1 DEF Moves
      <3>3. Lifecycle!Move(t, "leased", "dead") /\ UNCHANGED counts
        BY <2>2, <3>1, <3>2, MoveStep
      <3>4. Lifecycle!Bury(t)
        BY <2>3, <3>1, <3>3 DEF Lifecycle!Bury, counts
      <3> QED BY <3>4 DEF Lifecycle!Next
    <2> QED BY <1>5, <2>2, <2>4
  <1> QED BY <1>7, <1>8, <1>9 DEF ProcessTask

\* Every step of the queue is a step of the lifecycle of one task, or does not
\* show there.
LEMMA LifecycleStep ==
    ASSUME NoTaskLostInv, PlacesInv, RetryBudget, HeldDecodable, [Next]_vars
    PROVE  Lifecycle!Next \/ UNCHANGED <<phases, counts>>
  <1>0. TypeOK /\ BrokerTypeOK /\ RunningKeyed
    BY DEF NoTaskLostInv, TypeOK
  <1>1. ASSUME UNCHANGED brokerVars, late' = late
        PROVE  UNCHANGED <<phases, counts>>
    <2>1. \A u \in Tasks : Untouched(u)
      BY <1>1 DEF brokerVars, Untouched
    <2>2. \A u \in Tasks : Same(u)
      BY <1>1, <2>1, UntouchedSame
    <2> QED BY <2>2, StutterStep
  <1>2. ASSUME NEW t \in Tasks, OthersSame(t), t \in late, late' = late
        PROVE  UNCHANGED <<phases, counts>>
    <2>1. Same(t)
      BY <1>2, UntouchedSame
    <2>2. \A u \in Tasks : Same(u)
      BY <1>2, <2>1 DEF OthersSame
    <2> QED BY <2>2, StutterStep
  <1>3. ASSUME NEW t \in Tasks, ClientEnqueue(t)
        PROVE  Lifecycle!Next \/ UNCHANGED <<phases, counts>>
    <2>1. OthersSame(t) /\ (t \notin late => Moves(t, "new", "waiting", {0}))
      BY <1>0, <1>3, EnqueueMoves DEF ClientEnqueue
    <2>2. t \notin late => Lifecycle!Enqueue(t)
      BY <2>1, MoveStep DEF Lifecycle!Enqueue
    <2> QED BY <1>2, <1>3, <2>1, <2>2 DEF Lifecycle!Next, ClientEnqueue
  <1>4. ASSUME NEW t \in Tasks, ClientRetryDead(t)
        PROVE  Lifecycle!Next \/ UNCHANGED <<phases, counts>>
    <2>1. OthersSame(t) /\ (t \notin late => Moves(t, "dead", "waiting", {0}))
      BY <1>0, <1>4, RetryDeadMoves DEF ClientRetryDead
    <2>2. t \notin late => Lifecycle!Requeue(t)
      BY <2>1, MoveStep DEF Lifecycle!Requeue
    <2> QED BY <1>2, <1>4, <2>1, <2>2 DEF Lifecycle!Next, ClientRetryDead
  <1>5. ASSUME NEW t \in Tasks, OthersSame(t), t \in Undecodable, late' = late,
               t \notin late => Moves(t, "waiting", "dropped", {})
        PROVE  Lifecycle!Next \/ UNCHANGED <<phases, counts>>
    <2>1. t \notin late => Lifecycle!Drop(t)
      BY <1>5, MoveStep DEF Lifecycle!Drop
    <2> QED BY <1>2, <1>5, <2>1 DEF Lifecycle!Next
  <1>6. ASSUME NEW w \in Workers, Promote(w)
        PROVE  Lifecycle!Next \/ UNCHANGED <<phases, counts>>
    <2>0. late' = late
      BY <1>6 DEF Promote
    <2>1. ASSUME NEW m \in delayed, PromoteOneScript(m, now_ms[w])
          PROVE  UNCHANGED <<phases, counts>>
      <3>1. \A u \in Tasks : Same(u)
        BY <1>0, <2>0, <2>1, PromoteOneMoves
      <3> QED BY <3>1, StutterStep
    <2>2. ASSUME NEW m \in delayed, PromoteDropScript(m, now_ms[w])
          PROVE  Lifecycle!Next \/ UNCHANGED <<phases, counts>>
      <3>1. PICK t \in Tasks : m.id = t
        BY <1>0 DEF BrokerTypeOK
      <3>2. OthersSame(t) /\ (t \notin late => Moves(t, "waiting", "dropped", {}))
        BY <1>0, <2>0, <2>2, <3>1, PromoteDropMoves
      <3>3. t \in Undecodable
        BY <2>2, <3>1 DEF PromoteDropScript
      <3> QED BY <1>5, <2>0, <3>2, <3>3
    <2> QED BY <1>1, <1>6, <2>0, <2>1, <2>2 DEF Promote
  <1>7. ASSUME NEW w \in Workers, NEW t \in Tasks, Reclaim(w, t)
        PROVE  Lifecycle!Next \/ UNCHANGED <<phases, counts>>
    <2>0. late' = late
      BY <1>7 DEF Reclaim
    <2>1. CASE ReclaimOneScript(t, now_ms[w], VisibilityTimeout[w])
      <3>1. /\ OthersSame(t)
            /\ t \notin late => /\ Moves(t, "leased", "waiting", Counts(t)')
                                /\ Counts(t)' = Counts(t)
        BY <1>0, <2>0, <2>1, ReclaimMoves
      <3>2. PICK cs : cs = Counts(t)'
        OBVIOUS
      <3>3. t \notin late => Moves(t, "leased", "waiting", cs)
        BY <3>1, <3>2 DEF Moves
      <3>4. t \notin late => Lifecycle!Move(t, "leased", "waiting") /\ UNCHANGED counts
        BY <3>1, <3>3, MoveStep
      <3>5. t \notin late => Lifecycle!Release(t)
        BY <3>4 DEF Lifecycle!Release, counts
      <3> QED BY <1>2, <2>0, <3>1, <3>5 DEF Lifecycle!Next
    <2> QED BY <1>1, <1>7, <2>0, <2>1 DEF Reclaim
  <1>8. ASSUME NEW w \in Workers, Reserve(w)
        PROVE  Lifecycle!Next \/ UNCHANGED <<phases, counts>>
    <2>0. late' = late /\ now_ms[w] \in Time
      BY <1>0, <1>8 DEF Reserve, TypeOK
    <2>1. ASSUME pending # <<>>
          PROVE  Head(pending) \in TaskMessage
      BY <1>0, <2>1, TailFacts DEF BrokerTypeOK
    <2>2. CASE ReserveScript(now_ms[w])
      <3>1. PICK t \in Tasks : Head(pending).id = t
        BY <2>1, <2>2 DEF ReserveScript, TaskMessage
      <3>2. /\ OthersSame(t)
            /\ t \notin late => /\ Moves(t, "waiting", "leased", Counts(t)')
                                /\ Counts(t)' = Counts(t)
        BY <1>0, <2>0, <2>2, <3>1, ReserveMoves
      <3>3. PICK cs : cs = Counts(t)'
        OBVIOUS
      <3>4. t \notin late => Moves(t, "waiting", "leased", cs)
        BY <3>2, <3>3 DEF Moves
      <3>5. t \notin late => Lifecycle!Move(t, "waiting", "leased") /\ UNCHANGED counts
        BY <3>2, <3>4, MoveStep
      <3>6. t \notin late => Lifecycle!Lease(t)
        BY <3>5 DEF Lifecycle!Lease, counts
      <3> QED BY <1>2, <2>0, <3>2, <3>6 DEF Lifecycle!Next
    <2>3. CASE ReserveDropScript
      <3>1. PICK t \in Tasks : Head(pending).id = t
        BY <2>1, <2>3 DEF ReserveDropScript, TaskMessage
      <3>2. OthersSame(t) /\ (t \notin late => Moves(t, "waiting", "dropped", {}))
        BY <1>0, <2>0, <2>3, <3>1, ReserveDropMoves
      <3>3. t \in Undecodable
        BY <2>3, <3>1 DEF ReserveDropScript
      <3> QED BY <1>5, <2>0, <3>2, <3>3
    <2> QED BY <1>1, <1>8, <2>0, <2>2, <2>3 DEF Reserve
  <1>9. ASSUME NEW w \in Workers,
               StartPoll(w) \/ Scan(w) \/ StartReserve(w) \/ Crash(w) \/ Restart(w)
        PROVE  UNCHANGED <<phases, counts>>
    BY <1>1, <1>9 DEF StartPoll, Scan, StartReserve, Crash, Restart
  <1>10. Tick \/ UNCHANGED vars => UNCHANGED <<phases, counts>>
    BY <1>1 DEF Tick, vars
  <1> QED BY <1>3, <1>4, <1>6, <1>7, <1>8, <1>9, <1>10, ReportStep
             DEF Next, Poll

\* Through all polls, crashes, clocks and races a task lives the life that
\* TaskLifecycle describes, until a worker that has lost its lease reports for it.
THEOREM QueueImplementsLifecycle == Spec => ImplementsLifecycle
  <1>1. Init => Lifecycle!Init
    <2>1. ASSUME Init
          PROVE  \A t \in Tasks : Phase(t) = "new" /\ Counts(t) = {}
      <3>1. /\ pending = <<>> /\ dead = <<>> /\ delayed = {} /\ late = {}
            /\ \A t \in Tasks : status[t] = "none" /\ running[t] = Null
        BY <2>1 DEF Init, BrokerInit
      <3>2. \A t : ~InList(pending, t) /\ ~InList(dead, t)
        <4>1. Len(pending) = 0 /\ Len(dead) = 0
          BY <3>1
        <4>2. 1..0 = {}
          BY SMTT(60)
        <4> QED BY <4>1, <4>2 DEF InList
      <3>3. \A t : CopiesIn(pending, t) = {} /\ CopiesIn(dead, t) = {}
        BY <3>2, CopiesNone
      <3>4. ASSUME NEW t \in Tasks
            PROVE  Phase(t) = "new" /\ Counts(t) = {}
        <4>1. View(Phase(t), Counts(t), pending, delayed, running[t], dead,
                   status[t], results[t], t)
          BY <3>1, ViewNow
        <4>2. AllCopies(pending, delayed, running[t], dead, t) = {}
          BY <3>1, <3>3 DEF AllCopies
        <4> QED BY <3>1, <4>1, <4>2 DEF View, PhaseIs
      <3> QED BY <3>4
    <2> QED BY <2>1 DEF Lifecycle!Init
  <1>2. NoTaskLostInv /\ PlacesInv /\ RetryBudget /\ HeldDecodable /\ [Next]_vars
            => [Lifecycle!Next]_<<[t \in Tasks |-> Phase(t)], [t \in Tasks |-> Counts(t)]>>
    BY LifecycleStep DEF phases, counts
  <1> QED BY <1>1, <1>2, KeptInvariant, PlacesInvariant, RetriesAreBounded,
             HeldDecodableInvariant, PTL
             DEF Spec, ImplementsLifecycle, Lifecycle!Spec

==============================================================================
