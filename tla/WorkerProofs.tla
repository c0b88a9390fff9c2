----------------------------- MODULE WorkerProofs -----------------------------
(***************************************************************************)
(* Proofs about the life of a Worker: every task in flight has a thread,   *)
(* and a call returns only when what was reserved has been reported.       *)
(***************************************************************************)
EXTENDS Worker, FiniteSetTheorems, TLAPS

\* The leaves are for Zenon unless they name another prover.
USE ZenonT(60)

-----------------------------------------------------------------------------
(* Inductive invariants.                                                   *)

\* The threads that execute a task.
Busy == {th \in Threads : slot[th] # None}

\* Between the test of CanAcceptTask and the submit nobody else adds a task to
\* the pool; outside of Run the pool is idle; and a closed pool, which gets no
\* more tasks, is idle once it has been joined.
CapacityInv ==
    /\ TaskHasThread
    /\ pc \in {"lock", "poll", "submit"} => CanAcceptTask
    /\ pc \in {"outside", "once_lock", "once_poll", "once_submit"} => PoolIsIdle
    /\ closed /\ pc # "join" => PoolIsIdle

\* A task that is in the pool, waiting or in a thread.
InPool(t) == Pool!Queued(t) \/ \E th \in Threads : slot[th] = t

\* Where the tasks that were reserved are, and that no others are there.
TakenInv ==
    /\ \A t \in taken : t \in reported \cup dropped \/ t = reserved \/ InPool(t)
    /\ reported \cup dropped \subseteq taken
    /\ \A i \in 1..Len(queue) : queue[i] \in taken
    /\ \A th \in Threads : slot[th] # None => slot[th] \in taken
    /\ reserved # None => reserved \in taken
    /\ reserved # None <=> pc \in {"submit", "once_submit"}

\* A thread that holds the mutex has a task that it has not reported.
ReportingInv ==
    \A th \in Threads : broker_mutex_ = th => slot[th] \notin reported \cup {None}

\* During the first call the pool is open until Run is about to return.
FirstCallInv ==
    /\ calls = 0 => pc = "outside" /\ ~closed
    /\ calls <= 1 /\ closed => pc \in {"join", "outside"}
    /\ calls <= 1 => dropped = {}

WorkerInv == TypeOK /\ CapacityInv /\ TakenInv /\ ReportingInv /\ FirstCallInv

-----------------------------------------------------------------------------
(* Counting the tasks in flight.                                           *)

\* The busy threads are finitely many, and so are the tasks in flight.
LEMMA InFlightNat ==
    ASSUME TypeOK
    PROVE  /\ IsFiniteSet(Busy) /\ Cardinality(Busy) \in Nat
           /\ Len(queue) \in Nat
           /\ InFlightCount = Len(queue) + Cardinality(Busy)
           /\ InFlightCount \in Nat
           /\ Cardinality(Threads) \in Nat \ {0}
  <1>1. Busy \in SUBSET Threads
    BY DEF Busy
  <1>2. IsFiniteSet(Busy)
    BY <1>1, FS_Subset, WorkerAssumption
  <1>3. Cardinality(Busy) \in Nat /\ Cardinality(Threads) \in Nat
    BY <1>2, FS_CardinalityType, WorkerAssumption
  <1>4. Cardinality(Threads) # 0
    BY FS_EmptySet, WorkerAssumption
  <1>5. Len(queue) \in Nat
    BY SMTT(60) DEF TypeOK
  <1>6. InFlightCount = Len(queue) + Cardinality(Busy)
    BY DEF InFlightCount, Busy
  <1> QED BY <1>2, <1>3, <1>4, <1>5, <1>6, SMTT(60)

\* An idle pool has nothing in flight.
LEMMA IdleCount ==
    ASSUME TypeOK, PoolIsIdle
    PROVE  InFlightCount = 0
  <1>1. Busy = {} /\ Len(queue) = 0
    BY DEF Busy, PoolIsIdle
  <1>2. Cardinality(Busy) = 0
    BY <1>1, FS_EmptySet
  <1> QED BY <1>1, <1>2, InFlightNat, SMTT(60)

\* A thread that takes a task becomes busy, one that finishes becomes free.
LEMMA BusyCount ==
    ASSUME TypeOK, TypeOK', NEW th \in Threads, NEW t \in Tasks
    PROVE  /\ slot[th] = None /\ slot' = [slot EXCEPT ![th] = t]
              => Cardinality(Busy') = Cardinality(Busy) + 1
           /\ slot[th] # None /\ slot' = [slot EXCEPT ![th] = None]
              => Cardinality(Busy') = Cardinality(Busy) - 1
  <1>1. ASSUME slot[th] = None, slot' = [slot EXCEPT ![th] = t]
        PROVE  Cardinality(Busy') = Cardinality(Busy) + 1
    <2>1. t # None
      BY WorkerAssumption
    <2>2. Busy' = Busy \cup {th} /\ th \notin Busy
      BY <1>1, <2>1 DEF Busy, TypeOK
    <2> QED BY <2>2, InFlightNat, FS_AddElement
  <1>2. ASSUME slot[th] # None, slot' = [slot EXCEPT ![th] = None]
        PROVE  Cardinality(Busy') = Cardinality(Busy) - 1
    <2>1. Busy' = Busy \ {th} /\ th \in Busy
      BY <1>2 DEF Busy, TypeOK
    <2> QED BY <2>1, InFlightNat, FS_RemoveElement
  <1> QED BY <1>1, <1>2

\* A submit adds one to the tasks in flight, the start of a task nothing, and
\* its end takes one away.
LEMMA AcceptCount ==
    ASSUME TypeOK, TypeOK', NEW t \in Tasks, queue' = Append(queue, t), slot' = slot
    PROVE  InFlightCount' = InFlightCount + 1
  <1>1. Len(queue') = Len(queue) + 1
    BY SMTT(60) DEF TypeOK
  <1>2. Busy' = Busy
    BY DEF Busy
  <1>3. /\ InFlightCount = Len(queue) + Cardinality(Busy)
        /\ Len(queue) \in Nat /\ Cardinality(Busy) \in Nat
    BY InFlightNat
  <1>4. InFlightCount' = Len(queue') + Cardinality(Busy')
    BY DEF InFlightCount, Busy
  <1> QED BY <1>1, <1>2, <1>3, <1>4, SMTT(60)

\* A thread that takes a function from the deque keeps their number.
LEMMA StartCount ==
    ASSUME TypeOK, TypeOK', NEW th \in Threads, Pool!Start(th)
    PROVE  InFlightCount' = InFlightCount
  <1>1. Head(queue) \in Tasks /\ Len(queue') = Len(queue) - 1
    BY SMTT(60) DEF TypeOK, Pool!Start
  <1>2. slot[th] = None /\ slot' = [slot EXCEPT ![th] = Head(queue)]
    BY DEF Pool!Start
  <1>3. Cardinality(Busy') = Cardinality(Busy) + 1
    BY <1>1, <1>2, BusyCount
  <1>4. /\ InFlightCount = Len(queue) + Cardinality(Busy)
        /\ Len(queue) \in Nat /\ Cardinality(Busy) \in Nat
    BY InFlightNat
  <1>5. InFlightCount' = Len(queue') + Cardinality(Busy')
    BY DEF InFlightCount, Busy
  <1> QED BY <1>1, <1>3, <1>4, <1>5, SMTT(60)

\* A function that ends is one less in flight.
LEMMA FinishCount ==
    ASSUME TypeOK, TypeOK', NEW th \in Threads, Pool!Finish(th)
    PROVE  InFlightCount' = InFlightCount - 1
  <1>1. slot[th] # None /\ slot' = [slot EXCEPT ![th] = None] /\ queue' = queue
    BY DEF Pool!Finish
  <1>2. slot[th] \in Tasks
    BY <1>1 DEF TypeOK
  <1>3. Cardinality(Busy') = Cardinality(Busy) - 1
    BY <1>1, <1>2, BusyCount
  <1>4. /\ InFlightCount = Len(queue) + Cardinality(Busy)
        /\ Len(queue) \in Nat /\ Cardinality(Busy) \in Nat
    BY InFlightNat
  <1>5. InFlightCount' = Len(queue') + Cardinality(Busy')
    BY DEF InFlightCount, Busy
  <1> QED BY <1>1, <1>3, <1>4, <1>5, SMTT(60)

\* What does not touch the pool leaves its counts alone.
LEMMA PoolSame ==
    ASSUME UNCHANGED poolVars
    PROVE  /\ InFlightCount' = InFlightCount
           /\ PoolIsIdle' <=> PoolIsIdle
           /\ CanAcceptTask' <=> CanAcceptTask
           /\ TaskHasThread' <=> TaskHasThread
  <1>1. queue' = queue /\ slot' = slot
    BY DEF poolVars
  <1> QED BY <1>1 DEF InFlightCount, PoolIsIdle, CanAcceptTask, TaskHasThread

-----------------------------------------------------------------------------
(* Types.  That what is submitted and what is reported is a task, and not   *)
(* None, needs TakenInv and ReportingInv.                                  *)

\* No step of the calling thread, of the pool or of the signal leaves the types.
LEMMA TypeStep ==
    ASSUME WorkerInv, Next
    PROVE  TypeOK'
  <1> USE DEF poolVars, historyVars
  <1>1. ASSUME Run \/ RunOnce
        PROVE  TypeOK'
    <2>1. calls' \in 0..MaxCalls
      BY <1>1, WorkerAssumption, SMTT(60) DEF WorkerInv, TypeOK, Run, RunOnce
    <2>2. pc' \in CallerStates /\ running_' \in BOOLEAN
      BY <1>1 DEF WorkerInv, TypeOK, Run, RunOnce, CallerStates
    <2> QED BY <1>1, <2>1, <2>2 DEF WorkerInv, TypeOK, Run, RunOnce
  <1>2. ASSUME TestRunning \/ SkipHeartbeat \/ TestCapacity \/ Return
        PROVE  TypeOK'
    BY <1>2
       DEF WorkerInv, TypeOK, TestRunning, SkipHeartbeat, TestCapacity, Return,
           CallerStates
  <1>3. ASSUME PublishHeartbeat \/ LockBroker \/ PollNothing
        PROVE  TypeOK'
    BY <1>3, SMTT(60)
       DEF WorkerInv, TypeOK, PublishHeartbeat, LockBroker, Locked, PollNothing,
           CallerStates
  <1>4. ASSUME NEW t \in Tasks, PollTask(t)
        PROVE  TypeOK'
    BY <1>4 DEF WorkerInv, TypeOK, PollTask, CallerStates
  <1>5. CASE Submit
    <2>1. reserved \in Tasks
      BY <1>5 DEF WorkerInv, TypeOK, TakenInv, Submit
    <2>2. queue' \in Seq(Tasks) /\ slot' = slot /\ done' = done /\ closed' = closed
      BY <1>5, <2>1, SMTT(60) DEF WorkerInv, TypeOK, Submit, Pool!Accept
    <2>3. dropped' \in SUBSET Tasks /\ pc' \in CallerStates
      BY <1>5, <2>1 DEF WorkerInv, TypeOK, Submit, CallerStates
    <2> QED BY <1>5, <2>2, <2>3 DEF WorkerInv, TypeOK, Submit
  <1>6. ASSUME Shutdown \/ Stop
        PROVE  TypeOK'
    BY <1>6 DEF WorkerInv, TypeOK, Shutdown, Stop, Pool!Close, CallerStates
  <1>7. ASSUME NEW th \in Threads, StartTask(th)
        PROVE  TypeOK'
    BY <1>7, SMTT(60) DEF WorkerInv, TypeOK, StartTask, Pool!Start, CallerStates
  <1>8. ASSUME NEW th \in Threads, LockReport(th)
        PROVE  TypeOK'
    BY <1>8 DEF WorkerInv, TypeOK, LockReport
  <1>9. ASSUME NEW th \in Threads, ReportTask(th)
        PROVE  TypeOK'
    <2>1. slot[th] \in Tasks
      BY <1>9 DEF WorkerInv, TypeOK, ReportingInv, ReportTask
    <2> QED BY <1>9, <2>1 DEF WorkerInv, TypeOK, ReportTask
  <1>10. ASSUME NEW th \in Threads, FinishTask(th)
         PROVE  TypeOK'
    BY <1>10 DEF WorkerInv, TypeOK, FinishTask, Pool!Finish
  <1> QED BY <1>1, <1>2, <1>3, <1>4, <1>5, <1>6, <1>7, <1>8, <1>9, <1>10
             DEF Next, Continue, ThreadStep

-----------------------------------------------------------------------------
(* Capacity.                                                               *)

\* A step of the calling thread that does not touch the pool keeps what its
\* next state needs to know of the pool.
LEMMA CallerCapacity ==
    ASSUME WorkerInv, UNCHANGED <<queue, slot, done, closed>>,
           pc' \in {"lock", "poll", "submit"} => CanAcceptTask,
           pc' \in {"outside", "once_lock", "once_poll", "once_submit"} => PoolIsIdle,
           closed => pc # "join" \/ PoolIsIdle
    PROVE  CapacityInv'
  <1>1. UNCHANGED poolVars
    BY DEF poolVars
  <1>2. /\ PoolIsIdle' <=> PoolIsIdle
        /\ CanAcceptTask' <=> CanAcceptTask
        /\ TaskHasThread' <=> TaskHasThread
    BY <1>1, PoolSame
  <1>3. CapacityInv
    BY DEF WorkerInv
  <1> QED BY <1>2, <1>3 DEF CapacityInv

\* What an idle pool and the test of the capacity mean for the counts.
LEMMA CapacityStep ==
    ASSUME WorkerInv, Next, TypeOK'
    PROVE  CapacityInv'
  <1> USE DEF poolVars, historyVars
  <1>a. TypeOK /\ CapacityInv
    BY DEF WorkerInv
  <1>1. ASSUME Run \/ RunOnce \/ TestRunning \/ SkipHeartbeat \/ TestCapacity \/ Return
        PROVE  CapacityInv'
    <2>1. /\ UNCHANGED <<queue, slot, done, closed>>
          /\ pc' \in {"lock", "poll", "submit"} => CanAcceptTask
          /\ pc' \in {"outside", "once_lock", "once_poll", "once_submit"} => PoolIsIdle
          /\ pc # "join" \/ PoolIsIdle
      BY <1>a, <1>1
         DEF CapacityInv, Run, RunOnce, TestRunning, SkipHeartbeat,
             TestCapacity, Return
    <2> QED BY <2>1, CallerCapacity
  <1>2. ASSUME PublishHeartbeat \/ LockBroker \/ PollNothing
        PROVE  CapacityInv'
    <2>1. /\ UNCHANGED <<queue, slot, done, closed>>
          /\ pc' \in {"lock", "poll", "submit"} => CanAcceptTask
          /\ pc' \in {"outside", "once_lock", "once_poll", "once_submit"} => PoolIsIdle
          /\ pc # "join"
      BY <1>a, <1>2, SMTT(60)
         DEF CapacityInv, PublishHeartbeat, LockBroker, Locked, PollNothing
    <2> QED BY <2>1, CallerCapacity
  <1>3. ASSUME NEW t \in Tasks, PollTask(t)
        PROVE  CapacityInv'
    <2>1. /\ UNCHANGED <<queue, slot, done, closed>>
          /\ pc' \in {"lock", "poll", "submit"} => CanAcceptTask
          /\ pc' \in {"outside", "once_lock", "once_poll", "once_submit"} => PoolIsIdle
          /\ pc # "join"
      BY <1>a, <1>3 DEF CapacityInv, PollTask
    <2> QED BY <2>1, CallerCapacity
  <1>4. ASSUME Submit, Pool!Accept(reserved)
        PROVE  CapacityInv'
    <2>1. reserved \in Tasks
      BY <1>4 DEF WorkerInv, TypeOK, TakenInv, Submit
    <2>2. queue' = Append(queue, reserved) /\ slot' = slot /\ ~closed'
      BY <1>4 DEF Pool!Accept
    <2>3. InFlightCount' = InFlightCount + 1
      BY <1>a, <2>1, <2>2, AcceptCount
    <2>4. /\ InFlightCount \in Nat
          /\ Cardinality(Threads) \in Nat \ {0}
          /\ PoolIsIdle => InFlightCount = 0
      BY <1>a, InFlightNat, IdleCount
    <2>5. CanAcceptTask \/ PoolIsIdle
      BY <1>a, <1>4 DEF CapacityInv, Submit
    <2>6. InFlightCount < Cardinality(Threads)
      BY <2>4, <2>5, SMTT(60) DEF CanAcceptTask
    <2>7. InFlightCount' <= Cardinality(Threads)
      BY <2>3, <2>4, <2>6, SMTT(60)
    <2>8. pc' \in {"loop", "once_wait"}
      BY <1>4 DEF Submit
    <2> QED BY <2>2, <2>7, <2>8 DEF CapacityInv, TaskHasThread
  <1>5. ASSUME Submit, ~Pool!Accept(reserved)
        PROVE  CapacityInv'
    <2>1. /\ UNCHANGED <<queue, slot, done, closed>>
          /\ pc' \in {"loop", "once_wait"}
          /\ pc # "join"
      BY <1>5 DEF Submit
    <2>2. /\ pc' \in {"lock", "poll", "submit"} => CanAcceptTask
          /\ pc' \in {"outside", "once_lock", "once_poll", "once_submit"} => PoolIsIdle
      BY <2>1
    <2> QED BY <2>1, <2>2, CallerCapacity
  <1>6. ASSUME Shutdown, closed
        PROVE  CapacityInv'
    <2>1. /\ UNCHANGED <<queue, slot, done, closed>>
          /\ pc' = "outside"
          /\ pc # "join" /\ PoolIsIdle
      BY <1>a, <1>6 DEF CapacityInv, Shutdown
    <2>2. /\ pc' \in {"lock", "poll", "submit"} => CanAcceptTask
          /\ pc' \in {"outside", "once_lock", "once_poll", "once_submit"} => PoolIsIdle
      BY <2>1
    <2> QED BY <2>1, <2>2, CallerCapacity
  <1>7. ASSUME Shutdown, ~closed
        PROVE  CapacityInv'
    <2>1. queue' = queue /\ slot' = slot /\ pc' = "join"
      BY <1>7 DEF Shutdown, Pool!Close
    <2>2. TaskHasThread'
      BY <1>a, <2>1 DEF CapacityInv, TaskHasThread, InFlightCount
    <2> QED BY <2>1, <2>2 DEF CapacityInv
  <1>8. ASSUME NEW th \in Threads, StartTask(th)
        PROVE  CapacityInv'
    <2>1. InFlightCount' = InFlightCount
      BY <1>a, <1>8, StartCount DEF StartTask
    <2>2. ~PoolIsIdle /\ UNCHANGED <<pc, closed>>
      BY <1>8 DEF StartTask, Pool!Start, PoolIsIdle
    <2> QED BY <1>a, <2>1, <2>2 DEF CapacityInv, TaskHasThread, CanAcceptTask
  <1>9. ASSUME NEW th \in Threads, FinishTask(th)
        PROVE  CapacityInv'
    <2>1. InFlightCount' = InFlightCount - 1
      BY <1>a, <1>9, FinishCount DEF FinishTask
    <2>2. ~PoolIsIdle /\ UNCHANGED <<pc, closed>>
      BY <1>9 DEF FinishTask, Pool!Finish, PoolIsIdle
    <2>3. InFlightCount \in Nat /\ Cardinality(Threads) \in Nat
      BY <1>a, InFlightNat
    <2> QED BY <1>a, <2>1, <2>2, <2>3, SMTT(60)
               DEF CapacityInv, TaskHasThread, CanAcceptTask
  <1>10. ASSUME Stop \/ \E th \in Threads : LockReport(th) \/ ReportTask(th)
         PROVE  CapacityInv'
    <2>1. UNCHANGED poolVars /\ pc' = pc /\ closed' = closed
      BY <1>10 DEF Stop, LockReport, ReportTask
    <2>2. /\ PoolIsIdle' <=> PoolIsIdle
          /\ CanAcceptTask' <=> CanAcceptTask
          /\ TaskHasThread' <=> TaskHasThread
      BY <2>1, PoolSame
    <2> QED BY <1>a, <2>1, <2>2, SMTT(60) DEF CapacityInv
  <1>11. ASSUME Submit \/ Shutdown
         PROVE  CapacityInv'
    BY <1>4, <1>5, <1>6, <1>7, <1>11
  <1> QED BY <1>1, <1>2, <1>3, <1>8, <1>9, <1>10, <1>11
             DEF Next, Continue, ThreadStep

-----------------------------------------------------------------------------
(* The whereabouts of the tasks.                                           *)

\* A submitted task is in the pool, behind the others.
LEMMA AcceptPlaces ==
    ASSUME TypeOK, NEW j \in Tasks, queue' = Append(queue, j), slot' = slot
    PROVE  /\ \A t : InPool(t) \/ t = j => InPool(t)'
           /\ \A i \in 1..Len(queue') :
                  queue'[i] = j \/ \E k \in 1..Len(queue) : queue'[i] = queue[k]
  <1>1. /\ Len(queue) \in Nat
        /\ Len(queue') = Len(queue) + 1
        /\ \A i \in 1..Len(queue) : queue'[i] = queue[i]
        /\ queue'[Len(queue) + 1] = j
    BY SMTT(60) DEF TypeOK
  <1>2. ASSUME NEW t, Pool!Queued(t)
        PROVE  Pool!Queued(t)'
    <2>1. PICK i \in 1..Len(queue) : queue[i] = t
      BY <1>2 DEF Pool!Queued
    <2>2. i \in 1..Len(queue') /\ queue'[i] = t
      BY <1>1, <2>1, SMTT(60)
    <2> QED BY <2>2 DEF Pool!Queued
  <1>3. Pool!Queued(j)'
    <2>1. Len(queue) + 1 \in 1..Len(queue')
      BY <1>1, SMTT(60)
    <2> QED BY <1>1, <2>1 DEF Pool!Queued
  <1>4. ASSUME NEW i \in 1..Len(queue')
        PROVE  queue'[i] = j \/ \E k \in 1..Len(queue) : queue'[i] = queue[k]
    BY <1>1, SMTT(60)
  <1> QED BY <1>2, <1>3, <1>4 DEF InPool

\* A started task leaves the queue and is in its thread.
LEMMA StartPlaces ==
    ASSUME TypeOK, NEW th \in Threads, Pool!Start(th)
    PROVE  /\ \A t : t # None /\ InPool(t) => InPool(t)'
           /\ \A i \in 1..Len(queue') : \E k \in 1..Len(queue) : queue'[i] = queue[k]
           /\ \A u \in Threads : slot'[u] # slot[u] =>
                  u = th /\ \E k \in 1..Len(queue) : slot'[u] = queue[k]
  <1>1. /\ Len(queue) \in Nat \ {0}
        /\ Head(queue) = queue[1]
        /\ Len(queue') = Len(queue) - 1
        /\ \A i \in 1..(Len(queue) - 1) : queue'[i] = queue[i + 1]
    BY SMTT(60) DEF TypeOK, Pool!Start
  <1>2. /\ slot[th] = None
        /\ slot'[th] = queue[1]
        /\ \A u \in Threads \ {th} : slot'[u] = slot[u]
    BY <1>1 DEF TypeOK, Pool!Start
  <1>3. ASSUME NEW t, t # None, InPool(t)
        PROVE  InPool(t)'
    <2>1. CASE Pool!Queued(t)
      <3>1. PICK i \in 1..Len(queue) : queue[i] = t
        BY <2>1 DEF Pool!Queued
      <3>2. CASE i = 1
        <4>1. slot'[th] = t
          BY <1>2, <3>1, <3>2
        <4> QED BY <4>1 DEF InPool
      <3>3. CASE i # 1
        <4>1. i - 1 \in 1..Len(queue') /\ queue'[i - 1] = t
          BY <1>1, <3>1, <3>3, SMTT(60)
        <4>2. Pool!Queued(t)'
          BY <4>1 DEF Pool!Queued
        <4> QED BY <4>2 DEF InPool
      <3> QED BY <3>2, <3>3
    <2>2. CASE \E u \in Threads : slot[u] = t
      <3>1. PICK u \in Threads : slot[u] = t
        BY <2>2
      <3>2. slot'[u] = t
        BY <1>2, <1>3, <3>1
      <3> QED BY <3>2 DEF InPool
    <2> QED BY <1>3, <2>1, <2>2 DEF InPool
  <1>4. ASSUME NEW i \in 1..Len(queue')
        PROVE  \E k \in 1..Len(queue) : queue'[i] = queue[k]
    <2>1. i + 1 \in 1..Len(queue) /\ queue'[i] = queue[i + 1]
      BY <1>1, SMTT(60)
    <2> QED BY <2>1
  <1>5. ASSUME NEW u \in Threads, slot'[u] # slot[u]
        PROVE  u = th /\ \E k \in 1..Len(queue) : slot'[u] = queue[k]
    <2>1. u = th /\ 1 \in 1..Len(queue)
      BY <1>1, <1>2, <1>5, SMTT(60)
    <2> QED BY <1>2, <2>1
  <1> QED BY <1>3, <1>4, <1>5

\* A finished task leaves its thread, nothing else moves.
LEMMA FinishPlaces ==
    ASSUME TypeOK, NEW th \in Threads, Pool!Finish(th)
    PROVE  /\ \A t : t # slot[th] /\ InPool(t) => InPool(t)'
           /\ queue' = queue
           /\ slot'[th] = None
           /\ \A u \in Threads \ {th} : slot'[u] = slot[u]
  <1>1. /\ queue' = queue
        /\ slot'[th] = None
        /\ \A u \in Threads \ {th} : slot'[u] = slot[u]
    BY DEF TypeOK, Pool!Finish
  <1>2. ASSUME NEW t, t # slot[th], InPool(t)
        PROVE  InPool(t)'
    <2>1. CASE Pool!Queued(t)
      BY <1>1, <2>1 DEF InPool, Pool!Queued
    <2>2. CASE \E u \in Threads : slot[u] = t
      <3>1. PICK u \in Threads : slot[u] = t
        BY <2>2
      <3>2. slot'[u] = t
        BY <1>1, <1>2, <3>1
      <3> QED BY <3>2 DEF InPool
    <2> QED BY <1>2, <2>1, <2>2 DEF InPool
  <1> QED BY <1>1, <1>2

\* What does not touch the pool moves no task in it.
LEMMA PlacesSame ==
    ASSUME UNCHANGED poolVars, NEW t
    PROVE  InPool(t)' <=> InPool(t)
  <1>1. queue' = queue /\ slot' = slot
    BY DEF poolVars
  <1> QED BY <1>1 DEF InPool, Pool!Queued

\* Every task that the worker has reserved is reported, dropped, in the calling
\* thread's hand or in the pool, step by step.
LEMMA TakenStep ==
    ASSUME WorkerInv, Next, TypeOK'
    PROVE  TakenInv'
  <1>a. TypeOK /\ TakenInv
    BY DEF WorkerInv
  <1>1. ASSUME UNCHANGED <<reserved, taken, reported, dropped, poolVars>>,
               pc' \in {"submit", "once_submit"} <=> pc \in {"submit", "once_submit"}
        PROVE  TakenInv'
    <2>1. \A t : InPool(t)' <=> InPool(t)
      BY <1>1, PlacesSame
    <2>2. queue' = queue /\ slot' = slot
      BY <1>1 DEF poolVars
    <2> QED BY <1>a, <1>1, <2>1, <2>2 DEF TakenInv
  <1>2. ASSUME Run \/ RunOnce \/ TestRunning \/ SkipHeartbeat \/ TestCapacity \/ Return
        PROVE  TakenInv'
    <2>1. /\ UNCHANGED <<reserved, taken, reported, dropped, poolVars>>
          /\ pc' \in {"submit", "once_submit"} <=> pc \in {"submit", "once_submit"}
      BY <1>2
         DEF Run, RunOnce, TestRunning, SkipHeartbeat, TestCapacity, Return,
             historyVars
    <2> QED BY <1>1, <2>1
  <1>3. ASSUME PublishHeartbeat \/ LockBroker \/ PollNothing \/ Stop
               \/ \E th \in Threads : LockReport(th)
        PROVE  TakenInv'
    <2>1. /\ UNCHANGED <<reserved, taken, reported, dropped, poolVars>>
          /\ pc' \in {"submit", "once_submit"} <=> pc \in {"submit", "once_submit"}
      BY <1>3, SMTT(60)
         DEF PublishHeartbeat, LockBroker, Locked, PollNothing, Stop,
             LockReport, historyVars
    <2> QED BY <1>1, <2>1
  <1>4. ASSUME NEW t \in Tasks, PollTask(t)
        PROVE  TakenInv'
    <2>1. /\ reserved = None
          /\ pc' \in {"submit", "once_submit"}
          /\ reserved' = t /\ t # None
          /\ taken' = taken \cup {t}
          /\ UNCHANGED <<reported, dropped, poolVars>>
      BY <1>a, <1>4, WorkerAssumption DEF TakenInv, PollTask
    <2>2. \A u : InPool(u)' <=> InPool(u)
      BY <2>1, PlacesSame
    <2>3. queue' = queue /\ slot' = slot
      BY <2>1 DEF poolVars
    <2>4. None \notin taken
      BY <1>a, WorkerAssumption DEF TypeOK
    <2> QED BY <1>a, <2>1, <2>2, <2>3, <2>4 DEF TakenInv
  <1>5. ASSUME Submit, Pool!Accept(reserved)
        PROVE  TakenInv'
    <2>1. reserved \in Tasks /\ reserved \in taken
      BY <1>a, <1>5 DEF TypeOK, TakenInv, Submit
    <2>2. queue' = Append(queue, reserved) /\ slot' = slot
      BY <1>5 DEF Pool!Accept
    <2>3. /\ reserved' = None
          /\ pc' \notin {"submit", "once_submit"}
          /\ UNCHANGED <<taken, reported>>
      BY <1>5 DEF Submit
    <2>4. dropped \subseteq dropped' /\ dropped' \subseteq dropped \cup {reserved}
      BY <1>5 DEF Submit
    <2>5. /\ \A t : InPool(t) \/ t = reserved => InPool(t)'
          /\ \A i \in 1..Len(queue') :
                 queue'[i] = reserved \/ \E k \in 1..Len(queue) : queue'[i] = queue[k]
      BY <1>a, <2>1, <2>2, AcceptPlaces
    <2>6. \A i \in 1..Len(queue') : queue'[i] \in taken'
      BY <1>a, <2>1, <2>3, <2>5 DEF TakenInv
    <2> QED BY <1>a, <2>1, <2>2, <2>3, <2>4, <2>5, <2>6 DEF TakenInv
  <1>6. ASSUME Submit, ~Pool!Accept(reserved)
        PROVE  TakenInv'
    <2>1. reserved \in taken
      BY <1>a, <1>6 DEF TypeOK, TakenInv, Submit
    <2>2. /\ reserved' = None
          /\ pc' \notin {"submit", "once_submit"}
          /\ dropped' = dropped \cup {reserved}
          /\ UNCHANGED <<taken, reported, poolVars>>
      BY <1>6 DEF Submit
    <2>3. \A t : InPool(t)' <=> InPool(t)
      BY <2>2, PlacesSame
    <2>4. queue' = queue /\ slot' = slot
      BY <2>2 DEF poolVars
    <2> QED BY <1>a, <2>1, <2>2, <2>3, <2>4 DEF TakenInv
  <1>7. CASE Shutdown
    <2>1. /\ UNCHANGED <<reserved, taken, reported, dropped, queue, slot>>
          /\ pc' \notin {"submit", "once_submit"} /\ pc \notin {"submit", "once_submit"}
      BY <1>7 DEF Shutdown, Pool!Close, poolVars, historyVars
    <2>2. \A t : InPool(t)' <=> InPool(t)
      BY <2>1 DEF InPool, Pool!Queued
    <2> QED BY <1>a, <2>1, <2>2 DEF TakenInv
  <1>8. ASSUME NEW th \in Threads, StartTask(th)
        PROVE  TakenInv'
    <2>1. /\ \A t : t # None /\ InPool(t) => InPool(t)'
          /\ \A i \in 1..Len(queue') : \E k \in 1..Len(queue) : queue'[i] = queue[k]
          /\ \A u \in Threads : slot'[u] # slot[u] =>
                 u = th /\ \E k \in 1..Len(queue) : slot'[u] = queue[k]
      BY <1>a, <1>8, StartPlaces DEF StartTask
    <2>2. UNCHANGED <<reserved, taken, reported, dropped, pc>>
      BY <1>8 DEF StartTask, historyVars
    <2>3. \A i \in 1..Len(queue) : queue[i] \in taken
      BY <1>a DEF TakenInv
    <2>4. \A i \in 1..Len(queue') : queue'[i] \in taken'
      BY <2>1, <2>2, <2>3
    <2>5. \A u \in Threads : slot'[u] # None => slot'[u] \in taken'
      BY <1>a, <2>1, <2>2, <2>3 DEF TakenInv
    <2>6. None \notin taken
      BY <1>a, WorkerAssumption DEF TypeOK
    <2>7. \A t \in taken' : t \in reported' \cup dropped' \/ t = reserved' \/ InPool(t)'
      BY <1>a, <2>1, <2>2, <2>6 DEF TakenInv
    <2> QED BY <1>a, <2>2, <2>4, <2>5, <2>7 DEF TakenInv
  <1>9. ASSUME NEW th \in Threads, ReportTask(th)
        PROVE  TakenInv'
    <2>1. slot[th] \in taken
      BY <1>a, <1>9 DEF WorkerInv, ReportingInv, TakenInv, ReportTask
    <2>2. /\ reported' = reported \cup {slot[th]}
          /\ UNCHANGED <<reserved, taken, dropped, pc, poolVars>>
      BY <1>9 DEF ReportTask
    <2>3. \A t : InPool(t)' <=> InPool(t)
      BY <2>2, PlacesSame
    <2>4. queue' = queue /\ slot' = slot
      BY <2>2 DEF poolVars
    <2> QED BY <1>a, <2>1, <2>2, <2>3, <2>4 DEF TakenInv
  <1>10. ASSUME NEW th \in Threads, FinishTask(th)
         PROVE  TakenInv'
    <2>1. /\ \A t : t # slot[th] /\ InPool(t) => InPool(t)'
          /\ queue' = queue
          /\ slot'[th] = None
          /\ \A u \in Threads \ {th} : slot'[u] = slot[u]
      BY <1>a, <1>10, FinishPlaces DEF FinishTask
    <2>2. slot[th] \in reported /\ UNCHANGED <<reserved, taken, reported, dropped, pc>>
      BY <1>10 DEF FinishTask, historyVars
    <2>3. \A u \in Threads : slot'[u] # None => slot'[u] \in taken'
      BY <1>a, <2>1, <2>2 DEF TakenInv
    <2> QED BY <1>a, <2>1, <2>2, <2>3 DEF TakenInv
  <1>11. ASSUME Submit
         PROVE  TakenInv'
    BY <1>5, <1>6, <1>11
  <1> QED BY <1>2, <1>3, <1>4, <1>7, <1>8, <1>9, <1>10, <1>11
             DEF Next, Continue, ThreadStep

-----------------------------------------------------------------------------
(* The mutex, and the first call.                                          *)

\* The thread that has taken the mutex keeps its task, unreported, until the
\* report.
LEMMA ReportingStep ==
    ASSUME WorkerInv, Next
    PROVE  ReportingInv'
  <1> USE DEF poolVars, historyVars
  <1>a. TypeOK /\ ReportingInv
    BY DEF WorkerInv
  <1>1. ASSUME UNCHANGED <<slot, reported>>,
               broker_mutex_' = broker_mutex_ \/ broker_mutex_' \notin Threads
        PROVE  ReportingInv'
    BY <1>a, <1>1 DEF ReportingInv
  <1>b. None \notin Threads /\ Main \notin Threads
    BY WorkerAssumption
  <1>2. ASSUME Run \/ RunOnce \/ Continue \/ Stop
        PROVE  ReportingInv'
    <2>1. ASSUME Continue
          PROVE  UNCHANGED <<slot, reported>>
      BY <2>1
         DEF Continue, TestRunning, SkipHeartbeat, PublishHeartbeat,
             TestCapacity, LockBroker, PollNothing, PollTask, Submit, Shutdown,
             Return, Pool!Accept, Pool!Close
    <2>2. ASSUME Continue
          PROVE  broker_mutex_' \in {broker_mutex_, None, Main}
      BY <2>2
         DEF Continue, TestRunning, SkipHeartbeat, PublishHeartbeat,
             TestCapacity, LockBroker, PollNothing, PollTask, Submit, Shutdown,
             Return
    <2>3. ASSUME Run \/ RunOnce \/ Stop
          PROVE  UNCHANGED <<slot, reported, broker_mutex_>>
      BY <2>3 DEF Run, RunOnce, Stop
    <2>4. UNCHANGED <<slot, reported>> /\ broker_mutex_' \in {broker_mutex_, None, Main}
      BY <1>2, <2>1, <2>2, <2>3
    <2> QED BY <1>1, <1>b, <2>4
  <1>3. ASSUME NEW th \in Threads, StartTask(th)
        PROVE  ReportingInv'
    <2>1. slot[th] = None /\ \A u \in Threads \ {th} : slot'[u] = slot[u]
      BY <1>a, <1>3 DEF TypeOK, StartTask, Pool!Start
    <2>2. UNCHANGED <<broker_mutex_, reported>>
      BY <1>3 DEF StartTask
    <2> QED BY <1>a, <2>1, <2>2 DEF ReportingInv
  <1>4. ASSUME NEW th \in Threads, LockReport(th)
        PROVE  ReportingInv'
    BY <1>4 DEF ReportingInv, LockReport
  <1>5. ASSUME NEW th \in Threads, ReportTask(th)
        PROVE  ReportingInv'
    BY <1>5, <1>b DEF ReportingInv, ReportTask
  <1>6. ASSUME NEW th \in Threads, FinishTask(th)
        PROVE  ReportingInv'
    <2>1. slot[th] \in reported /\ \A u \in Threads \ {th} : slot'[u] = slot[u]
      BY <1>a, <1>6 DEF TypeOK, FinishTask, Pool!Finish
    <2>2. UNCHANGED <<broker_mutex_, reported>>
      BY <1>6 DEF FinishTask
    <2> QED BY <1>a, <2>1, <2>2 DEF ReportingInv
  <1> QED BY <1>2, <1>3, <1>4, <1>5, <1>6 DEF Next, ThreadStep

\* Only Run closes the pool, on its way out, so no submit of the first call
\* finds it closed.
LEMMA FirstCallStep ==
    ASSUME WorkerInv, Next
    PROVE  FirstCallInv'
  <1> USE DEF poolVars, historyVars
  <1>a. TypeOK /\ FirstCallInv
    BY DEF WorkerInv
  <1>1. ASSUME Run \/ RunOnce
        PROVE  FirstCallInv'
    <2>1. calls' = calls + 1 /\ calls \in Nat /\ UNCHANGED <<closed, dropped>>
      BY <1>a, <1>1, SMTT(60) DEF TypeOK, Run, RunOnce
    <2> QED BY <1>a, <2>1, SMTT(60) DEF FirstCallInv
  <1>2. ASSUME TestRunning \/ SkipHeartbeat \/ TestCapacity \/ Return
               \/ PublishHeartbeat \/ PollNothing \/ LockBroker
        PROVE  FirstCallInv'
    <2>1. UNCHANGED <<closed, calls, dropped>> /\ pc # "outside"
          /\ (pc = "join" => pc' = "outside")
      BY <1>2
         DEF TestRunning, SkipHeartbeat, TestCapacity, Return, PublishHeartbeat,
             PollNothing, LockBroker, Locked
    <2> QED BY <1>a, <2>1 DEF FirstCallInv
  <1>3. ASSUME NEW t \in Tasks, PollTask(t)
        PROVE  FirstCallInv'
    BY <1>a, <1>3 DEF FirstCallInv, PollTask
  <1>4. CASE Submit
    <2>1. calls <= 1 => ~closed
      BY <1>a, <1>4 DEF FirstCallInv, Submit
    <2>2. /\ UNCHANGED <<calls, closed>> /\ pc # "outside"
          /\ ~closed => dropped' = dropped
      BY <1>4 DEF Submit, Pool!Accept
    <2> QED BY <1>a, <2>1, <2>2 DEF FirstCallInv
  <1>5. CASE Shutdown
    BY <1>a, <1>5 DEF FirstCallInv, Shutdown
  <1>6. ASSUME Stop \/ \E th \in Threads : ThreadStep(th)
        PROVE  FirstCallInv'
    <2>1. UNCHANGED <<pc, closed, calls, dropped>>
      BY <1>6
         DEF Stop, ThreadStep, StartTask, LockReport, ReportTask, FinishTask,
             Pool!Start, Pool!Finish
    <2> QED BY <1>a, <2>1 DEF FirstCallInv
  <1> QED BY <1>1, <1>2, <1>3, <1>4, <1>5, <1>6 DEF Next, Continue

-----------------------------------------------------------------------------
(* Theorems.                                                               *)

\* The conjuncts of WorkerInv hold together in every state of the worker.
THEOREM WorkerInvariant == Spec => []WorkerInv
  <1>1. Init => WorkerInv
    <2> SUFFICES ASSUME Init
                 PROVE  WorkerInv
      OBVIOUS
    <2> USE DEF Init, Pool!Init
    <2>1. TypeOK
      <3>1. queue \in Seq(Tasks) /\ calls \in 0..MaxCalls
        BY WorkerAssumption, SMTT(60)
      <3> QED BY <3>1 DEF TypeOK, CallerStates
    <2>2. PoolIsIdle
      BY DEF PoolIsIdle
    <2>3. InFlightCount = 0 /\ Cardinality(Threads) \in Nat
      BY <2>1, <2>2, IdleCount, InFlightNat
    <2>4. CapacityInv
      BY <2>2, <2>3, SMTT(60) DEF CapacityInv, TaskHasThread
    <2>5. TakenInv
      BY SMTT(60) DEF TakenInv
    <2>6. ReportingInv
      BY WorkerAssumption DEF ReportingInv
    <2>7. FirstCallInv
      BY DEF FirstCallInv
    <2> QED BY <2>1, <2>4, <2>5, <2>6, <2>7 DEF WorkerInv
  <1>2. ASSUME WorkerInv, Next
        PROVE  WorkerInv'
    BY <1>2, TypeStep, CapacityStep, TakenStep, ReportingStep, FirstCallStep
       DEF WorkerInv
  <1>3. ASSUME WorkerInv, UNCHANGED vars
        PROVE  WorkerInv'
    <2>1. UNCHANGED poolVars
      BY <1>3 DEF vars
    <2>2. /\ PoolIsIdle' <=> PoolIsIdle
          /\ CanAcceptTask' <=> CanAcceptTask
          /\ TaskHasThread' <=> TaskHasThread
          /\ \A t : InPool(t)' <=> InPool(t)
      BY <2>1, PoolSame, PlacesSame
    <2>3. TypeOK'
      BY <1>3 DEF WorkerInv, TypeOK, vars, poolVars, historyVars
    <2>4. CapacityInv'
      BY <1>3, <2>2 DEF WorkerInv, CapacityInv, vars, poolVars
    <2>5. TakenInv'
      BY <1>3, <2>2 DEF WorkerInv, TakenInv, vars, poolVars, historyVars
    <2>6. ReportingInv' /\ FirstCallInv'
      BY <1>3
         DEF WorkerInv, ReportingInv, FirstCallInv, vars, poolVars, historyVars
    <2> QED BY <2>3, <2>4, <2>5, <2>6 DEF WorkerInv
  <1> QED BY <1>1, <1>2, <1>3, PTL DEF Spec

\* The fields of Worker and of its pool keep their types, whatever calls,
\* signals and tasks come.
THEOREM WorkerTypes == Spec => []TypeOK
  <1>1. WorkerInv => TypeOK
    BY DEF WorkerInv
  <1> QED BY <1>1, WorkerInvariant, PTL

\* Worker::Run polls only when CanAcceptTask, and what it finds then still holds
\* when the polled task is submitted: there is a thread for every task that the
\* worker has leased.
THEOREM LeasedTaskHasThread == Spec => []TaskHasThread
  <1>1. WorkerInv => TaskHasThread
    BY DEF WorkerInv, CapacityInv
  <1> QED BY <1>1, WorkerInvariant, PTL

\* Run and RunOnce return only when every task that the worker has reserved is
\* reported, except for those that a pool shut down by an earlier Run refused.
THEOREM CallsLeaveNothing == Spec => []ReturnMeansReported
  <1>1. ASSUME WorkerInv
        PROVE  ReturnMeansReported
    <2>1. ASSUME pc = "outside", NEW t \in taken
          PROVE  t \in reported \cup dropped
      <3>1. PoolIsIdle /\ reserved = None
        BY <1>1, <2>1 DEF WorkerInv, CapacityInv, TakenInv
      <3>2. t # None
        BY <1>1, WorkerAssumption DEF WorkerInv, TypeOK
      <3>3. ~InPool(t)
        BY <3>1, <3>2, SMTT(60) DEF InPool, PoolIsIdle, Pool!Queued
      <3> QED BY <1>1, <3>1, <3>2, <3>3 DEF WorkerInv, TakenInv
    <2>2. reported \cup dropped \subseteq taken
      BY <1>1 DEF WorkerInv, TakenInv
    <2>3. calls <= 1 => dropped = {}
      BY <1>1 DEF WorkerInv, FirstCallInv
    <2> QED BY <2>1, <2>2, <2>3 DEF ReturnMeansReported
  <1> QED BY <1>1, WorkerInvariant, PTL

=============================================================================
