-------------------------- MODULE ThreadPoolProofs ---------------------------
(***************************************************************************)
(* Proofs about ThreadPool, for any number of threads, callers and jobs.   *)
(***************************************************************************)
EXTENDS ThreadPool, FiniteSetTheorems, TLAPS

\* The leaves are for Zenon unless they name another prover.
USE ZenonT(60)

-----------------------------------------------------------------------------
(* The deque.                                                              *)

\* push_back puts the new function behind the others.
LEMMA PushFacts ==
    ASSUME NEW S, NEW q \in Seq(S), NEW e \in S
    PROVE  /\ Append(q, e) \in Seq(S)
           /\ Len(q) \in Nat
           /\ Len(Append(q, e)) = Len(q) + 1
           /\ \A i \in 1..Len(q) : Append(q, e)[i] = q[i]
           /\ Append(q, e)[Len(q) + 1] = e
  BY SMTT(60)

\* pop_front moves every other function one place forward.
LEMMA PopFacts ==
    ASSUME NEW S, NEW q \in Seq(S), q # <<>>
    PROVE  /\ Head(q) \in S
           /\ Head(q) = q[1]
           /\ Tail(q) \in Seq(S)
           /\ Len(q) \in Nat \ {0}
           /\ Len(Tail(q)) = Len(q) - 1
           /\ \A i \in 1..(Len(q) - 1) : Tail(q)[i] = q[i + 1]
  BY SMTT(60)

\* An empty deque holds no function, a non-empty one has a length.
LEMMA DequeFacts ==
    ASSUME TypeOK
    PROVE  /\ tasks \in Seq(Jobs)
           /\ Len(tasks) \in Nat
           /\ tasks = <<>> <=> Len(tasks) = 0
  BY SMTT(60) DEF TypeOK

-----------------------------------------------------------------------------
(* Counting threads and callers.                                           *)

\* The sets that the properties count are finite.
LEMMA CountedSets ==
    /\ IsFiniteSet(Executing) /\ Cardinality(Executing) \in Nat
    /\ IsFiniteSet(Testing) /\ Cardinality(Testing) \in Nat
    /\ IsFiniteSet(Notifying) /\ Cardinality(Notifying) \in Nat
  <1>1. Executing \in SUBSET Threads /\ Testing \in SUBSET Threads
        /\ Notifying \in SUBSET Callers
    BY DEF Executing, Testing, Notifying
  <1>2. IsFiniteSet(Executing) /\ IsFiniteSet(Testing) /\ IsFiniteSet(Notifying)
    BY <1>1, FS_Subset, ThreadsAssumption, CallersAssumption
  <1> QED BY <1>2, FS_CardinalityType

\* A thread that starts to execute adds one to the executing threads, one that
\* stops takes one away.
LEMMA ExecutingCount ==
    ASSUME NEW th \in Threads, thread \in [Threads -> ThreadStates]
    PROVE  /\ thread[th] # "executing"
              /\ thread' = [thread EXCEPT ![th] = "executing"]
              => Cardinality(Executing') = Cardinality(Executing) + 1
           /\ thread[th] = "executing"
              /\ thread' = [thread EXCEPT ![th] = "test"]
              => /\ Cardinality(Executing') = Cardinality(Executing) - 1
                 /\ Cardinality(Executing) > 0
  <1>1. ASSUME thread[th] # "executing",
               thread' = [thread EXCEPT ![th] = "executing"]
        PROVE  Cardinality(Executing') = Cardinality(Executing) + 1
    <2>1. Executing' = Executing \cup {th} /\ th \notin Executing
      BY <1>1 DEF Executing
    <2> QED BY <2>1, CountedSets, FS_AddElement
  <1>2. ASSUME thread[th] = "executing",
               thread' = [thread EXCEPT ![th] = "test"]
        PROVE  /\ Cardinality(Executing') = Cardinality(Executing) - 1
               /\ Cardinality(Executing) > 0
    <2>1. Executing' = Executing \ {th} /\ th \in Executing
      BY <1>2 DEF Executing
    <2>2. Cardinality(Executing) # 0
      BY <2>1, CountedSets, FS_EmptySet
    <2>3. Cardinality(Executing) > 0
      BY <2>2, CountedSets, SMTT(60)
    <2> QED BY <2>1, <2>3, CountedSets, FS_RemoveElement
  <1> QED BY <1>1, <1>2

\* A step that neither starts nor ends an execution leaves the count alone.
LEMMA ExecutingSame ==
    ASSUME \A th \in Threads :
               thread[th] = "executing" <=> thread'[th] = "executing"
    PROVE  Executing' = Executing
  BY DEF Executing

-----------------------------------------------------------------------------
(* Types and the conservation of jobs.  The type invariant alone is not     *)
(* inductive: that active_count stays a natural number when a thread        *)
(* finishes needs active_count to be the number of executing threads.       *)

PoolInv == TypeOK /\ JobsConserved

\* What the deque holds after push_back and pop_front.
LEMMA InDequePush ==
    ASSUME TypeOK, NEW j \in Jobs, tasks' = Append(tasks, j)
    PROVE  /\ tasks' \in Seq(Jobs)
           /\ \A k : InDeque(k)' <=> InDeque(k) \/ k = j
           /\ ~InDeque(j) /\ (\A i, k \in 1..Len(tasks) : tasks[i] = tasks[k] => i = k)
              => \A i, k \in 1..Len(tasks') : tasks'[i] = tasks'[k] => i = k
  <1>1. /\ tasks' \in Seq(Jobs)
        /\ Len(tasks) \in Nat
        /\ Len(tasks') = Len(tasks) + 1
        /\ \A i \in 1..Len(tasks) : tasks'[i] = tasks[i]
        /\ tasks'[Len(tasks) + 1] = j
    BY PushFacts, SMTT(60) DEF TypeOK
  <1>2. ASSUME NEW k
        PROVE  InDeque(k)' <=> InDeque(k) \/ k = j
    <2>1. ASSUME InDeque(k)'
          PROVE  InDeque(k) \/ k = j
      <3>1. PICK i \in 1..Len(tasks') : tasks'[i] = k
        BY <2>1 DEF InDeque
      <3>2. i \in 1..Len(tasks) \/ i = Len(tasks) + 1
        BY <1>1, SMTT(60)
      <3> QED BY <1>1, <3>1, <3>2 DEF InDeque
    <2>2. ASSUME InDeque(k)
          PROVE  InDeque(k)'
      <3>1. PICK i \in 1..Len(tasks) : tasks[i] = k
        BY <2>2 DEF InDeque
      <3>2. i \in 1..Len(tasks') /\ tasks'[i] = k
        BY <1>1, <3>1, SMTT(60)
      <3> QED BY <3>2 DEF InDeque
    <2>3. ASSUME k = j
          PROVE  InDeque(k)'
      <3>1. Len(tasks) + 1 \in 1..Len(tasks')
        BY <1>1, SMTT(60)
      <3> QED BY <1>1, <2>3, <3>1 DEF InDeque
    <2> QED BY <2>1, <2>2, <2>3
  <1>3. ASSUME ~InDeque(j),
               \A i, k \in 1..Len(tasks) : tasks[i] = tasks[k] => i = k,
               NEW i \in 1..Len(tasks'), NEW k \in 1..Len(tasks'),
               tasks'[i] = tasks'[k]
        PROVE  i = k
    <2>1. \A n \in 1..Len(tasks) : tasks'[n] # j
      BY <1>1, <1>3 DEF InDeque
    <2>2. CASE i \in 1..Len(tasks) /\ k \in 1..Len(tasks)
      BY <1>1, <1>3, <2>2
    <2>3. CASE i = Len(tasks) + 1
      BY <1>1, <1>3, <2>1, <2>3, SMTT(60)
    <2>4. CASE k = Len(tasks) + 1
      BY <1>1, <1>3, <2>1, <2>4, SMTT(60)
    <2> QED BY <1>1, <2>2, <2>3, <2>4, SMTT(60)
  <1> QED BY <1>1, <1>2, <1>3

\* pop_front removes the first function from the deque and no other.
LEMMA InDequePop ==
    ASSUME TypeOK, tasks # <<>>, tasks' = Tail(tasks)
    PROVE  /\ tasks' \in Seq(Jobs)
           /\ Head(tasks) \in Jobs /\ InDeque(Head(tasks))
           /\ \A k : InDeque(k) <=> InDeque(k)' \/ k = Head(tasks)
           /\ (\A i, k \in 1..Len(tasks) : tasks[i] = tasks[k] => i = k)
              => /\ \A k : k = Head(tasks) => ~InDeque(k)'
                 /\ \A i, k \in 1..Len(tasks') : tasks'[i] = tasks'[k] => i = k
  <1>1. /\ tasks' \in Seq(Jobs)
        /\ Head(tasks) \in Jobs
        /\ Head(tasks) = tasks[1]
        /\ Len(tasks) \in Nat \ {0}
        /\ Len(tasks') = Len(tasks) - 1
        /\ \A i \in 1..(Len(tasks) - 1) : tasks'[i] = tasks[i + 1]
    BY PopFacts DEF TypeOK
  <1>2. InDeque(Head(tasks))
    BY <1>1, SMTT(60) DEF InDeque
  <1>3. ASSUME NEW k
        PROVE  InDeque(k) <=> InDeque(k)' \/ k = Head(tasks)
    <2>1. ASSUME InDeque(k)
          PROVE  InDeque(k)' \/ k = Head(tasks)
      <3>1. PICK i \in 1..Len(tasks) : tasks[i] = k
        BY <2>1 DEF InDeque
      <3>2. CASE i = 1
        BY <1>1, <3>1, <3>2
      <3>3. CASE i # 1
        <4>1. i - 1 \in 1..Len(tasks') /\ tasks'[i - 1] = tasks[i]
          BY <1>1, <3>3, SMTT(60)
        <4> QED BY <3>1, <4>1 DEF InDeque
      <3> QED BY <3>2, <3>3
    <2>2. ASSUME InDeque(k)'
          PROVE  InDeque(k)
      <3>1. PICK i \in 1..Len(tasks') : tasks'[i] = k
        BY <2>2 DEF InDeque
      <3>2. i + 1 \in 1..Len(tasks) /\ tasks[i + 1] = k
        BY <1>1, <3>1, SMTT(60)
      <3> QED BY <3>2 DEF InDeque
    <2> QED BY <1>2, <2>1, <2>2
  <1>4. ASSUME \A i, k \in 1..Len(tasks) : tasks[i] = tasks[k] => i = k
        PROVE  /\ \A k : k = Head(tasks) => ~InDeque(k)'
               /\ \A i, k \in 1..Len(tasks') : tasks'[i] = tasks'[k] => i = k
    <2>1. \A i \in 1..Len(tasks') :
              i + 1 \in 1..Len(tasks) /\ tasks'[i] = tasks[i + 1]
      BY <1>1, SMTT(60)
    <2>2. \A i \in 1..Len(tasks') : tasks'[i] # Head(tasks)
      <3> SUFFICES ASSUME NEW i \in 1..Len(tasks'), tasks'[i] = Head(tasks)
                   PROVE  FALSE
        OBVIOUS
      <3>1. i + 1 = 1
        BY <1>1, <1>4, <2>1, SMTT(60)
      <3> QED BY <1>1, <3>1, SMTT(60)
    <2>3. \A i, k \in 1..Len(tasks') : tasks'[i] = tasks'[k] => i + 1 = k + 1
      BY <1>4, <2>1, SMTT(60)
    <2>4. \A i, k \in 1..Len(tasks') : i + 1 = k + 1 => i = k
      BY <1>1, SMTT(60)
    <2> QED BY <2>2, <2>3, <2>4 DEF InDeque
  <1> QED BY <1>1, <1>2, <1>3, <1>4

\* A step that moves no function conserves them.
LEMMA QuietConserves ==
    ASSUME JobsConserved,
           UNCHANGED <<tasks, task, accepted, finished, active_count>>,
           \A th \in Threads :
               thread[th] = "executing" <=> thread'[th] = "executing"
    PROVE  JobsConserved'
  <1>1. Executing' = Executing
    BY ExecutingSame
  <1>2. JobHasOnePlace'
    BY DEF JobsConserved, JobHasOnePlace, InDeque, InThread
  <1>3. JobIsThereOnce' /\ ExecutingHasTask'
    BY DEF JobsConserved, JobIsThereOnce, ExecutingHasTask
  <1> QED BY <1>1, <1>2, <1>3 DEF JobsConserved

\* Submit puts a new function into the deque and nowhere else.
LEMMA SubmitConserves ==
    ASSUME PoolInv, NEW c \in Callers, NEW j \in Jobs, SubmitAccept(c, j)
    PROVE  PoolInv'
  <1>1. j \notin accepted
    BY DEF SubmitAccept
  <1>2. ~InDeque(j) /\ ~InThread(j) /\ j \notin finished
    BY <1>1 DEF PoolInv, JobsConserved, JobHasOnePlace
  <1>3. /\ tasks' \in Seq(Jobs)
        /\ \A k : InDeque(k)' <=> InDeque(k) \/ k = j
        /\ \A i, k \in 1..Len(tasks') : tasks'[i] = tasks'[k] => i = k
    BY <1>2, InDequePush
       DEF PoolInv, JobsConserved, JobIsThereOnce, SubmitAccept
  <1>4. \A k : InThread(k)' <=> InThread(k)
    BY DEF SubmitAccept, InThread
  <1>5. JobHasOnePlace'
    BY <1>2, <1>3, <1>4 DEF PoolInv, JobsConserved, JobHasOnePlace, SubmitAccept
  <1>6. JobIsThereOnce' /\ ExecutingHasTask'
    BY <1>3
       DEF PoolInv, JobsConserved, JobIsThereOnce, ExecutingHasTask,
           SubmitAccept
  <1>7. active_count' = Cardinality(Executing')
    BY DEF PoolInv, JobsConserved, SubmitAccept, Executing
  <1>8. TypeOK'
    BY <1>3 DEF PoolInv, TypeOK, SubmitAccept, CallerStates
  <1> QED BY <1>5, <1>6, <1>7, <1>8 DEF PoolInv, JobsConserved

\* A thread moves the front of the deque to itself.
LEMMA TakeConserves ==
    ASSUME PoolInv, NEW th \in Threads, Take(th)
    PROVE  PoolInv'
  <1> DEFINE job == Head(tasks)
  <1>1. /\ tasks' \in Seq(Jobs)
        /\ job \in Jobs /\ InDeque(job)
        /\ \A k : InDeque(k) <=> InDeque(k)' \/ k = job
        /\ \A k : k = job => ~InDeque(k)'
        /\ \A i, k \in 1..Len(tasks') : tasks'[i] = tasks'[k] => i = k
    BY InDequePop DEF PoolInv, JobsConserved, JobIsThereOnce, Take
  <1>2. task' = [task EXCEPT ![th] = job]
    BY DEF Take
  <1>3. task \in [Threads -> Jobs \cup {None}]
        /\ thread \in [Threads -> ThreadStates]
    BY DEF PoolInv, TypeOK
  <1> HIDE DEF job
  <1>4. task[th] = None
    BY DEF PoolInv, JobsConserved, ExecutingHasTask, Take
  <1>5. \A k \in Jobs : InThread(k)' <=> InThread(k) \/ k = job
    BY <1>1, <1>2, <1>3, <1>4, NoneAssumption DEF InThread
  <1>6. ~InThread(job) /\ job \notin finished /\ job \in accepted
    BY <1>1 DEF PoolInv, JobsConserved, JobHasOnePlace
  <1>7. JobHasOnePlace'
    BY <1>1, <1>5, <1>6 DEF PoolInv, JobsConserved, JobHasOnePlace, Take
  <1>8. JobIsThereOnce'
    <2>1. \A ph \in Threads : task[ph] # job
      BY <1>6 DEF InThread
    <2>2. \A ph, qh \in Threads :
              task'[ph] = task'[qh] /\ task'[ph] # None => ph = qh
      BY <1>2, <1>3, <2>1 DEF PoolInv, JobsConserved, JobIsThereOnce
    <2> QED BY <1>1, <2>2 DEF JobIsThereOnce
  <1>9. ExecutingHasTask'
    <2>1. job # None
      BY <1>1, NoneAssumption
    <2> QED BY <1>2, <1>3, <2>1
               DEF PoolInv, JobsConserved, ExecutingHasTask, Take
  <1>10. active_count' = Cardinality(Executing')
    BY <1>3, ExecutingCount DEF PoolInv, JobsConserved, Take
  <1>11. TypeOK'
    BY <1>1, <1>2, SMTT(60) DEF PoolInv, TypeOK, Take, ThreadStates
  <1> QED BY <1>7, <1>8, <1>9, <1>10, <1>11 DEF PoolInv, JobsConserved

\* A thread that is done with its function leaves it to the finished ones.
LEMMA FinishConserves ==
    ASSUME PoolInv, NEW th \in Threads, Finish(th)
    PROVE  PoolInv'
  <1> DEFINE job == task[th]
  <1>1. task \in [Threads -> Jobs \cup {None}]
        /\ thread \in [Threads -> ThreadStates]
        /\ active_count \in Nat
    BY DEF PoolInv, TypeOK
  <1>2. job \in Jobs /\ InThread(job)
    <2>1. job # None
      BY DEF PoolInv, JobsConserved, ExecutingHasTask, Finish
    <2> QED BY <1>1, <2>1 DEF InThread
  <1>3. task' = [task EXCEPT ![th] = None] /\ finished' = finished \cup {job}
    BY DEF Finish
  <1>4. \A k : InDeque(k)' <=> InDeque(k)
    BY DEF Finish, InDeque
  <1>5. \A ph \in Threads : task[ph] = job => ph = th
    BY <1>2, NoneAssumption DEF PoolInv, JobsConserved, JobIsThereOnce
  <1> HIDE DEF job
  <1>6. \A k \in Jobs : InThread(k)' <=> InThread(k) /\ k # job
    <2>1. task[th] = job
      BY DEF job
    <2>2. \A k \in Jobs : k # None
      BY NoneAssumption
    <2> QED BY <1>1, <1>3, <1>5, <2>1, <2>2 DEF InThread
  <1>7. JobHasOnePlace'
    BY <1>2, <1>3, <1>4, <1>6 DEF PoolInv, JobsConserved, JobHasOnePlace, Finish
  <1>8. JobIsThereOnce'
    <2>1. \A ph, qh \in Threads :
              task'[ph] = task'[qh] /\ task'[ph] # None => ph = qh
      BY <1>1, <1>3 DEF PoolInv, JobsConserved, JobIsThereOnce
    <2> QED BY <2>1 DEF PoolInv, JobsConserved, JobIsThereOnce, Finish
  <1>9. ExecutingHasTask'
    BY <1>1, <1>3 DEF PoolInv, JobsConserved, ExecutingHasTask, Finish
  <1>10. active_count' = Cardinality(Executing') /\ active_count' \in Nat
    <2>1. /\ Cardinality(Executing') = Cardinality(Executing) - 1
          /\ Cardinality(Executing) > 0
      BY <1>1, ExecutingCount DEF Finish
    <2>2. active_count = Cardinality(Executing)
          /\ active_count' = active_count - 1
      BY DEF PoolInv, JobsConserved, Finish
    <2> QED BY <1>1, <2>1, <2>2, SMTT(60)
  <1>11. TypeOK'
    <2>1. caller' \in [Callers -> CallerStates]
      BY DEF PoolInv, TypeOK, Finish, CallerStates
    <2>2. thread' \in [Threads -> ThreadStates]
      BY <1>1 DEF Finish, ThreadStates
    <2>3. task' \in [Threads -> Jobs \cup {None}] /\ finished' \in SUBSET Jobs
      BY <1>1, <1>2, <1>3 DEF PoolInv, TypeOK
    <2> QED BY <1>10, <2>1, <2>2, <2>3 DEF PoolInv, TypeOK, Finish
  <1> QED BY <1>7, <1>8, <1>9, <1>10, <1>11 DEF PoolInv, JobsConserved

\* Initially there is nothing to conserve.
LEMMA InitPoolInv ==
    ASSUME Init
    PROVE  PoolInv
  <1>1. Executing = {} /\ Len(tasks) = 0 /\ tasks \in Seq(Jobs)
    BY SMTT(60) DEF Init, Executing
  <1>2. \A j \in Jobs : ~InDeque(j) /\ ~InThread(j)
    BY <1>1, NoneAssumption, SMTT(60) DEF Init, InDeque, InThread
  <1>3. JobHasOnePlace
    BY <1>2 DEF Init, JobHasOnePlace
  <1>4. JobIsThereOnce /\ ExecutingHasTask
    BY <1>1, SMTT(60) DEF Init, JobIsThereOnce, ExecutingHasTask
  <1>5. active_count = Cardinality(Executing)
    BY <1>1, FS_EmptySet DEF Init
  <1>6. TypeOK
    BY <1>1 DEF Init, TypeOK, ThreadStates, CallerStates
  <1> QED BY <1>3, <1>4, <1>5, <1>6 DEF PoolInv, JobsConserved

\* Every step keeps the types and conserves the functions.
LEMMA PoolStep ==
    ASSUME PoolInv, [Next]_vars
    PROVE  PoolInv'
  <1>0. TypeOK /\ JobsConserved
    BY DEF PoolInv
  <1>1. ASSUME NEW c \in Callers, NEW j \in Jobs,
               SubmitAccept(c, j) \/ SubmitDrop(c, j)
        PROVE  PoolInv'
    <2>1. CASE SubmitAccept(c, j)
      BY <2>1, SubmitConserves
    <2>2. CASE SubmitDrop(c, j)
      <3>1. JobsConserved'
        BY <1>0, <2>2, QuietConserves DEF SubmitDrop, poolVars
      <3> QED BY <1>0, <2>2, <3>1 DEF PoolInv, TypeOK, SubmitDrop, poolVars
    <2> QED BY <1>1, <2>1, <2>2
  <1>2. ASSUME NEW c \in Callers,
               WaitIdle(c) \/ WaitIdleReturn(c) \/ WaitIdleSleep(c)
                   \/ SpuriousCaller(c)
        PROVE  PoolInv'
    <2>1. JobsConserved'
      BY <1>0, <1>2, QuietConserves
         DEF WaitIdle, WaitIdleReturn, WaitIdleSleep, SpuriousCaller, poolVars
    <2> QED BY <1>0, <1>2, <2>1
               DEF PoolInv, TypeOK, WaitIdle, WaitIdleReturn, WaitIdleSleep,
                   SpuriousCaller, poolVars, CallerStates
  <1>3. ASSUME NEW c \in Callers, Shutdown(c) \/ Join(c)
        PROVE  PoolInv'
    <2>1. JobsConserved'
      BY <1>0, <1>3, QuietConserves DEF Shutdown, Join
    <2> QED BY <1>0, <1>3, <2>1
               DEF PoolInv, TypeOK, Shutdown, Join, CallerStates
  <1>4. ASSUME NEW c \in Callers, NotifyOne(c)
        PROVE  PoolInv'
    <2>1. /\ thread' \in [Threads -> ThreadStates]
          /\ \A th \in Threads :
                 thread[th] = "executing" <=> thread'[th] = "executing"
      BY <1>0, <1>4 DEF TypeOK, NotifyOne, ThreadStates
    <2>2. JobsConserved'
      BY <1>0, <1>4, <2>1, QuietConserves DEF NotifyOne
    <2> QED BY <1>0, <1>4, <2>1, <2>2
               DEF PoolInv, TypeOK, NotifyOne, CallerStates
  <1>5. ASSUME NEW c \in Callers, NotifyAll(c)
        PROVE  PoolInv'
    <2>1. /\ thread' \in [Threads -> ThreadStates]
          /\ \A th \in Threads :
                 thread[th] = "executing" <=> thread'[th] = "executing"
      BY <1>0, <1>5 DEF TypeOK, NotifyAll, ThreadStates
    <2>2. JobsConserved'
      BY <1>0, <1>5, <2>1, QuietConserves DEF NotifyAll
    <2> QED BY <1>0, <1>5, <2>1, <2>2
               DEF PoolInv, TypeOK, NotifyAll, CallerStates
  <1>6. ASSUME NEW th \in Threads, Sleep(th) \/ Exit(th) \/ SpuriousThread(th)
        PROVE  PoolInv'
    <2>1. /\ thread' \in [Threads -> ThreadStates]
          /\ \A ph \in Threads :
                 thread[ph] = "executing" <=> thread'[ph] = "executing"
      BY <1>0, <1>6 DEF TypeOK, Sleep, Exit, SpuriousThread, ThreadStates
    <2>2. JobsConserved'
      BY <1>0, <1>6, <2>1, QuietConserves DEF Sleep, Exit, SpuriousThread
    <2> QED BY <1>0, <1>6, <2>1, <2>2
               DEF PoolInv, TypeOK, Sleep, Exit, SpuriousThread
  <1>7. CASE UNCHANGED vars
    <2>1. JobsConserved'
      BY <1>0, <1>7, QuietConserves DEF vars, poolVars
    <2> QED BY <1>0, <1>7, <2>1 DEF PoolInv, TypeOK, vars, poolVars
  <1> QED BY <1>1, <1>2, <1>3, <1>4, <1>5, <1>6, <1>7, TakeConserves,
             FinishConserves
             DEF Next, Continue, WorkerLoop

\* The two invariants together are an invariant of the pool.
LEMMA PoolInvariant == Spec => []PoolInv
  BY InitPoolInv, PoolStep, PTL DEF Spec

\* Every reachable state of the pool is well typed; in particular active_count
\* never goes below zero.
THEOREM PoolTypeCorrect == Spec => []TypeOK
  <1>1. PoolInv => TypeOK
    BY DEF PoolInv
  <1> QED BY <1>1, PoolInvariant, PTL

\* The pool neither loses a function nor runs one twice, whatever the order of
\* submits, notifications, spurious wakeups and a shutdown.
THEOREM PoolConservesJobs == Spec => []JobsConserved
  <1>1. PoolInv => JobsConserved
    BY DEF PoolInv
  <1> QED BY <1>1, PoolInvariant, PTL

-----------------------------------------------------------------------------
(* Wakeups.                                                                *)

\* Nobody sleeps in WaitIdle while the pool is idle.
LEMMA IdleStep ==
    ASSUME PoolInv, IdleIsSignalled, [Next]_vars
    PROVE  IdleIsSignalled'
  <1>0. TypeOK
    BY DEF PoolInv
  <1>1. ASSUME NEW c \in Callers, NEW j \in Jobs, SubmitAccept(c, j)
        PROVE  IdleIsSignalled'
    <2>1. Len(tasks') # 0
      BY <1>0, <1>1, PushFacts, SMTT(60) DEF SubmitAccept, TypeOK
    <2>2. ~IsIdle'
      BY <2>1 DEF IsIdle
    <2> QED BY <2>2 DEF IdleIsSignalled
  <1>2. ASSUME NEW th \in Threads, Take(th)
        PROVE  IdleIsSignalled'
    <2>1. ~IsIdle'
      BY <1>0, <1>2, SMTT(60) DEF Take, IsIdle, TypeOK
    <2> QED BY <2>1 DEF IdleIsSignalled
  <1>3. ASSUME NEW th \in Threads, Finish(th)
        PROVE  IdleIsSignalled'
    <2>1. CASE IsIdle'
      BY <1>0, <1>3, <2>1 DEF Finish, IsIdle, IdleIsSignalled, TypeOK
    <2>2. CASE ~IsIdle'
      BY <2>2 DEF IdleIsSignalled
    <2> QED BY <2>1, <2>2
  <1>4. ASSUME UNCHANGED <<tasks, active_count>>,
               \A c \in Callers :
                   caller'[c] = "waiting" => caller[c] = "waiting" \/ ~IsIdle
        PROVE  IdleIsSignalled'
    BY <1>4 DEF IdleIsSignalled, IsIdle
  <1>5. ASSUME NEW c \in Callers,
               \/ \E j \in Jobs : SubmitDrop(c, j)
               \/ WaitIdle(c) \/ Shutdown(c) \/ Continue(c) \/ SpuriousCaller(c)
        PROVE  IdleIsSignalled'
    BY <1>0, <1>4, <1>5
       DEF TypeOK, SubmitDrop, WaitIdle, Shutdown, Continue, SpuriousCaller,
           NotifyOne, WaitIdleReturn, WaitIdleSleep, NotifyAll, Join, poolVars
  <1>6. ASSUME NEW th \in Threads, Sleep(th) \/ Exit(th) \/ SpuriousThread(th)
        PROVE  IdleIsSignalled'
    BY <1>4, <1>6 DEF Sleep, Exit, SpuriousThread
  <1>7. CASE UNCHANGED vars
    BY <1>4, <1>7 DEF vars, poolVars
  <1> QED BY <1>1, <1>2, <1>3, <1>5, <1>6, <1>7 DEF Next, WorkerLoop

\* A caller of WaitIdle is never left asleep while the pool is idle.
THEOREM NoSleepWhileIdle == Spec => []IdleIsSignalled
  <1>1. Init => IdleIsSignalled
    BY DEF Init, IdleIsSignalled
  <1> QED BY <1>1, IdleStep, PoolInvariant, PTL DEF Spec

\* A thread can sleep with stop set only until notify_all.
LEMMA StopStep ==
    ASSUME TypeOK, StopIsSignalled, [Next]_vars
    PROVE  StopIsSignalled'
  <1>1. ASSUME NEW c \in Callers,
               \/ \E j \in Jobs : SubmitAccept(c, j) \/ SubmitDrop(c, j)
               \/ WaitIdle(c) \/ WaitIdleReturn(c) \/ WaitIdleSleep(c)
               \/ SpuriousCaller(c) \/ Join(c)
        PROVE  StopIsSignalled'
    <2>1. UNCHANGED <<stop, thread>>
      BY <1>1
         DEF SubmitAccept, SubmitDrop, WaitIdle, WaitIdleReturn, WaitIdleSleep,
             SpuriousCaller, Join, poolVars
    <2>2. \A d \in Callers : caller[d] = "notify_all" => caller'[d] = "notify_all"
      BY <1>1
         DEF TypeOK, SubmitAccept, SubmitDrop, WaitIdle, WaitIdleReturn,
             WaitIdleSleep, SpuriousCaller, Join
    <2> QED BY <2>1, <2>2 DEF StopIsSignalled, Waiting
  <1>2. ASSUME NEW c \in Callers, Shutdown(c)
        PROVE  StopIsSignalled'
    BY <1>2 DEF TypeOK, Shutdown, StopIsSignalled
  <1>3. ASSUME NEW c \in Callers, NotifyOne(c)
        PROVE  StopIsSignalled'
    <2>1. Waiting' \subseteq Waiting /\ stop' = stop
      BY <1>3 DEF TypeOK, NotifyOne, Waiting
    <2>2. \A d \in Callers : caller[d] = "notify_all" => caller'[d] = "notify_all"
      BY <1>3 DEF TypeOK, NotifyOne
    <2> QED BY <2>1, <2>2 DEF StopIsSignalled
  <1>4. ASSUME NEW c \in Callers, NotifyAll(c)
        PROVE  StopIsSignalled'
    <2>1. Waiting' = {}
      BY <1>4 DEF NotifyAll, Waiting
    <2> QED BY <2>1 DEF StopIsSignalled
  <1>5. ASSUME NEW th \in Threads, Sleep(th)
        PROVE  StopIsSignalled'
    BY <1>5 DEF Sleep, StopIsSignalled
  <1>6. ASSUME NEW th \in Threads,
               Take(th) \/ Exit(th) \/ Finish(th) \/ SpuriousThread(th)
        PROVE  StopIsSignalled'
    <2>1. Waiting' \subseteq Waiting /\ stop' = stop
      BY <1>6 DEF TypeOK, Take, Exit, Finish, SpuriousThread, Waiting
    <2>2. \A d \in Callers : caller[d] = "notify_all" => caller'[d] = "notify_all"
      BY <1>6 DEF TypeOK, Take, Exit, Finish, SpuriousThread
    <2> QED BY <2>1, <2>2 DEF StopIsSignalled
  <1>7. CASE UNCHANGED vars
    BY <1>7 DEF vars, poolVars, StopIsSignalled, Waiting
  <1> QED BY <1>1, <1>2, <1>3, <1>4, <1>5, <1>6, <1>7
             DEF Next, Continue, WorkerLoop

\* No thread is left asleep by a Shutdown that has notified.
THEOREM NoSleepAfterStop == Spec => []StopIsSignalled
  <1>1. Init => StopIsSignalled
    BY DEF Init, StopIsSignalled
  <1> QED BY <1>1, StopStep, PoolTypeCorrect, PTL DEF Spec

\* While a thread sleeps, the wakeups under way cover the deque: a push comes
\* with a notification of its own, a notification turns a sleeping thread into
\* a testing one, and a testing thread takes one function away.
LEMMA WorkStep ==
    ASSUME TypeOK, WorkIsSignalled, [Next]_vars
    PROVE  WorkIsSignalled'
  <1> USE CountedSets
  <1>0. Len(tasks) \in Nat
    BY DequeFacts
  <1>1. ASSUME NEW c \in Callers, NEW j \in Jobs, SubmitAccept(c, j)
        PROVE  WorkIsSignalled'
    <2>1. Notifying' = Notifying \cup {c} /\ c \notin Notifying
      BY <1>1 DEF TypeOK, SubmitAccept, Notifying
    <2>2. Cardinality(Notifying') = Cardinality(Notifying) + 1
      BY <2>1, FS_AddElement
    <2>3. Len(tasks') = Len(tasks) + 1
      BY <1>1, PushFacts DEF TypeOK, SubmitAccept
    <2>4. Testing' = Testing /\ Waiting' = Waiting
      BY <1>1 DEF SubmitAccept, Testing, Waiting
    <2> QED BY <1>0, <2>2, <2>3, <2>4, SMTT(60) DEF WorkIsSignalled
  <1>2. ASSUME NEW c \in Callers, NotifyOne(c)
        PROVE  WorkIsSignalled'
    <2>1. Notifying' = Notifying \ {c} /\ c \in Notifying
      BY <1>2 DEF TypeOK, NotifyOne, Notifying
    <2>2. Cardinality(Notifying') = Cardinality(Notifying) - 1
      BY <2>1, FS_RemoveElement
    <2>3. tasks' = tasks
      BY <1>2 DEF NotifyOne
    <2>4. ASSUME NEW th \in Threads, thread[th] = "waiting",
                 thread' = [thread EXCEPT ![th] = "test"]
          PROVE  WorkIsSignalled'
      <3>1. Testing' = Testing \cup {th} /\ th \notin Testing /\ Waiting # {}
        BY <2>4 DEF TypeOK, Testing, Waiting
      <3>2. Cardinality(Testing') = Cardinality(Testing) + 1
        BY <3>1, FS_AddElement
      <3> QED BY <1>0, <2>2, <2>3, <3>1, <3>2, SMTT(60) DEF WorkIsSignalled
    <2>5. CASE \A th \in Threads : thread[th] # "waiting" /\ thread' = thread
      BY <2>5 DEF WorkIsSignalled, Waiting
    <2> QED BY <1>2, <2>4, <2>5, ThreadsAssumption DEF NotifyOne
  <1>3. ASSUME NEW th \in Threads, Take(th)
        PROVE  WorkIsSignalled'
    <2>1. /\ Testing' = Testing \ {th} /\ th \in Testing
          /\ Waiting' = Waiting /\ Notifying' = Notifying
      BY <1>3 DEF TypeOK, Take, Testing, Waiting, Notifying
    <2>2. Cardinality(Testing') = Cardinality(Testing) - 1
      BY <2>1, FS_RemoveElement
    <2>3. Len(tasks') = Len(tasks) - 1
      BY <1>3, PopFacts DEF TypeOK, Take
    <2> QED BY <1>0, <2>1, <2>2, <2>3, SMTT(60) DEF WorkIsSignalled
  <1>4. ASSUME NEW th \in Threads, Sleep(th) \/ Exit(th)
        PROVE  WorkIsSignalled'
    <2>1. Len(tasks') = 0
      BY <1>4, DequeFacts DEF Sleep, Exit
    <2>2. Notifying' = Notifying
      BY <1>4 DEF Sleep, Exit, Notifying
    <2>3. Testing' = Testing \ {th}
      BY <1>4 DEF TypeOK, Sleep, Exit, Testing
    <2>4. Cardinality(Testing') \in Nat
      BY <2>3, FS_RemoveElement, FS_CardinalityType
    <2> QED BY <2>1, <2>2, <2>4, SMTT(60) DEF WorkIsSignalled
  <1>5. ASSUME NEW th \in Threads, Finish(th) \/ SpuriousThread(th)
        PROVE  WorkIsSignalled'
    <2>1. /\ Testing' = Testing \cup {th} /\ th \notin Testing
          /\ Waiting' \subseteq Waiting /\ Notifying' = Notifying
      <3>1. CASE Finish(th)
        BY <3>1 DEF TypeOK, Finish, Testing, Waiting, Notifying
      <3>2. CASE SpuriousThread(th)
        BY <3>2 DEF TypeOK, SpuriousThread, Testing, Waiting, Notifying
      <3> QED BY <1>5, <3>1, <3>2
    <2>2. Cardinality(Testing') = Cardinality(Testing) + 1
      BY <2>1, FS_AddElement
    <2>3. tasks' = tasks
      BY <1>5 DEF Finish, SpuriousThread
    <2> QED BY <1>0, <2>1, <2>2, <2>3, SMTT(60) DEF WorkIsSignalled
  <1>6. ASSUME NEW c \in Callers, NotifyAll(c)
        PROVE  WorkIsSignalled'
    <2>1. Waiting' = {}
      BY <1>6 DEF NotifyAll, Waiting
    <2> QED BY <2>1 DEF WorkIsSignalled
  <1>7. ASSUME UNCHANGED <<tasks, thread>>,
               \A d \in Callers : caller'[d] = "notify" <=> caller[d] = "notify"
        PROVE  WorkIsSignalled'
    <2>1. Testing' = Testing /\ Waiting' = Waiting /\ Notifying' = Notifying
      BY <1>7 DEF Testing, Waiting, Notifying
    <2> QED BY <1>7, <2>1 DEF WorkIsSignalled
  <1>8. ASSUME NEW c \in Callers,
               \/ \E j \in Jobs : SubmitDrop(c, j)
               \/ WaitIdle(c) \/ WaitIdleReturn(c) \/ WaitIdleSleep(c)
               \/ SpuriousCaller(c) \/ Shutdown(c) \/ Join(c)
        PROVE  WorkIsSignalled'
    BY <1>7, <1>8
       DEF TypeOK, SubmitDrop, WaitIdle, WaitIdleReturn, WaitIdleSleep,
           SpuriousCaller, Shutdown, Join, poolVars
  <1>9. CASE UNCHANGED vars
    BY <1>7, <1>9 DEF vars, poolVars
  <1> QED BY <1>1, <1>2, <1>3, <1>4, <1>5, <1>6, <1>8, <1>9
             DEF Next, Continue, WorkerLoop

\* No thread sleeps through work: Submit's notify_one, although it comes after
\* the unlock and may find nobody waiting, is never missed.
THEOREM NoSleepWhileWork == Spec => []WorkIsSignalled
  <1>1. Init => WorkIsSignalled
    BY DEF Init, WorkIsSignalled, Waiting
  <1> QED BY <1>1, WorkStep, PoolTypeCorrect, PTL DEF Spec

\* The two condition variables of thread_pool.cc lose no wakeup, for any number
\* of threads and callers.
THEOREM WakeupsReachSleepers == Spec => []NoLostWakeup
  <1>1. WorkIsSignalled /\ StopIsSignalled /\ IdleIsSignalled => NoLostWakeup
    BY DEF NoLostWakeup
  <1> QED BY <1>1, NoSleepWhileWork, NoSleepAfterStop, NoSleepWhileIdle, PTL

-----------------------------------------------------------------------------
(* Shutdown and WaitIdle.                                                  *)

\* A thread exits only from a stopped and drained pool, and such a pool stays
\* drained; the vector of threads is cleared when all have exited.
DrainInv ==
    /\ \A th \in Threads : thread[th] = "exited" => stop /\ tasks = <<>>
    /\ joined => \A th \in Threads : thread[th] = "exited"

\* Every action preserves the invariant behind ShutdownDrains.
LEMMA DrainStep ==
    ASSUME TypeOK, DrainInv, [Next]_vars
    PROVE  DrainInv'
  <1>1. ASSUME NEW c \in Callers, NEW j \in Jobs, SubmitAccept(c, j)
        PROVE  DrainInv'
    BY <1>1 DEF DrainInv, SubmitAccept
  <1>2. ASSUME NEW c \in Callers,
               \/ \E j \in Jobs : SubmitDrop(c, j)
               \/ WaitIdle(c) \/ WaitIdleReturn(c) \/ WaitIdleSleep(c)
               \/ SpuriousCaller(c) \/ Shutdown(c) \/ Join(c)
        PROVE  DrainInv'
    BY <1>2, SMTT(60)
       DEF DrainInv, SubmitDrop, WaitIdle, WaitIdleReturn, WaitIdleSleep,
           SpuriousCaller, Shutdown, Join, poolVars
  <1>3. ASSUME NEW c \in Callers, NotifyOne(c) \/ NotifyAll(c)
        PROVE  DrainInv'
    <2>1. \A th \in Threads : thread'[th] = "exited" <=> thread[th] = "exited"
      BY <1>3 DEF TypeOK, NotifyOne, NotifyAll
    <2> QED BY <1>3, <2>1, SMTT(60) DEF DrainInv, NotifyOne, NotifyAll
  <1>4. ASSUME NEW th \in Threads, WorkerLoop(th) \/ SpuriousThread(th)
        PROVE  DrainInv'
    BY <1>4, SMTT(60)
       DEF TypeOK, DrainInv, WorkerLoop, Take, Sleep, Exit, Finish,
           SpuriousThread
  <1>5. CASE UNCHANGED vars
    BY <1>5 DEF DrainInv, vars, poolVars
  <1> QED BY <1>1, <1>2, <1>3, <1>4, <1>5 DEF Next, Continue

\* When nothing is in the deque and no thread executes, all is finished.
LEMMA AllFinished ==
    ASSUME PoolInv, tasks = <<>>,
           \A th \in Threads : thread[th] # "executing"
    PROVE  accepted = finished
  <1>1. \A j \in Jobs : ~InDeque(j)
    BY DequeFacts, SMTT(60) DEF PoolInv, InDeque
  <1>2. \A j \in Jobs : ~InThread(j)
    BY NoneAssumption DEF PoolInv, JobsConserved, ExecutingHasTask, InThread
  <1>3. accepted \subseteq Jobs /\ finished \subseteq Jobs
    BY DEF PoolInv, TypeOK
  <1> QED BY <1>1, <1>2, <1>3 DEF PoolInv, JobsConserved, JobHasOnePlace

\* Once Shutdown has joined its threads no accepted function is left undone.
THEOREM ShutdownFinishesAll == Spec => []ShutdownDrains
  <1>1. Init => DrainInv
    BY DEF Init, DrainInv
  <1>2. PoolInv /\ DrainInv => ShutdownDrains
    <2> SUFFICES ASSUME PoolInv, DrainInv, joined
                 PROVE  stop /\ accepted = finished
      BY DEF ShutdownDrains
    <2>1. stop /\ tasks = <<>> /\ \A th \in Threads : thread[th] # "executing"
      BY ThreadsAssumption DEF DrainInv
    <2> QED BY <2>1, AllFinished
  <1>3. TypeOK /\ DrainInv /\ [Next]_vars => DrainInv'
    BY DrainStep
  <1> QED BY <1>1, <1>2, <1>3, PoolInvariant, PoolTypeCorrect, PTL DEF Spec

\* What a caller of WaitIdle waits for has been accepted.
AwaitedInv == \A c \in Callers : awaited[c] \subseteq accepted

\* Every action preserves the invariant behind WaitIdleCovers.
LEMMA AwaitedStep ==
    ASSUME TypeOK, AwaitedInv, [Next]_vars
    PROVE  AwaitedInv'
  <1>1. accepted \subseteq accepted'
    BY DEF Next, Continue, WorkerLoop, SubmitAccept, SubmitDrop, NotifyOne,
       WaitIdle, WaitIdleReturn, WaitIdleSleep, Shutdown, NotifyAll, Join, Take,
       Sleep, Exit, Finish, SpuriousThread, SpuriousCaller, vars
  <1>2. CASE \E c \in Callers : WaitIdle(c)
    BY <1>2 DEF TypeOK, AwaitedInv, WaitIdle
  <1>3. CASE ~\E c \in Callers : WaitIdle(c)
    <2>1. awaited' = awaited
      BY <1>3
         DEF Next, Continue, WorkerLoop, SubmitAccept, SubmitDrop, NotifyOne,
             WaitIdleReturn, WaitIdleSleep, Shutdown, NotifyAll, Join, Take,
             Sleep, Exit, Finish, SpuriousThread, SpuriousCaller, vars
    <2> QED BY <1>1, <2>1 DEF AwaitedInv
  <1> QED BY <1>2, <1>3

\* WaitIdle returns only when everything submitted before the call is done,
\* however often the pool was busy and idle again in between.
THEOREM WaitIdleWaitsForAll == Spec => WaitIdleCovers
  <1> DEFINE Covered ==
          \A c \in Callers : caller[c] = "test" /\ caller'[c] = "ready" =>
                                 awaited[c] \subseteq finished
  <1>1. Init => AwaitedInv
    BY DEF Init, AwaitedInv
  <1>2. TypeOK /\ AwaitedInv /\ [Next]_vars => AwaitedInv'
    BY AwaitedStep
  <1>3. ASSUME PoolInv, AwaitedInv, [Next]_vars
        PROVE  [Covered]_vars
    <2> SUFFICES ASSUME NEW c \in Callers, caller[c] = "test",
                        caller'[c] = "ready"
                 PROVE  awaited[c] \subseteq finished
      OBVIOUS
    <2>1. IsIdle
      <3>1. caller \in [Callers -> CallerStates]
        BY <1>3 DEF PoolInv, TypeOK
      <3>2. ASSUME NEW d \in Callers,
                   \/ \E j \in Jobs : SubmitAccept(d, j) \/ SubmitDrop(d, j)
                   \/ WaitIdle(d) \/ Shutdown(d) \/ SpuriousCaller(d)
                   \/ NotifyOne(d) \/ WaitIdleSleep(d) \/ NotifyAll(d) \/ Join(d)
            PROVE  FALSE
        <4>1. d # c => caller'[c] = caller[c]
          BY <3>1, <3>2
             DEF SubmitAccept, SubmitDrop, WaitIdle, Shutdown, SpuriousCaller,
                 NotifyOne, WaitIdleSleep, NotifyAll, Join
        <4>2. d = c => caller[d] # "test" \/ caller'[d] # "ready"
          BY <3>1, <3>2
             DEF SubmitAccept, SubmitDrop, WaitIdle, Shutdown, SpuriousCaller,
                 NotifyOne, WaitIdleSleep, NotifyAll, Join
        <4> QED BY <4>1, <4>2
      <3>3. ASSUME NEW th \in Threads, WorkerLoop(th) \/ SpuriousThread(th)
            PROVE  FALSE
        BY <3>1, <3>3 DEF WorkerLoop, Take, Sleep, Exit, Finish, SpuriousThread
      <3>4. ~UNCHANGED vars
        BY DEF vars
      <3> QED BY <1>3, <3>2, <3>3, <3>4 DEF Next, Continue, WaitIdleReturn
    <2>2. Executing = {}
      BY <1>3, <2>1, CountedSets, FS_EmptySet DEF IsIdle, PoolInv, JobsConserved
    <2>3. accepted = finished
      BY <1>3, <2>1, <2>2, AllFinished DEF IsIdle, Executing
    <2> QED BY <1>3, <2>3 DEF AwaitedInv
  <1>4. [][Covered]_vars => WaitIdleCovers
    BY DEF WaitIdleCovers
  <1> QED BY <1>1, <1>2, <1>3, <1>4, PoolInvariant, PoolTypeCorrect, PTL
             DEF Spec

-----------------------------------------------------------------------------
(* The pool implements the job service.                                    *)

\* Every step of the pool is a step of the service or changes nothing there.
LEMMA ServiceStep ==
    ASSUME PoolInv, [Next]_vars
    PROVE  [Service!Next]_Service!vars
  <1>0. JobsConserved
    BY DEF PoolInv
  <1>1. ASSUME NEW c \in Callers, NEW j \in Jobs, SubmitAccept(c, j)
        PROVE  Service!Accept(j)
    <2>1. ~InDeque(j) /\ ~InThread(j) /\ j \notin finished
      BY <1>0, <1>1 DEF SubmitAccept, JobsConserved, JobHasOnePlace
    <2> QED BY <1>1, <2>1
               DEF Service!Accept, Service!Queued, Service!Started, InDeque,
                   InThread, SubmitAccept
  <1>2. ASSUME NEW th \in Threads, Take(th)
        PROVE  Service!Start(th)
    <2>1. task[th] = None
      BY <1>0, <1>2 DEF JobsConserved, ExecutingHasTask, Take
    <2> QED BY <1>2, <2>1 DEF Service!Start, Take
  <1>3. ASSUME NEW th \in Threads, Finish(th)
        PROVE  Service!Finish(th)
    <2>1. task[th] # None
      BY <1>0, <1>3 DEF JobsConserved, ExecutingHasTask, Finish
    <2> QED BY <1>3, <2>1 DEF Service!Finish, Finish
  <1>4. ASSUME NEW c \in Callers, Shutdown(c)
        PROVE  Service!Close
    BY <1>4 DEF Service!Close, Shutdown
  <1>5. ASSUME NEW c \in Callers,
               \/ \E j \in Jobs : SubmitDrop(c, j)
               \/ WaitIdle(c) \/ Continue(c) \/ SpuriousCaller(c)
        PROVE  UNCHANGED Service!vars
    BY <1>5
       DEF SubmitDrop, WaitIdle, Continue, SpuriousCaller, NotifyOne,
           WaitIdleReturn, WaitIdleSleep, NotifyAll, Join, poolVars,
           Service!vars
  <1>6. ASSUME NEW th \in Threads, Sleep(th) \/ Exit(th) \/ SpuriousThread(th)
        PROVE  UNCHANGED Service!vars
    BY <1>6 DEF Sleep, Exit, SpuriousThread, Service!vars
  <1>7. CASE UNCHANGED vars
    BY <1>7 DEF vars, poolVars, Service!vars
  <1> QED BY <1>1, <1>2, <1>3, <1>4, <1>5, <1>6, <1>7
             DEF Next, WorkerLoop, Service!Next

\* The pool starts functions in the order they were submitted, at most one per
\* thread at a time, and runs each of them once.
THEOREM PoolImplementsJobService == Spec => ImplementsJobService
  <1>1. Init => Service!Init
    BY DEF Init, Service!Init
  <1>2. PoolInv /\ [Next]_vars => [Service!Next]_Service!vars
    BY ServiceStep
  <1> QED BY <1>1, <1>2, PoolInvariant, PTL
             DEF Spec, ImplementsJobService, Service!Spec

=============================================================================
