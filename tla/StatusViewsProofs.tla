-------------------------- MODULE StatusViewsProofs --------------------------
(***************************************************************************)
(* Proofs about StatusViews: what the commands print fits together although *)
(* clients and workers move tasks between their reads, for every set of    *)
(* tasks, workers and threads.                                             *)
(***************************************************************************)
EXTENDS StatusViews, TaskQueueProofs, FiniteSetTheorems

\* The leaves are for Zenon unless they name another prover.
USE ZenonT(60)

-----------------------------------------------------------------------------
(* The inductive invariant: for each command, what the replies it has got  *)
(* so far still say of the queue.                                          *)

Reply == TaskStatus \cup ResultPayload \cup BOOLEAN \cup Nat \cup Seq(Tasks)

\* taskq status, after each of its three reads.
StatusRead ==
    command = "status" =>
        /\ subject \in Tasks
        /\ Len(replies) \in 0..3
        /\ Len(replies) > 0 =>
               /\ replies[1] = "succeeded" => results[subject] # "none"
               /\ replies[1] \in {"dead", "retrying"} =>
                      subject \in failures \cup cleared
        /\ Len(replies) > 1 =>
               /\ replies[1] = "succeeded" /\ replies[2] => subject \in late
               /\ replies[1] \in {"dead", "retrying"} /\ ~replies[2] =>
                      subject \in cleared
        /\ Len(replies) > 2 =>
               /\ replies[1] = "succeeded" => replies[3] # "none"
               /\ replies[3] # "none" => results[subject] # "none"

\* taskq result, after each of its two reads.
ResultRead ==
    command = "result" =>
        /\ subject \in Tasks
        /\ Len(replies) \in 0..2
        /\ Len(replies) > 0 => results[subject] # "none"
        /\ Len(replies) > 1 => replies[2] # "none"

\* taskq failed list: a task of the list that has no reason has lost it since,
\* or has had a late report.
ListRead ==
    command = "failed_list" /\ replies # <<>> =>
        /\ replies[1] \in Seq(Tasks)
        /\ \A i \in 1..Len(replies[1]) :
               /\ replies[1][i] \in failures \cup cleared \cup late
               /\ i < Len(replies) /\ ~replies[i + 1] =>
                      replies[1][i] \in cleared \cup late

\* taskq stats: what it has read and what it would read now.
Seen(k) == IF k <= Len(replies) THEN replies[k] ELSE Lengths[k]

StatsRead ==
    command = "stats" =>
        /\ Len(replies) \in 0..4
        /\ \A k \in 1..Len(replies) : replies[k] \in Nat
        /\ Seen(1) + Seen(2) + Seen(3) + Seen(4) <= started + gained
        /\ Seen(1) + Seen(2) + Seen(3) + Seen(4) >= started - lost

ViewTypeOK ==
    /\ command \in Commands
    /\ replies \in Seq(Reply)
    /\ started \in Nat /\ gained \in Nat /\ lost \in Nat
    /\ command = "none" => replies = <<>>
    /\ command # "stats" => gained = 0 /\ lost = 0
    /\ IsFiniteSet(delayed)

ViewInv == ViewTypeOK /\ StatusRead /\ ResultRead /\ ListRead /\ StatsRead

-----------------------------------------------------------------------------
(* The queue under the commands: they only read it.                        *)

\* The queue behaves as it does when no command looks at it.
LEMMA QueueGoesOn == ViewsSpec => Spec
  <1>1. Read => UNCHANGED vars
    BY DEF Read
  <1>2. QueueStep => Next
    BY DEF QueueStep
  <1>3. UNCHANGED <<vars, viewVars>> => UNCHANGED vars
    OBVIOUS
  <1>4. [QueueStep \/ Read]_<<vars, viewVars>> => [Next]_vars
    BY <1>1, <1>2, <1>3
  <1> QED BY <1>4, PTL DEF ViewsSpec, Spec

\* The script, if any, that a step of the queue runs.
OneScript ==
    \/ UNCHANGED brokerVars
    \/ \E t \in Tasks, run_at \in RunAts : Enqueue(t, run_at, clock)
    \/ \E m \in delayed, now \in Time :
           PromoteOneScript(m, now) \/ PromoteDropScript(m, now)
    \/ \E t \in Tasks, now \in Time, timeout \in Nat :
           ReclaimOneScript(t, now, timeout)
    \/ ReserveDropScript \/ \E now \in Time : ReserveScript(now)
    \/ \E m \in DelayedMessage : RetryScript(m)
    \/ \E t \in Tasks : FailScript(t) \/ AckScript(t) \/ RetryDeadTaskScript(t)

\* Every action of the queue runs at most one script.
LEMMA StepIsScript ==
    ASSUME TypeOK, [Next]_vars
    PROVE  OneScript
  <1>1. CASE UNCHANGED vars
    BY <1>1 DEF vars, OneScript
  <1>2. ASSUME NEW t \in Tasks, ClientEnqueue(t) \/ ClientRetryDead(t)
        PROVE  OneScript
    BY <1>2 DEF ClientEnqueue, ClientRetryDead, OneScript
  <1>3. ASSUME NEW w \in Workers, Poll(w)
        PROVE  OneScript
    <2>1. now_ms[w] \in Time /\ VisibilityTimeout[w] \in Nat
      BY WorkerAssumption DEF TypeOK
    <2>2. CASE StartPoll(w) \/ Scan(w) \/ StartReserve(w)
      BY <2>2 DEF StartPoll, Scan, StartReserve, OneScript
    <2>3. CASE Promote(w)
      BY <2>1, <2>3 DEF Promote, OneScript
    <2>4. ASSUME NEW t \in Tasks, Reclaim(w, t)
          PROVE  OneScript
      BY <2>1, <2>4 DEF Reclaim, OneScript
    <2>5. CASE Reserve(w)
      BY <2>1, <2>5 DEF Reserve, OneScript
    <2> QED BY <1>3, <2>2, <2>3, <2>4, <2>5 DEF Poll
  <1>4. ASSUME NEW w \in Workers, Crash(w) \/ Restart(w)
        PROVE  OneScript
    BY <1>4 DEF Crash, Restart, OneScript
  <1>5. ASSUME NEW w \in Workers, NEW th \in Threads, ProcessTask(w, th)
        PROVE  OneScript
    <2>1. hands[w][th] \in TaskMessage /\ hands[w][th].id \in Tasks
      BY <1>5, TimelyReport
    <2>2. CASE Retry(w, th)
      <3>1. \E n \in DelayedMessage : RetryScript(n)
        BY <2>1, <2>2, RetryWrites
      <3> QED BY <3>1 DEF OneScript
    <2> QED BY <1>5, <2>1, <2>2
               DEF ProcessTask, FailUnknown, Ack, Fail, OneScript
  <1>6. CASE Tick
    BY <1>6 DEF Tick, OneScript
  <1> QED BY <1>1, <1>2, <1>3, <1>4, <1>5, <1>6 DEF Next

\* No script takes a result back.
LEMMA ResultsStay ==
    ASSUME TypeOK, OneScript, NEW t \in Tasks, results[t] # "none"
    PROVE  results'[t] # "none"
  <1>1. results \in [Tasks -> ResultPayload]
    BY DEF TypeOK, BrokerTypeOK
  <1>2. \/ results' = results
        \/ \E u \in Tasks : results' = [results EXCEPT ![u] = "empty"]
    BY DEF OneScript, brokerVars, Enqueue, PromoteOneScript, PromoteDropScript,
           ReclaimOneScript, ReserveDropScript, ReserveScript, RetryScript,
           FailScript, AckScript, RetryDeadTaskScript
  <1> QED BY <1>1, <1>2, SMTT(60)

-----------------------------------------------------------------------------
(* How the scripts change the four lengths that taskq stats asks for.       *)

Reserved == {t \in Tasks : running[t] # Null}

\* By how much a move from key j to key i changes the length of key k; 0 is no
\* key of the queue.
Change(k, i, j) == (IF k = i THEN 1 ELSE 0) - (IF k = j THEN 1 ELSE 0)

Moved(i, j) ==
    /\ Len(pending') = Len(pending) + Change(1, i, j)
    /\ Cardinality(delayed') = Cardinality(delayed) + Change(2, i, j)
    /\ Cardinality(Reserved') = Cardinality(Reserved) + Change(3, i, j)
    /\ Len(dead') = Len(dead) + Change(4, i, j)

OneMove == \E i, j \in 0..4 : Moved(i, j)

LengthsOK ==
    /\ Len(pending) \in Nat /\ Cardinality(delayed) \in Nat
    /\ Cardinality(Reserved) \in Nat /\ Len(dead) \in Nat

\* The four lengths are numbers: there are finitely many tasks.
LEMMA LengthsAreNat ==
    ASSUME BrokerTypeOK, IsFiniteSet(delayed)
    PROVE  LengthsOK /\ IsFiniteSet(Reserved)
  <1>1. IsFiniteSet(Reserved)
    BY FS_Subset, ViewsAssumption DEF Reserved
  <1>2. Cardinality(Reserved) \in Nat /\ Cardinality(delayed) \in Nat
    BY <1>1, FS_CardinalityType
  <1>3. Len(pending) \in Nat /\ Len(dead) \in Nat
    BY ListElements DEF BrokerTypeOK
  <1> QED BY <1>1, <1>2, <1>3 DEF LengthsOK

\* HSET of a running entry: one more, unless the id has an entry already.
LEMMA ReservedMore ==
    ASSUME BrokerTypeOK, IsFiniteSet(Reserved), NEW t \in Tasks,
           NEW m \in TaskMessage, running' = [running EXCEPT ![t] = m]
    PROVE  \/ Cardinality(Reserved') = Cardinality(Reserved)
           \/ Cardinality(Reserved') = Cardinality(Reserved) + 1
  <1>1. Reserved' = Reserved \cup {t}
    BY NullAssumption, SMTT(60) DEF Reserved, BrokerTypeOK
  <1> QED BY <1>1, FS_AddElement

\* HDEL of a running entry: one less, if the id had an entry.
LEMMA ReservedLess ==
    ASSUME BrokerTypeOK, IsFiniteSet(Reserved), NEW t \in Tasks,
           running' = [running EXCEPT ![t] = Null]
    PROVE  Cardinality(Reserved') =
               IF running[t] = Null THEN Cardinality(Reserved)
               ELSE Cardinality(Reserved) - 1
  <1>1. Reserved' = Reserved \ {t}
    BY SMTT(60) DEF Reserved, BrokerTypeOK
  <1>2. t \in Reserved <=> running[t] # Null
    BY DEF Reserved
  <1>3. Cardinality(Reserved \ {t}) =
            IF t \in Reserved THEN Cardinality(Reserved) - 1
            ELSE Cardinality(Reserved)
    BY FS_RemoveElement
  <1> QED BY <1>1, <1>2, <1>3

\* ZADD of a delayed message: one more, unless the member is there already.
LEMMA DelayedMore ==
    ASSUME IsFiniteSet(delayed), NEW m, delayed' = delayed \cup {m}
    PROVE  /\ IsFiniteSet(delayed)'
           /\ \/ Cardinality(delayed') = Cardinality(delayed)
              \/ Cardinality(delayed') = Cardinality(delayed) + 1
  BY FS_AddElement

\* ZREM of a delayed message: one less.
LEMMA DelayedLess ==
    ASSUME IsFiniteSet(delayed), NEW m \in delayed, delayed' = delayed \ {m}
    PROVE  /\ IsFiniteSet(delayed)'
           /\ Cardinality(delayed') = Cardinality(delayed) - 1
  BY FS_RemoveElement

\* LPUSH makes the pending list longer by one.
LEMMA PushedPending ==
    ASSUME BrokerTypeOK, NEW e \in TaskMessage, pending' = Append(pending, e)
    PROVE  Len(pending') = Len(pending) + 1
  BY AppendFacts DEF BrokerTypeOK

\* RPOP makes it shorter by one.
LEMMA PoppedPending ==
    ASSUME BrokerTypeOK, pending # <<>>, pending' = Tail(pending)
    PROVE  Len(pending') = Len(pending) - 1
  BY TailFacts DEF BrokerTypeOK

\* Enqueue adds a message to one of two keys.
LEMMA EnqueueLengths ==
    ASSUME BrokerTypeOK, IsFiniteSet(delayed), NEW t \in Tasks,
           NEW run_at \in Time \cup {Null}, NEW now, Enqueue(t, run_at, now)
    PROVE  OneMove /\ IsFiniteSet(delayed)'
  <1>1. LengthsOK
    BY LengthsAreNat
  <1>2. Reserved' = Reserved /\ dead' = dead
    BY DEF Enqueue, Reserved
  <1>3. CASE IsFuture(run_at, now)
    <2>1. /\ \E m : delayed' = delayed \cup {m}
          /\ pending' = pending
      BY <1>3 DEF Enqueue
    <2>2. /\ IsFiniteSet(delayed')
          /\ \/ Cardinality(delayed') = Cardinality(delayed)
             \/ Cardinality(delayed') = Cardinality(delayed) + 1
      BY <2>1, DelayedMore
    <2>3. Moved(0, 0) \/ Moved(2, 0)
      BY <1>1, <1>2, <2>1, <2>2, SMTT(60) DEF Moved, Change, LengthsOK
    <2> QED BY <2>2, <2>3, SMTT(60) DEF OneMove
  <1>4. CASE ~IsFuture(run_at, now)
    <2>1. Len(pending') = Len(pending) + 1 /\ delayed' = delayed
      <3>1. \E e \in TaskMessage : pending' = Append(pending, e)
        BY <1>4, FreshMessage DEF Enqueue
      <3>2. delayed' = delayed
        BY <1>4 DEF Enqueue
      <3> QED BY <3>1, <3>2, PushedPending
    <2>2. Moved(1, 0)
      BY <1>1, <1>2, <2>1, SMTT(60) DEF Moved, Change, LengthsOK
    <2> QED BY <2>1, <2>2, SMTT(60) DEF OneMove
  <1> QED BY <1>3, <1>4

\* kPromoteOneScript moves a message from delayed to pending.
LEMMA PromoteLengths ==
    ASSUME BrokerTypeOK, IsFiniteSet(delayed), NEW m \in delayed, NEW now,
           PromoteOneScript(m, now) \/ PromoteDropScript(m, now)
    PROVE  OneMove /\ IsFiniteSet(delayed)'
  <1>1. LengthsOK
    BY LengthsAreNat
  <1>2. delayed' = delayed \ {m} /\ running' = running /\ dead' = dead
    BY DEF PromoteOneScript, PromoteDropScript
  <1>3. /\ IsFiniteSet(delayed)'
        /\ Cardinality(delayed') = Cardinality(delayed) - 1
    BY <1>2, DelayedLess
  <1>4. Len(pending') = Len(pending) \/ Len(pending') = Len(pending) + 1
    <2>1. [m EXCEPT !.run_at = Null] \in TaskMessage
      BY DEF BrokerTypeOK, TaskMessage
    <2>2. \/ pending' = pending
          \/ pending' = Append(pending, [m EXCEPT !.run_at = Null])
      BY DEF PromoteOneScript, PromoteDropScript
    <2> QED BY <2>1, <2>2, PushedPending
  <1>5. Reserved' = Reserved
    BY <1>2 DEF Reserved
  <1>6. Moved(0, 2) \/ Moved(1, 2)
    BY <1>1, <1>2, <1>3, <1>4, <1>5, SMTT(60) DEF Moved, Change, LengthsOK
  <1> QED BY <1>3, <1>6, SMTT(60) DEF OneMove

\* kReserveScript moves a message from pending to running, or drops it.
LEMMA ReserveLengths ==
    ASSUME BrokerTypeOK, IsFiniteSet(delayed), NEW now \in Time,
           ReserveScript(now) \/ ReserveDropScript
    PROVE  OneMove /\ IsFiniteSet(delayed)'
  <1>1. LengthsOK /\ IsFiniteSet(Reserved)
    BY LengthsAreNat
  <1>2. delayed' = delayed /\ dead' = dead
    BY DEF ReserveScript, ReserveDropScript
  <1>3. Len(pending') = Len(pending) - 1
    BY PoppedPending DEF ReserveScript, ReserveDropScript
  <1>4. \/ Cardinality(Reserved') = Cardinality(Reserved)
        \/ Cardinality(Reserved') = Cardinality(Reserved) + 1
    <2>1. CASE ReserveScript(now)
      <3> DEFINE m == Reservable(now)
      <3>1. m \in TaskMessage /\ m.id \in Tasks
        BY <2>1, ReservableFacts DEF ReserveScript, TaskMessage
      <3>2. running' = [running EXCEPT ![m.id] = m]
        BY <2>1 DEF ReserveScript
      <3> HIDE DEF m
      <3> QED BY <1>1, <3>1, <3>2, ReservedMore
    <2>2. CASE ReserveDropScript
      BY <2>2 DEF ReserveDropScript, Reserved
    <2> QED BY <2>1, <2>2
  <1>5. Moved(0, 1) \/ Moved(3, 1)
    BY <1>1, <1>2, <1>3, <1>4, SMTT(60) DEF Moved, Change, LengthsOK
  <1> QED BY <1>2, <1>5, SMTT(60) DEF OneMove

\* kReclaimOneScript moves a message from running to pending.
LEMMA ReclaimLengths ==
    ASSUME BrokerTypeOK, IsFiniteSet(delayed), NEW t \in Tasks, NEW now,
           NEW timeout, ReclaimOneScript(t, now, timeout)
    PROVE  OneMove /\ IsFiniteSet(delayed)'
  <1>1. LengthsOK /\ IsFiniteSet(Reserved)
    BY LengthsAreNat
  <1>2. /\ running[t] # Null /\ running' = [running EXCEPT ![t] = Null]
        /\ delayed' = delayed /\ dead' = dead
    BY DEF ReclaimOneScript, IsStale
  <1>3. Cardinality(Reserved') = Cardinality(Reserved) - 1
    BY <1>1, <1>2, ReservedLess
  <1>4. Len(pending') = Len(pending) + 1
    <2>1. [running[t] EXCEPT !.reserved_at = Null] \in TaskMessage
      BY <1>2 DEF BrokerTypeOK, TaskMessage
    <2> QED BY <2>1, PushedPending DEF ReclaimOneScript
  <1>5. Moved(1, 3)
    BY <1>1, <1>2, <1>3, <1>4, SMTT(60) DEF Moved, Change, LengthsOK
  <1> QED BY <1>2, <1>5, SMTT(60) DEF OneMove

\* kRetryScript moves a message from running, if it is there, to delayed.
LEMMA RetryLengths ==
    ASSUME BrokerTypeOK, IsFiniteSet(delayed), NEW m \in DelayedMessage,
           RetryScript(m)
    PROVE  OneMove /\ IsFiniteSet(delayed)'
  <1>1. LengthsOK /\ IsFiniteSet(Reserved)
    BY LengthsAreNat
  <1>2. /\ running' = [running EXCEPT ![m.id] = Null] /\ m.id \in Tasks
        /\ delayed' = delayed \cup {m} /\ pending' = pending /\ dead' = dead
    BY DEF RetryScript, DelayedMessage
  <1>3. \/ Cardinality(Reserved') = Cardinality(Reserved)
        \/ Cardinality(Reserved') = Cardinality(Reserved) - 1
    BY <1>1, <1>2, ReservedLess
  <1>4. /\ IsFiniteSet(delayed)'
        /\ \/ Cardinality(delayed') = Cardinality(delayed)
           \/ Cardinality(delayed') = Cardinality(delayed) + 1
    BY <1>2, DelayedMore
  <1>5. Moved(0, 0) \/ Moved(0, 3) \/ Moved(2, 0) \/ Moved(2, 3)
    BY <1>1, <1>2, <1>3, <1>4, SMTT(60) DEF Moved, Change, LengthsOK
  <1> QED BY <1>4, <1>5, SMTT(60) DEF OneMove

\* kFailScript moves a message from running, if it is there, to dead, and
\* kAckScript takes it away.
LEMMA EndLengths ==
    ASSUME BrokerTypeOK, IsFiniteSet(delayed), NEW t \in Tasks,
           FailScript(t) \/ AckScript(t)
    PROVE  OneMove /\ IsFiniteSet(delayed)'
  <1>1. LengthsOK /\ IsFiniteSet(Reserved)
    BY LengthsAreNat
  <1>2. /\ running' = [running EXCEPT ![t] = Null]
        /\ delayed' = delayed /\ pending' = pending
    BY DEF FailScript, AckScript
  <1>3. Cardinality(Reserved') = IF running[t] = Null THEN Cardinality(Reserved)
                                 ELSE Cardinality(Reserved) - 1
    BY <1>1, <1>2, ReservedLess
  <1>4. \/ Len(dead') = Len(dead)
        \/ running[t] # Null /\ Len(dead') = Len(dead) + 1
    <2>1. dead' = dead \/ (running[t] # Null /\ dead' = Append(dead, running[t]))
      BY DEF FailScript, AckScript
    <2>2. dead \in Seq(TaskMessage) /\ running[t] \in TaskMessage \cup {Null}
      BY DEF BrokerTypeOK
    <2>3. running[t] # Null => Len(Append(dead, running[t])) = Len(dead) + 1
      BY <2>2, AppendFacts
    <2> QED BY <2>1, <2>3
  <1>5. Moved(0, 0) \/ Moved(0, 3) \/ Moved(4, 3)
    BY <1>1, <1>2, <1>3, <1>4, SMTT(60) DEF Moved, Change, LengthsOK
  <1> QED BY <1>2, <1>5, SMTT(60) DEF OneMove

\* kRetryDeadTaskScript moves a message from dead to pending.
LEMMA RequeueLengths ==
    ASSUME BrokerTypeOK, IsFiniteSet(delayed), NEW t \in Tasks,
           RetryDeadTaskScript(t)
    PROVE  OneMove /\ IsFiniteSet(delayed)'
  <1>1. LengthsOK
    BY LengthsAreNat
  <1>2. delayed' = delayed /\ running' = running
    BY DEF RetryDeadTaskScript
  <1>3. Len(pending') = Len(pending) + 1
    <2>1. \E e \in TaskMessage : pending' = Append(pending, e)
      BY FreshMessage DEF RetryDeadTaskScript
    <2> QED BY <2>1, PushedPending
  <1>4. Len(dead') = Len(dead) - 1
    <2>1. \E i \in 1..Len(dead) : dead' = WithoutIndex(dead, i)
      BY DEF RetryDeadTaskScript
    <2>2. dead \in Seq(TaskMessage)
      BY DEF BrokerTypeOK
    <2> QED BY <2>1, <2>2, WithoutIndexFacts
  <1>5. Reserved' = Reserved
    BY <1>2 DEF Reserved
  <1>6. Moved(1, 4)
    BY <1>1, <1>2, <1>3, <1>4, <1>5, SMTT(60) DEF Moved, Change, LengthsOK
  <1> QED BY <1>2, <1>6, SMTT(60) DEF OneMove

\* Every step of the queue moves at most one message.
LEMMA StepMovesOne ==
    ASSUME TypeOK, IsFiniteSet(delayed), OneScript
    PROVE  OneMove /\ IsFiniteSet(delayed)'
  <1>1. BrokerTypeOK
    BY DEF TypeOK
  <1>2. CASE UNCHANGED brokerVars
    <2>1. /\ delayed' = delayed /\ pending' = pending /\ dead' = dead
          /\ Reserved' = Reserved
      BY <1>2 DEF brokerVars, Reserved
    <2>2. LengthsOK
      BY <1>1, LengthsAreNat
    <2>3. Moved(0, 0)
      BY <2>1, <2>2, SMTT(60) DEF Moved, Change, LengthsOK
    <2> QED BY <2>1, <2>3, SMTT(60) DEF OneMove
  <1>3. ASSUME NEW t \in Tasks, NEW run_at \in RunAts, Enqueue(t, run_at, clock)
        PROVE  OneMove /\ IsFiniteSet(delayed)'
    <2>1. run_at \in Time \cup {Null}
      BY WorkerAssumption
    <2> QED BY <1>1, <1>3, <2>1, EnqueueLengths
  <1>4. 0 \in Time
    BY SMTT(60) DEF Time
  <1> QED BY <1>1, <1>2, <1>3, <1>4, PromoteLengths, ReserveLengths, ReclaimLengths,
             RetryLengths, EndLengths, RequeueLengths
          DEF OneScript

-----------------------------------------------------------------------------
(* taskq stats.                                                            *)

\* The four replies, by their place.
LEMMA LengthsFacts ==
    /\ Lengths[1] = Len(pending) /\ Lengths[2] = Cardinality(delayed)
    /\ Lengths[3] = Cardinality(Reserved) /\ Lengths[4] = Len(dead)
  BY SMTT(60) DEF Lengths, Reserved

\* The same of the next state.
LEMMA LengthsFactsNext ==
    /\ Lengths'[1] = Len(pending') /\ Lengths'[2] = Cardinality(delayed')
    /\ Lengths'[3] = Cardinality(Reserved') /\ Lengths'[4] = Len(dead')
  BY SMTT(60) DEF Lengths, Reserved

\* A move counts as one that can add to the sum if it goes to a key that is
\* read later, and as one that can take from it if it goes to an earlier one.
LEMMA MoveDirection ==
    ASSUME LengthsOK, NEW i \in 0..4, NEW j \in 0..4, Moved(i, j)
    PROVE  (Adds <=> j < i) /\ (Takes <=> i < j)
  <1>1. \A k \in 1..4 : Lengths'[k] = Lengths[k] + Change(k, i, j)
                        /\ Lengths[k] \in Nat
    BY LengthsFacts, LengthsFactsNext, SMTT(60) DEF Moved, LengthsOK
  <1>2. \A k \in 1..4 : /\ k \in Grows <=> k = i /\ i # j
                        /\ k \in Shrinks <=> k = j /\ i # j
    BY <1>1, SMTT(60) DEF Grows, Shrinks, Change
  <1>3. Grows \subseteq 1..4 /\ Shrinks \subseteq 1..4
    BY DEF Grows, Shrinks
  <1> QED BY <1>2, <1>3, SMTT(60) DEF Adds, Takes

\* What a move can do to the sum of the keys that are not read yet.
LEMMA MoveOfRest ==
    ASSUME NEW n \in 0..4, NEW i \in 0..4, NEW j \in 0..4
    PROVE  LET c(k) == IF k <= n THEN 0 ELSE Change(k, i, j) IN
           /\ c(1) + c(2) + c(3) + c(4) <= IF j < i THEN 1 ELSE 0
           /\ c(1) + c(2) + c(3) + c(4) >= 0 - (IF i < j THEN 1 ELSE 0)
  BY SMTT(60) DEF Change

\* The queue moves a message while taskq stats is reading.
LEMMA StatsQueueStep ==
    ASSUME TypeOK, ViewInv, QueueStep, OneMove
    PROVE  StatsRead'
  <1>1. SUFFICES ASSUME command = "stats"
                 PROVE  StatsRead'
    BY DEF StatsRead, QueueStep
  <1>2. LengthsOK
    BY LengthsAreNat DEF TypeOK, ViewInv, ViewTypeOK
  <1>3. PICK i \in 0..4, j \in 0..4 : Moved(i, j)
    BY DEF OneMove
  <1>4. (Adds <=> j < i) /\ (Takes <=> i < j)
    BY <1>2, <1>3, MoveDirection
  <1>5. /\ gained' = gained + (IF j < i THEN 1 ELSE 0)
        /\ lost' = lost + (IF i < j THEN 1 ELSE 0)
        /\ started' = started /\ replies' = replies /\ command' = command
    BY <1>1, <1>4 DEF QueueStep
  <1> DEFINE n == Len(replies)
             c(k) == IF k <= n THEN 0 ELSE Change(k, i, j)
  <1>6. /\ n \in 0..4 /\ \A k \in 1..n : replies[k] \in Nat
        /\ Seen(1) + Seen(2) + Seen(3) + Seen(4) <= started + gained
        /\ Seen(1) + Seen(2) + Seen(3) + Seen(4) >= started - lost
        /\ started \in Nat /\ gained \in Nat /\ lost \in Nat
    BY <1>1 DEF ViewInv, StatsRead, ViewTypeOK
  <1>7. \A k \in 1..4 : /\ Lengths[k] \in Nat
                        /\ Lengths'[k] = Lengths[k] + Change(k, i, j)
    BY <1>2, <1>3, LengthsFacts, LengthsFactsNext, SMTT(60) DEF Moved, LengthsOK
  <1>8. \A k \in 1..4 : Seen(k) \in Nat /\ c(k) \in Int /\ Seen(k)' = Seen(k) + c(k)
    <2>1. SUFFICES ASSUME NEW k \in 1..4
                   PROVE  /\ Seen(k) \in Nat /\ c(k) \in Int
                          /\ Seen(k)' = Seen(k) + c(k)
      OBVIOUS
    <2>2. Change(k, i, j) \in Int
      BY SMTT(60) DEF Change
    <2>3. CASE k <= n
      <3>1. Seen(k) = replies[k] /\ Seen(k)' = replies[k] /\ c(k) = 0
        BY <1>5, <2>3 DEF Seen
      <3>2. replies[k] \in Nat
        BY <1>6, <2>3, SMTT(60)
      <3> QED BY <3>1, <3>2, SMTT(60)
    <2>4. CASE ~(k <= n)
      <3>1. /\ Seen(k) = Lengths[k] /\ Seen(k)' = Lengths'[k]
            /\ c(k) = Change(k, i, j)
        BY <1>5, <2>4 DEF Seen
      <3> QED BY <1>7, <2>2, <3>1
    <2> QED BY <2>3, <2>4
  <1>9. /\ c(1) + c(2) + c(3) + c(4) <= IF j < i THEN 1 ELSE 0
        /\ c(1) + c(2) + c(3) + c(4) >= 0 - (IF i < j THEN 1 ELSE 0)
    BY <1>6, MoveOfRest
  <1> HIDE DEF c, n
  <1>10. /\ Seen(1)' + Seen(2)' + Seen(3)' + Seen(4)' <= started' + gained'
         /\ Seen(1)' + Seen(2)' + Seen(3)' + Seen(4)' >= started' - lost'
    BY <1>5, <1>6, <1>8, <1>9, SMTT(60)
  <1> QED BY <1>1, <1>5, <1>6, <1>10 DEF StatsRead, n

-----------------------------------------------------------------------------
(* The reads.                                                              *)

\* What the keys hold is what they held: a read changes none of them.
LEMMA ReadKeeps ==
    ASSUME UNCHANGED vars
    PROVE  /\ status' = status /\ results' = results /\ failures' = failures
           /\ late' = late /\ delayed' = delayed /\ Lengths' = Lengths
  BY DEF vars, brokerVars, Lengths

\* A reply is added at the end of those the command has.
LEMMA AnswerFacts ==
    ASSUME ViewTypeOK, NEW r \in Reply, command # "none", Answer(r), UNCHANGED vars
    PROVE  /\ ViewTypeOK'
           /\ Len(replies) \in Nat /\ Len(replies') = Len(replies) + 1
           /\ \A i \in 1..Len(replies) : replies'[i] = replies[i]
           /\ replies'[Len(replies) + 1] = r
           /\ command' = command /\ subject' = subject /\ cleared' = cleared
           /\ started' = started /\ gained' = gained /\ lost' = lost
  <1>1. /\ replies' = Append(replies, r) /\ command' = command
        /\ subject' = subject /\ cleared' = cleared
        /\ started' = started /\ gained' = gained /\ lost' = lost
    BY DEF Answer, history
  <1>2. replies \in Seq(Reply)
    BY DEF ViewTypeOK
  <1>3. /\ Append(replies, r) \in Seq(Reply)
        /\ Len(Append(replies, r)) = Len(replies) + 1
        /\ \A i \in 1..Len(replies) : Append(replies, r)[i] = replies[i]
        /\ Append(replies, r)[Len(replies) + 1] = r
    BY <1>2, AppendFacts
  <1>4. Len(replies) \in Nat
    BY <1>2, ListElements
  <1>5. ViewTypeOK'
    BY <1>1, <1>3, ReadKeeps DEF ViewTypeOK
  <1> QED BY <1>1, <1>3, <1>4, <1>5

\* A command that has ended says nothing.
LEMMA EndStep ==
    ASSUME ViewInv, End, UNCHANGED vars
    PROVE  ViewInv'
  <1>1. <<>> \in Seq(Reply) /\ 0 \in Nat
    BY SMTT(60)
  <1>2. IsFiniteSet(delayed)'
    BY ReadKeeps DEF ViewInv, ViewTypeOK
  <1>3. /\ command' = "none" /\ replies' = <<>>
        /\ started' = 0 /\ gained' = 0 /\ lost' = 0
    BY DEF End
  <1>4. ViewTypeOK'
    BY <1>1, <1>2, <1>3 DEF ViewTypeOK, Commands
  <1> QED BY <1>3, <1>4
             DEF ViewInv, StatusRead, ResultRead, ListRead, StatsRead

\* A command that begins has read nothing yet.
LEMMA BeginStep ==
    ASSUME TypeOK, ViewInv, NEW c \in Commands \ {"none"}, NEW t,
           c \in {"status", "result"} => t \in Tasks,
           Begin(c, t), UNCHANGED vars
    PROVE  ViewInv'
  <1>1. /\ command' = c /\ subject' = t /\ replies' = <<>>
        /\ gained' = 0 /\ lost' = 0
        /\ started' = IF c = "stats" THEN Messages(Lengths) ELSE 0
    BY DEF Begin, ViewInv, ViewTypeOK
  <1>2. /\ Len(<<>>) = 0 /\ 0 \in 0..2 /\ 0 \in 0..3 /\ 0 \in 0..4 /\ 0 \in Nat
        /\ ~(0 > 0) /\ ~(0 > 1) /\ ~(0 > 2) /\ <<>> \in Seq(Reply)
    BY SMTT(60)
  <1>3. \A k \in 1..4 : Lengths[k] \in Nat
    <2>1. LengthsOK
      BY LengthsAreNat DEF ViewInv, ViewTypeOK, TypeOK
    <2> QED BY <2>1, LengthsFacts, SMTT(60) DEF LengthsOK
  <1>4. Messages(Lengths) \in Nat
    BY <1>3, SMTT(60) DEF Messages
  <1>5. ViewTypeOK'
    <2>1. IsFiniteSet(delayed)'
      BY ReadKeeps DEF ViewInv, ViewTypeOK
    <2>2. started' \in Nat /\ gained' \in Nat /\ lost' \in Nat
      BY <1>1, <1>2, <1>4
    <2> QED BY <1>1, <1>2, <2>1, <2>2 DEF ViewTypeOK
  <1>6. StatusRead' /\ ResultRead' /\ ListRead'
    BY <1>1, <1>2 DEF StatusRead, ResultRead, ListRead
  <1>7. CASE c = "stats"
    <2>1. Seen(1)' = Lengths[1] /\ Seen(2)' = Lengths[2]
          /\ Seen(3)' = Lengths[3] /\ Seen(4)' = Lengths[4]
      BY <1>1, <1>2, ReadKeeps, SMTT(60) DEF Seen
    <2>2. /\ Seen(1)' + Seen(2)' + Seen(3)' + Seen(4)' <= started' + gained'
          /\ Seen(1)' + Seen(2)' + Seen(3)' + Seen(4)' >= started' - lost'
      BY <1>1, <1>3, <1>7, <2>1, SMTT(60) DEF Messages
    <2>3. \A k \in 1..Len(replies') : replies'[k] \in Nat
      BY <1>1, <1>2, SMTT(60)
    <2> QED BY <1>1, <1>2, <1>5, <1>6, <2>2, <2>3 DEF ViewInv, StatsRead
  <1>8. CASE c # "stats"
    BY <1>1, <1>5, <1>6, <1>8 DEF ViewInv, StatsRead
  <1> QED BY <1>7, <1>8

\* The reads of taskq status.
LEMMA StatusStep ==
    ASSUME TypeOK, StatusEvidence, StatusMatchesPlace, ViewInv,
           BuildTaskStatusJson, UNCHANGED vars
    PROVE  ViewInv'
  <1>1. command = "status" /\ subject \in Tasks /\ ViewTypeOK
    BY DEF BuildTaskStatusJson, GetStatus, GetFailureReason, ViewInv, StatusRead
  <1>2. /\ status[subject] \in Reply /\ results[subject] \in Reply
        /\ (subject \in failures) \in Reply
    <2>1. status[subject] \in TaskStatus /\ results[subject] \in ResultPayload
      BY <1>1 DEF TypeOK, BrokerTypeOK
    <2>2. (subject \in failures) \in BOOLEAN
      BY SMTT(60)
    <2> QED BY <2>1, <2>2 DEF Reply
  <1>3. /\ 0 + 1 = 1 /\ 1 + 1 = 2 /\ 2 + 1 = 3
        /\ 1 \in 0..3 /\ 2 \in 0..3 /\ 3 \in 0..3
        /\ 1 \in 1..1 /\ 1 \in 1..2 /\ 2 \in 1..2
        /\ 1 > 0 /\ ~(1 > 1) /\ ~(1 > 2) /\ 2 > 0 /\ 2 > 1 /\ ~(2 > 2)
    BY SMTT(60)
  <1>4. CASE End
    BY <1>4, EndStep
  <1>5. ASSUME NEW r \in Reply, Answer(r), StatusRead'
        PROVE  ViewInv'
    BY <1>1, <1>5, AnswerFacts DEF ViewInv, ResultRead, ListRead, StatsRead
  <1>6. CASE Len(replies) = 0 /\ Answer(status[subject])
    <2>1. /\ Len(replies') = 1 /\ replies'[1] = status[subject]
          /\ subject' = subject /\ cleared' = cleared
      BY <1>1, <1>2, <1>3, <1>6, AnswerFacts
    <2>2. StatusRead'
      BY <1>1, <1>3, <2>1, ReadKeeps DEF StatusRead, StatusEvidence
    <2> QED BY <1>2, <1>5, <1>6, <2>2
  <1>7. CASE Len(replies) = 1 /\ Answer(subject \in failures)
    <2>1. /\ Len(replies') = 2 /\ replies'[1] = replies[1]
          /\ replies'[2] = (subject \in failures)
          /\ subject' = subject /\ cleared' = cleared
      BY <1>1, <1>2, <1>3, <1>7, AnswerFacts
    <2>2. /\ replies[1] = "succeeded" =>
                 results[subject] # "none" /\ (subject \in failures => subject \in late)
          /\ replies[1] \in {"dead", "retrying"} => subject \in failures \cup cleared
      BY <1>1, <1>3, <1>7
         DEF ViewInv, StatusRead, StatusEvidence, StatusMatchesPlace
    <2>3. StatusRead'
      BY <1>1, <1>3, <2>1, <2>2, ReadKeeps DEF StatusRead
    <2> QED BY <1>2, <1>5, <1>7, <2>3
  <1>8. CASE Len(replies) = 2 /\ Answer(results[subject])
    <2>1. /\ Len(replies') = 3 /\ replies'[1] = replies[1]
          /\ replies'[2] = replies[2] /\ replies'[3] = results[subject]
          /\ subject' = subject /\ cleared' = cleared
      BY <1>1, <1>2, <1>3, <1>8, AnswerFacts
    <2>2. StatusRead'
      BY <1>1, <1>3, <1>8, <2>1, ReadKeeps DEF ViewInv, StatusRead
    <2> QED BY <1>2, <1>5, <1>8, <2>2
  <1> QED BY <1>4, <1>6, <1>7, <1>8
             DEF BuildTaskStatusJson, GetStatus, GetFailureReason

\* The reads of taskq result.
LEMMA ResultStep ==
    ASSUME TypeOK, ViewInv, PrintTaskResult, UNCHANGED vars
    PROVE  ViewInv'
  <1>1. /\ command = "result" /\ subject \in Tasks /\ ViewTypeOK
        /\ Len(replies) < 2
    BY DEF PrintTaskResult, ViewInv, ResultRead
  <1>2. results[subject] \in Reply
    BY <1>1 DEF TypeOK, BrokerTypeOK, Reply
  <1>3. CASE End
    BY <1>3, EndStep
  <1>4. CASE /\ Answer(results[subject])
             /\ Len(replies) = 0 => results[subject] # "none"
    <2>1. /\ replies'[Len(replies) + 1] = results[subject]
          /\ Len(replies') = Len(replies) + 1
          /\ subject' = subject /\ command' = command /\ ViewTypeOK'
      BY <1>1, <1>2, <1>4, AnswerFacts
    <2>2. Len(replies) \in Nat
      BY <1>1, ListElements DEF ViewTypeOK
    <2>3. Len(replies) = 0 \/ Len(replies) = 1
      BY <1>1, <2>2, SMTT(60)
    <2>4. /\ 0 + 1 = 1 /\ 1 + 1 = 2 /\ 1 > 0 /\ 2 > 1 /\ ~(1 > 1)
          /\ 1 \in 0..2 /\ 2 \in 0..2
      BY SMTT(60)
    <2>5. results[subject] # "none"
      BY <1>1, <1>4, <2>3, <2>4 DEF ViewInv, ResultRead
    <2>6. ResultRead'
      BY <1>1, <2>1, <2>3, <2>4, <2>5, ReadKeeps DEF ResultRead
    <2> QED BY <1>1, <2>1, <2>6 DEF ViewInv, StatusRead, ListRead, StatsRead
  <1> QED BY <1>3, <1>4 DEF PrintTaskResult

\* The list that taskq failed list reads: tasks that have a reason, or have had
\* a late report.
LEMMA DeadTasksFacts ==
    ASSUME TypeOK, StatusEvidence, StatusMatchesPlace, ListDeadTasks
    PROVE  \E list \in Seq(Tasks) :
               /\ Answer(list)
               /\ \A i \in 1..Len(list) : list[i] \in failures \cup late
  <1> DEFINE parsed == {i \in 1..Len(dead) : dead[i].id \notin Unparsable}
             n == Cardinality(parsed)
  <1>1. PICK at \in [1..n -> parsed] : Answer([i \in DOMAIN at |-> dead[at[i]].id])
    BY DEF ListDeadTasks
  <1>2. dead \in Seq(TaskMessage) /\ Len(dead) \in Nat
    BY ListElements DEF TypeOK, BrokerTypeOK
  <1>3. n \in Nat
    <2>1. IsFiniteSet(1..Len(dead))
      BY <1>2, FS_Interval, SMTT(60)
    <2> QED BY <2>1, FS_Subset, FS_CardinalityType
  <1>4. \A i \in 1..n : /\ dead[at[i]].id \in Tasks
                        /\ InList(dead, dead[at[i]].id)
    <2>1. SUFFICES ASSUME NEW i \in 1..n
                   PROVE  /\ dead[at[i]].id \in Tasks
                          /\ InList(dead, dead[at[i]].id)
      OBVIOUS
    <2>2. at[i] \in 1..Len(dead)
      BY <1>1
    <2>3. dead[at[i]] \in TaskMessage
      BY <1>2, <2>2, ListElements
    <2> QED BY <2>2, <2>3 DEF InList, TaskMessage
  <1> DEFINE list == [i \in 1..n |-> dead[at[i]].id]
  <1>5. Answer(list)
    <2>1. DOMAIN at = 1..n
      BY <1>1
    <2> QED BY <1>1, <2>1
  <1>6. list \in [1..n -> Tasks] /\ \A i \in 1..n : list[i] = dead[at[i]].id
    BY <1>4
  <1> HIDE DEF list, n, parsed
  <1>7. list \in Seq(Tasks) /\ Len(list) = n
    BY <1>3, <1>6, SMTT(60)
  <1>8. \A i \in 1..n : list[i] \in failures \cup late
    BY <1>4, <1>6 DEF StatusEvidence, StatusMatchesPlace
  <1> QED BY <1>5, <1>7, <1>8

\* The reads of taskq failed list.
LEMMA ListStep ==
    ASSUME TypeOK, StatusEvidence, StatusMatchesPlace, ViewInv, FailedList,
           UNCHANGED vars
    PROVE  ViewInv'
  <1>1. command = "failed_list" /\ command # "none" /\ ViewTypeOK
    BY DEF FailedList, ViewInv
  <1>2. Len(replies) \in Nat
    BY <1>1, ListElements DEF ViewTypeOK
  <1>3. ASSUME NEW r \in Reply, Answer(r), ListRead'
        PROVE  ViewInv'
    BY <1>1, <1>3, AnswerFacts DEF ViewInv, StatusRead, ResultRead, StatsRead
  <1>4. CASE replies = <<>> /\ ListDeadTasks
    <2>1. PICK list \in Seq(Tasks) :
              /\ Answer(list)
              /\ \A i \in 1..Len(list) : list[i] \in failures \cup late
      BY <1>4, DeadTasksFacts
    <2>2. list \in Reply
      BY DEF Reply
    <2>3. Len(replies) = 0 /\ 0 + 1 = 1
      BY <1>4, SMTT(60)
    <2>4. Len(replies') = 1 /\ replies'[1] = list
      BY <1>1, <2>1, <2>2, <2>3, AnswerFacts
    <2>5. \A i \in 1..Len(list) : ~(i < 1)
      BY ListElements, SMTT(60)
    <2>6. ListRead'
      BY <2>1, <2>4, <2>5, ReadKeeps DEF ListRead
    <2> QED BY <1>3, <2>1, <2>2, <2>6
  <1>5. CASE /\ replies # <<>> /\ Len(replies) <= Len(replies[1])
             /\ Answer(replies[1][Len(replies)] \in failures)
    <2> DEFINE n == Len(replies)
               list == replies[1]
               r == list[n] \in failures
    <2>1. r \in Reply
      <3>1. r \in BOOLEAN
        BY SMTT(60)
      <3> QED BY <3>1 DEF Reply
    <2>2. /\ Len(replies') = n + 1 /\ replies'[n + 1] = r
          /\ \A i \in 1..n : replies'[i] = replies[i]
          /\ cleared' = cleared
      BY <1>1, <1>5, <2>1, AnswerFacts
    <2>3. n # 0
      BY <1>1, <1>5, SMTT(60) DEF ViewTypeOK
    <2>4. replies'[1] = list
      <3>1. 1 \in 1..n
        BY <1>2, <2>3, SMTT(60)
      <3> QED BY <2>2, <3>1
    <2>5. /\ list \in Seq(Tasks)
          /\ \A i \in 1..Len(list) :
                 /\ list[i] \in failures \cup cleared \cup late
                 /\ i < n /\ ~replies[i + 1] => list[i] \in cleared \cup late
      BY <1>1, <1>5 DEF ViewInv, ListRead
    <2>6. ASSUME NEW i \in 1..Len(list), i < n + 1, ~replies'[i + 1]
          PROVE  list[i] \in cleared \cup late
      <3>1. CASE i = n
        BY <2>2, <2>5, <2>6, <3>1
      <3>2. CASE i # n
        <4>1. i < n /\ i + 1 \in 1..n
          BY <1>2, <2>5, <2>6, <3>2, ListElements, SMTT(60)
        <4> QED BY <2>2, <2>5, <2>6, <4>1
      <3> QED BY <3>1, <3>2
    <2>7. ListRead'
      BY <2>2, <2>4, <2>5, <2>6, ReadKeeps DEF ListRead
    <2> QED BY <1>3, <1>5, <2>1, <2>7
  <1> QED BY <1>4, <1>5 DEF FailedList

\* The reads of taskq stats: what a read returns is what it would have returned.
LEMMA StatsStep ==
    ASSUME TypeOK, ViewInv, GetStats, UNCHANGED vars
    PROVE  ViewInv'
  <1> DEFINE n == Len(replies)
  <1>1. /\ command = "stats" /\ command # "none" /\ ViewTypeOK /\ n < 4
        /\ Answer(Lengths[ReadOrder[n + 1]])
    BY DEF GetStats, ViewInv
  <1>2. n \in Nat
    BY <1>1, ListElements DEF ViewTypeOK
  <1>3. \A k \in 1..4 : Lengths[k] \in Nat
    <2>1. LengthsOK
      BY LengthsAreNat DEF ViewInv, ViewTypeOK, TypeOK
    <2> QED BY <2>1, LengthsFacts, SMTT(60) DEF LengthsOK
  <1>4. n + 1 \in 1..4 /\ ReadOrder[n + 1] = n + 1
    BY <1>1, <1>2, SMTT(60) DEF ReadOrder
  <1>5. Lengths[n + 1] \in Nat /\ Lengths[n + 1] \in Reply
    BY <1>3, <1>4 DEF Reply
  <1>6. /\ ViewTypeOK' /\ command' = command
        /\ Len(replies') = n + 1 /\ replies'[n + 1] = Lengths[n + 1]
        /\ \A i \in 1..n : replies'[i] = replies[i]
        /\ started' = started /\ gained' = gained /\ lost' = lost
    BY <1>1, <1>4, <1>5, AnswerFacts
  <1>7. \A k \in 1..4 : Seen(k)' = Seen(k)
    <2>1. SUFFICES ASSUME NEW k \in 1..4
                   PROVE  Seen(k)' = Seen(k)
      OBVIOUS
    <2>2. Lengths' = Lengths
      BY ReadKeeps
    <2>3. CASE k <= n
      <3>1. k \in 1..n /\ k <= n + 1
        BY <1>2, <2>3, SMTT(60)
      <3> QED BY <1>6, <2>3, <3>1 DEF Seen
    <2>4. CASE k = n + 1
      <3>1. ~(k <= n) /\ k <= n + 1
        BY <1>2, <2>4, SMTT(60)
      <3> QED BY <1>6, <2>4, <3>1 DEF Seen
    <2>5. CASE ~(k <= n) /\ k # n + 1
      <3>1. ~(k <= n + 1)
        BY <1>2, <2>5, SMTT(60)
      <3> QED BY <1>6, <2>2, <2>5, <3>1 DEF Seen
    <2> QED BY <2>3, <2>4, <2>5
  <1>8. \A i \in 1..Len(replies') : replies'[i] \in Nat
    <2>1. \A i \in 1..n : replies[i] \in Nat
      BY <1>1 DEF ViewInv, StatsRead
    <2>2. \A i \in 1..(n + 1) : i \in 1..n \/ i = n + 1
      BY <1>2, SMTT(60)
    <2> QED BY <1>5, <1>6, <2>1, <2>2
  <1>9. Len(replies') \in 0..4
    BY <1>4, <1>6, SMTT(60)
  <1>10. 1 \in 1..4 /\ 2 \in 1..4 /\ 3 \in 1..4 /\ 4 \in 1..4
    BY SMTT(60)
  <1>11. StatsRead'
    BY <1>1, <1>6, <1>7, <1>8, <1>9, <1>10 DEF ViewInv, StatsRead
  <1> QED BY <1>1, <1>6, <1>11 DEF ViewInv, StatusRead, ResultRead, ListRead

\* A step of the queue keeps what the replies say of it.
LEMMA QueueKeepsViews ==
    ASSUME TypeOK, ViewInv, QueueStep
    PROVE  ViewInv'
  <1>1. OneScript
    BY StepIsScript DEF QueueStep
  <1>2. OneMove /\ IsFiniteSet(delayed)'
    BY <1>1, StepMovesOne DEF ViewInv, ViewTypeOK
  <1>3. /\ command' = command /\ subject' = subject /\ replies' = replies
        /\ started' = started
        /\ command \in {"status", "failed_list"} => failures \subseteq failures' \cup cleared'
        /\ cleared \subseteq cleared'
    BY DEF QueueStep
  <1>4. late \subseteq late'
    BY LateGrows DEF QueueStep
  <1>5. \A t \in Tasks : results[t] # "none" => results'[t] # "none"
    BY <1>1, ResultsStay
  <1>6. ViewTypeOK'
    <2>1. CASE command = "stats"
      <3>1. /\ gained' = gained + (IF Adds THEN 1 ELSE 0)
            /\ lost' = lost + (IF Takes THEN 1 ELSE 0)
            /\ gained \in Nat /\ lost \in Nat
        BY <2>1 DEF QueueStep, ViewInv, ViewTypeOK
      <3>2. gained' \in Nat /\ lost' \in Nat
        BY <3>1, SMTT(60)
      <3> QED BY <1>2, <1>3, <2>1, <3>2 DEF ViewInv, ViewTypeOK
    <2>2. CASE command # "stats"
      <3>1. gained' = gained /\ lost' = lost
        BY <2>2 DEF QueueStep
      <3> QED BY <1>2, <1>3, <3>1 DEF ViewInv, ViewTypeOK
    <2> QED BY <2>1, <2>2
  <1>7. StatusRead'
    BY <1>3, <1>4, <1>5 DEF ViewInv, StatusRead
  <1>8. ResultRead'
    BY <1>3, <1>5 DEF ViewInv, ResultRead
  <1>9. ListRead'
    BY <1>3, <1>4 DEF ViewInv, ListRead
  <1> QED BY <1>2, <1>6, <1>7, <1>8, <1>9, StatsQueueStep DEF ViewInv

\* No step of the queue or of a command breaks what the replies say.
LEMMA ViewStep ==
    ASSUME TypeOK, StatusEvidence, StatusMatchesPlace, ViewInv,
           [QueueStep \/ Read]_<<vars, viewVars>>
    PROVE  ViewInv'
  <1>1. CASE QueueStep
    BY <1>1, QueueKeepsViews
  <1>2. CASE Read
    <2>1. UNCHANGED vars
      BY <1>2 DEF Read
    <2>2. ASSUME NEW t \in Tasks, Begin("status", t) \/ Begin("result", t)
          PROVE  ViewInv'
      BY <2>1, <2>2, BeginStep DEF Commands
    <2>3. CASE Begin("failed_list", Null) \/ Begin("stats", Null)
      BY <2>1, <2>3, BeginStep DEF Commands
    <2> QED BY <1>2, <2>1, <2>2, <2>3, StatusStep, ResultStep, ListStep,
               StatsStep, EndStep
            DEF Read
  <1>3. CASE UNCHANGED <<vars, viewVars>>
    <2>1. UNCHANGED vars /\ UNCHANGED viewVars
      BY <1>3
    <2>2. /\ command' = command /\ subject' = subject /\ replies' = replies
          /\ started' = started /\ gained' = gained /\ lost' = lost
          /\ cleared' = cleared
      BY <2>1 DEF viewVars, history
    <2>3. ViewTypeOK' /\ StatsRead'
      BY <2>1, <2>2, ReadKeeps DEF ViewInv, ViewTypeOK, StatsRead, Seen
    <2>4. StatusRead' /\ ResultRead'
      BY <2>1, <2>2, ReadKeeps DEF ViewInv, StatusRead, ResultRead
    <2>5. ListRead'
      BY <2>1, <2>2, ReadKeeps DEF ViewInv, ListRead
    <2> QED BY <2>3, <2>4, <2>5 DEF ViewInv
  <1> QED BY <1>1, <1>2, <1>3

-----------------------------------------------------------------------------
(* The theorems.                                                           *)

\* What a command has read, it may rely on.
LEMMA ViewInvariant == ViewsSpec => [](ViewInv /\ StatusMatchesPlace)
  <1>1. Init /\ ViewInit => ViewInv
    <2>1. SUFFICES ASSUME Init, ViewInit
                   PROVE  ViewInv
      OBVIOUS
    <2>2. <<>> \in Seq(Reply) /\ 0 \in Nat
      BY SMTT(60)
    <2>3. /\ command = "none" /\ replies = <<>> /\ started = 0 /\ gained = 0
          /\ lost = 0 /\ delayed = {}
      BY <2>1 DEF Init, BrokerInit, ViewInit
    <2>4. ViewTypeOK
      BY <2>2, <2>3, FS_EmptySet DEF ViewTypeOK, Commands
    <2> QED BY <2>3, <2>4
               DEF ViewInv, StatusRead, ResultRead, ListRead, StatsRead
  <1>2. TypeOK /\ StatusEvidence /\ StatusMatchesPlace /\ ViewInv
        /\ [QueueStep \/ Read]_<<vars, viewVars>> => ViewInv'
    BY ViewStep
  <1> QED BY <1>1, <1>2, QueueGoesOn, TypeCorrect, StatusesHaveEvidence,
             StatusesNamePlaces, PTL
          DEF ViewsSpec

\* What taskq status and taskq result print fits together, however clients and
\* workers move the task between their reads.
THEOREM TaskViewsFit == ViewsSpec => []TaskViewFits
  <1>1. ASSUME ViewInv, StatusMatchesPlace
        PROVE  TaskViewFits
    <2>1. 3 > 0 /\ 3 > 1 /\ 3 > 2 /\ 2 > 1
      BY SMTT(60)
    <2>2. CASE command = "status" /\ Complete
      <3>1. Len(replies) = 3 /\ subject \in Tasks
        BY <1>1, <2>2 DEF Complete, ViewInv, StatusRead
      <3> QED BY <1>1, <2>1, <2>2, <3>1
                 DEF ViewInv, StatusRead, StatusMatchesPlace, TaskViewFits
    <2>3. CASE command = "result" /\ Complete
      <3>1. Len(replies) = 2
        BY <2>3 DEF Complete
      <3> QED BY <1>1, <2>1, <2>3, <3>1 DEF ViewInv, ResultRead, TaskViewFits
    <2> QED BY <2>2, <2>3 DEF TaskViewFits
  <1> QED BY <1>1, ViewInvariant, PTL

\* taskq failed list shows a task without a reason only if the reason was
\* deleted since the list was read, or the task had a late report.
THEOREM FailedListsFit == ViewsSpec => []FailedListFits
  <1>1. ASSUME ViewInv
        PROVE  FailedListFits
    <2>1. SUFFICES ASSUME command = "failed_list", Complete,
                          NEW i \in 1..Len(replies[1]), ~replies[i + 1]
                   PROVE  replies[1][i] \in cleared \cup late
      BY DEF FailedListFits
    <2>2. replies # <<>> /\ Len(replies) = Len(replies[1]) + 1
      BY <2>1 DEF Complete
    <2>3. replies[1] \in Seq(Tasks)
      BY <1>1, <2>1, <2>2 DEF ViewInv, ListRead
    <2>4. i < Len(replies)
      BY <2>2, <2>3, ListElements, SMTT(60)
    <2> QED BY <1>1, <2>1, <2>2, <2>4 DEF ViewInv, ListRead
  <1> QED BY <1>1, ViewInvariant, PTL

\* The numbers of taskq stats add up to the messages there were when it began,
\* but for the moves between its reads, each counted by its direction.
THEOREM StatsAreWithin == ViewsSpec => []StatsWithin
  <1>1. ASSUME ViewInv
        PROVE  StatsWithin
    <2>1. SUFFICES ASSUME command = "stats", Complete
                   PROVE  /\ Messages(replies) <= started + gained
                          /\ Messages(replies) >= started - lost
      BY DEF StatsWithin
    <2>2. Len(replies) = 4
      BY <2>1 DEF Complete
    <2>3. 1 <= 4 /\ 2 <= 4 /\ 3 <= 4 /\ 4 <= 4
      BY SMTT(60)
    <2>4. /\ Seen(1) = replies[1] /\ Seen(2) = replies[2]
          /\ Seen(3) = replies[3] /\ Seen(4) = replies[4]
      BY <2>2, <2>3 DEF Seen
    <2> QED BY <1>1, <2>1, <2>4 DEF ViewInv, StatsRead, Messages
  <1> QED BY <1>1, ViewInvariant, PTL

=============================================================================
