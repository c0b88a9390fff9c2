----------------------------- MODULE RedisBroker -----------------------------
(***************************************************************************)
(* The Redis side of the queue: the keys of include/taskqueue/redis_keys.h *)
(* and, for each Lua script or MULTI/EXEC transaction that writes them, one *)
(* action.  Redis runs a script (or a transaction) without interleaving any *)
(* other command, so each of them is one step.                             *)
(*                                                                         *)
(* A message is the JSON value stored for a task.  Only the fields that    *)
(* some branch of the code reads are kept; its "status" and "last_error"   *)
(* fields are written and never read back by the queue.                    *)
(***************************************************************************)
EXTENDS Integers, Sequences

CONSTANTS
    Tasks,        \* task ids (UUIDs; every CLI enqueue generates a fresh one)
    Undecodable,  \* tasks whose JSON the scripts' cjson.decode refuses, as it
                  \* does a payload nested deeper than its limit
    Null          \* an absent optional, hash field or message

VARIABLES
    pending,   \* taskq:pending, a list: LPUSH is Append, RPOP takes the Head
    delayed,   \* taskq:delayed, a sorted set: members scored by their run_at
    running,   \* taskq:running, a hash from id to the reserved message
    status,    \* taskq:status, a hash from id to the status string
    results,   \* taskq:results, a hash from id to the stored result payload
    dead,      \* taskq:dead, a list: LPUSH is Append
    failures   \* taskq:failures, the ids that have a latest error

brokerVars == <<pending, delayed, running, status, results, dead, failures>>

Time == Nat

TaskMessage == [id          : Tasks,
                retry_count : Nat,
                run_at      : Time \cup {Null},
                reserved_at : Time \cup {Null}]

\* "none" stands for a missing field of taskq:status.
TaskStatus == {"none", "pending", "running", "retrying", "succeeded", "dead"}

\* What taskq:results can hold for an id: no field, or the empty JSON object;
\* the payload that the handler returned is not among what is stored.
ResultPayload == {"none", "empty"}

ASSUME UndecodableAssumption == Undecodable \subseteq Tasks

ASSUME NullAssumption == Null \notin Nat /\ Null \notin TaskMessage

BrokerTypeOK ==
    /\ pending  \in Seq(TaskMessage)
    /\ delayed  \in SUBSET [id : Tasks, retry_count : Nat,
                            run_at : Time, reserved_at : {Null}]
    /\ running  \in [Tasks -> TaskMessage \cup {Null}]
    /\ status   \in [Tasks -> TaskStatus]
    /\ results  \in [Tasks -> ResultPayload]
    /\ dead     \in Seq(TaskMessage)
    /\ failures \in SUBSET Tasks

BrokerInit ==
    /\ pending = <<>>
    /\ delayed = {}
    /\ running = [t \in Tasks |-> Null]
    /\ status = [t \in Tasks |-> "none"]
    /\ results = [t \in Tasks |-> "none"]
    /\ dead = <<>>
    /\ failures = {}

-----------------------------------------------------------------------------
(* Where a task's message can be.                                          *)

InList(list, t) == \E i \in 1..Len(list) : list[i].id = t

InDelayed(t) == \E m \in delayed : m.id = t

\* The places that redis_atomicity_test.cc looks for a task in.
IsQueued(t) ==
    \/ InList(pending, t)
    \/ InDelayed(t)
    \/ running[t] # Null
    \/ InList(dead, t)

-----------------------------------------------------------------------------
(* Enqueue: a message due in the future goes to the sorted set, any other   *)
(* loses its run_at and goes to the list.                                  *)

IsFuture(run_at, now_ms) == run_at # Null /\ run_at > now_ms

Enqueue(t, run_at, now_ms) ==
    /\ \/ /\ IsFuture(run_at, now_ms)
          /\ delayed' = delayed \cup {[id |-> t, retry_count |-> 0,
                                       run_at |-> run_at, reserved_at |-> Null]}
          /\ UNCHANGED pending
       \/ /\ ~IsFuture(run_at, now_ms)
          /\ pending' = Append(pending, [id |-> t, retry_count |-> 0,
                                         run_at |-> Null, reserved_at |-> Null])
          /\ UNCHANGED delayed
    /\ status' = [status EXCEPT ![t] = "pending"]
    /\ UNCHANGED <<running, results, dead, failures>>

\* Bug: reserved_at_ms is not stamped.
ReservableUnstamped(reserved_at_ms) == Head(pending)

\* The running message that kReserveScript makes of the oldest pending one.
Reservable(reserved_at_ms) ==
    [Head(pending) EXCEPT !.reserved_at = reserved_at_ms]

\* Bug: RPOP without writing the running hash.
ReserveScriptPopOnly(reserved_at_ms) ==
    LET m == Reservable(reserved_at_ms) IN
    /\ pending # <<>>
    /\ m.id \notin Undecodable
    /\ pending' = Tail(pending)
    /\ status' = [status EXCEPT ![m.id] = "running"]
    /\ UNCHANGED <<delayed, running, results, dead, failures>>

\* kReserveScript, when it returns a message.  An id that is already in the
\* running hash has its entry overwritten.
ReserveScript(reserved_at_ms) ==
    LET m == Reservable(reserved_at_ms) IN
    /\ pending # <<>>
    /\ m.id \notin Undecodable
    /\ pending' = Tail(pending)
    /\ running' = [running EXCEPT ![m.id] = m]
    /\ status' = [status EXCEPT ![m.id] = "running"]
    /\ UNCHANGED <<delayed, results, dead, failures>>

\* kReserveScript, when the popped message does not decode: it returns nil and
\* the message is gone.
ReserveDropScript ==
    /\ pending # <<>>
    /\ Head(pending).id \in Undecodable
    /\ pending' = Tail(pending)
    /\ UNCHANGED <<delayed, running, status, results, dead, failures>>

\* Bug: ZRANGE 0 -1, the score is not looked at.
DueAnyScore(now_ms) == delayed

\* ZRANGEBYSCORE -inf now_ms.
Due(now_ms) == {m \in delayed : m.run_at <= now_ms}

\* The due members LIMIT 0 1 may return: those of the lowest score (Redis
\* breaks ties by the members' text, which holds random ids).
FirstDue(now_ms) ==
    {m \in Due(now_ms) : \A n \in Due(now_ms) : m.run_at <= n.run_at}

\* Bug: taskq:status is not written, as before Phase B of CHANGELOG.md.
PromoteOneScriptNoStatus(m, now_ms) ==
    /\ m \in FirstDue(now_ms)
    /\ m.id \notin Undecodable
    /\ delayed' = delayed \ {m}
    /\ pending' = Append(pending, [m EXCEPT !.run_at = Null])
    /\ UNCHANGED <<running, status, results, dead, failures>>

\* kPromoteOneScript, when it promotes m.
PromoteOneScript(m, now_ms) ==
    /\ m \in FirstDue(now_ms)
    /\ m.id \notin Undecodable
    /\ delayed' = delayed \ {m}
    /\ pending' = Append(pending, [m EXCEPT !.run_at = Null])
    /\ status' = [status EXCEPT ![m.id] = "pending"]
    /\ UNCHANGED <<running, results, dead, failures>>

\* kPromoteOneScript, when m does not decode: it returns 0 and m is gone.
PromoteDropScript(m, now_ms) ==
    /\ m \in FirstDue(now_ms)
    /\ m.id \in Undecodable
    /\ delayed' = delayed \ {m}
    /\ UNCHANGED <<pending, running, status, results, dead, failures>>

\* Bug: the entry is taken to be as stale as the caller's snapshot showed it.
IsStaleUnchecked(t, now_ms, timeout_ms) == running[t] # Null

\* The conditions under which kReclaimOneScript does not return 0.
IsStale(t, now_ms, timeout_ms) ==
    /\ running[t] # Null
    /\ running[t].reserved_at # Null
    /\ now_ms - running[t].reserved_at > timeout_ms

\* Bug: HDEL is forgotten.
ReclaimOneScriptKeeps(t, now_ms, timeout_ms) ==
    /\ IsStale(t, now_ms, timeout_ms)
    /\ pending' = Append(pending, [running[t] EXCEPT !.reserved_at = Null])
    /\ status' = [status EXCEPT ![t] = "pending"]
    /\ UNCHANGED <<delayed, running, results, dead, failures>>

\* Bug: the task starts afresh, with all of its retries.
ReclaimOneScriptFresh(t, now_ms, timeout_ms) ==
    /\ IsStale(t, now_ms, timeout_ms)
    /\ running' = [running EXCEPT ![t] = Null]
    /\ pending' = Append(pending, [running[t] EXCEPT !.reserved_at = Null,
                                                     !.retry_count = 0])
    /\ status' = [status EXCEPT ![t] = "pending"]
    /\ UNCHANGED <<delayed, results, dead, failures>>

\* kReclaimOneScript, when it returns the task to the pending list.
ReclaimOneScript(t, now_ms, timeout_ms) ==
    /\ IsStale(t, now_ms, timeout_ms)
    /\ running' = [running EXCEPT ![t] = Null]
    /\ pending' = Append(pending, [running[t] EXCEPT !.reserved_at = Null])
    /\ status' = [status EXCEPT ![t] = "pending"]
    /\ UNCHANGED <<delayed, results, dead, failures>>

\* kRetryScript: whatever running entry the id has is removed, whoever's it is.
RetryScript(delayed_msg) ==
    LET t == delayed_msg.id IN
    /\ running' = [running EXCEPT ![t] = Null]
    /\ delayed' = delayed \cup {delayed_msg}
    /\ status' = [status EXCEPT ![t] = "retrying"]
    /\ failures' = failures \cup {t}
    /\ UNCHANGED <<pending, results, dead>>

\* kFailScript: the message that is dead-lettered is the one in running, if any.
FailScript(t) ==
    /\ running' = [running EXCEPT ![t] = Null]
    /\ \/ running[t] # Null /\ dead' = Append(dead, running[t])
       \/ running[t] = Null /\ UNCHANGED dead
    /\ failures' = failures \cup {t}
    /\ status' = [status EXCEPT ![t] = "dead"]
    /\ UNCHANGED <<pending, delayed, results>>

\* Bug: the failure reason of an earlier attempt is kept.
AckScriptKeepsFailure(t) ==
    /\ running' = [running EXCEPT ![t] = Null]
    /\ status' = [status EXCEPT ![t] = "succeeded"]
    /\ results' = [results EXCEPT ![t] = "empty"]
    /\ UNCHANGED <<pending, delayed, dead, failures>>

\* kAckScript, called with the JSON of TaskResult::Success(): an empty payload.
AckScript(t) ==
    /\ running' = [running EXCEPT ![t] = Null]
    /\ status' = [status EXCEPT ![t] = "succeeded"]
    /\ results' = [results EXCEPT ![t] = "empty"]
    /\ failures' = failures \ {t}
    /\ UNCHANGED <<pending, delayed, dead>>

\* The list without its i-th element.
WithoutIndex(list, i) ==
    [j \in 1..(Len(list) - 1) |-> IF j < i THEN list[j] ELSE list[j + 1]]

\* Bug: LREM is forgotten.
RetryDeadTaskScriptKeeps(t) ==
    /\ \E i \in 1..Len(dead) : dead[i].id = t
    /\ pending' = Append(pending, [id |-> t, retry_count |-> 0,
                                   run_at |-> Null, reserved_at |-> Null])
    /\ status' = [status EXCEPT ![t] = "pending"]
    /\ failures' = failures \ {t}
    /\ UNCHANGED <<delayed, running, results, dead>>

\* kRetryDeadTaskScript, when the id is in the list.  LRANGE and LREM start at
\* the end LPUSH writes to, so the newest message of the id is taken.
RetryDeadTaskScript(t) ==
    \E i \in 1..Len(dead) :
        /\ dead[i].id = t
        /\ \A j \in (i + 1)..Len(dead) : dead[j].id # t
        /\ dead' = WithoutIndex(dead, i)
        /\ pending' = Append(pending, [id |-> t, retry_count |-> 0,
                                       run_at |-> Null, reserved_at |-> Null])
        /\ status' = [status EXCEPT ![t] = "pending"]
        /\ failures' = failures \ {t}
        /\ UNCHANGED <<delayed, running, results>>

=============================================================================
