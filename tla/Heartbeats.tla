----------------------------- MODULE Heartbeats ------------------------------
(***************************************************************************)
(* The heartbeats of the workers (Worker::MaybePublishHeartbeat in          *)
(* src/worker.cc, UpsertWorkerHeartbeat and ListWorkers in                 *)
(* src/redis_broker.cc).                                                   *)
(*                                                                         *)
(* A heartbeat is seven HSET commands and an EXPIRE, each of them a step of *)
(* its own between which the process may die, the key may expire and a      *)
(* reader may look.  A worker id is generated per process, so a process    *)
(* that has died never writes its key again.                               *)
(*                                                                         *)
(* Of the fields' values only the two numbers that are compared are kept;  *)
(* of the others, whether they are there.                                  *)
(***************************************************************************)
EXTENDS Integers, Sequences, FiniteSets

CONSTANTS
    Workers,      \* worker processes, by their ids
    Concurrency,  \* threads of each pool
    Interval,     \* heartbeat_interval_, in ticks
    Ttl,          \* heartbeat_ttl_seconds_, in ticks
    Null          \* no TTL, no id

ASSUME HeartbeatAssumption ==
    /\ IsFiniteSet(Workers)
    /\ Concurrency \in Nat \ {0}
    /\ Interval \in Nat \ {0} /\ Ttl \in Nat
    /\ Null \notin Workers /\ Null \notin Nat

VARIABLES
    fields,     \* per worker: the fields of its hash; no field, no key
    shown,      \* per worker: the value of the field currently_running
    ttl,        \* per worker: ticks until the key expires, or Null
    alive,      \* per worker: the process lives
    next,       \* per worker: the command of the upsert to send, 0 outside
    beat,       \* per worker: currently_running of the heartbeat being sent
    age,        \* per worker: ticks since last_heartbeat_at_, up to Interval
    to_read,    \* reader: keys that KEYS returned, not yet read
    listed,     \* reader: what ListWorkers has collected
    since,      \* history: ticks since the last EXPIRE, up to Ttl
    beaten,     \* history: a first upsert was completed
    overdue     \* history: an upsert came Ttl or more after the one before

keyVars == <<fields, shown, ttl>>
workerVars == <<alive, next, beat, age>>
readerVars == <<to_read, listed>>
historyVars == <<since, beaten, overdue>>
vars == <<keyVars, workerVars, readerVars, historyVars>>

\* Bug: currently_running is written before concurrency.
HsetOrderRunningFirst ==
    <<"worker_id", "hostname", "pid", "started_at", "last_seen",
      "currently_running", "concurrency">>

\* The order in which UpsertWorkerHeartbeat writes the fields.
HsetOrder ==
    <<"worker_id", "hostname", "pid", "started_at", "last_seen", "concurrency",
      "currently_running">>

Fields == {HsetOrder[i] : i \in 1..Len(HsetOrder)}

ExpireStep == Len(HsetOrder) + 1

WorkerHeartbeat == [key               : Workers,
                    worker_id         : Workers \cup {Null},
                    concurrency       : 0..Concurrency,
                    currently_running : 0..Concurrency]

TypeOK ==
    /\ fields \in [Workers -> SUBSET Fields]
    /\ shown \in [Workers -> 0..Concurrency]
    /\ ttl \in [Workers -> 1..Ttl \cup {Null}]
    /\ \A w \in Workers : fields[w] = {} => ttl[w] = Null
    /\ alive \in [Workers -> BOOLEAN]
    /\ next \in [Workers -> 0..ExpireStep]
    /\ beat \in [Workers -> 0..Concurrency]
    /\ age \in [Workers -> 0..Interval]
    /\ to_read \in SUBSET Workers
    /\ listed \in SUBSET WorkerHeartbeat
    /\ since \in [Workers -> 0..Ttl]
    /\ beaten \in [Workers -> BOOLEAN] /\ overdue \in [Workers -> BOOLEAN]

\* Every process has called Run, which makes its first heartbeat due at once.
Init ==
    /\ fields = [w \in Workers |-> {}]
    /\ shown = [w \in Workers |-> 0]
    /\ ttl = [w \in Workers |-> Null]
    /\ alive = [w \in Workers |-> TRUE]
    /\ next = [w \in Workers |-> 0]
    /\ beat = [w \in Workers |-> 0]
    /\ age = [w \in Workers |-> Interval]
    /\ to_read = {} /\ listed = {}
    /\ since = [w \in Workers |-> 0]
    /\ beaten = [w \in Workers |-> FALSE]
    /\ overdue = [w \in Workers |-> FALSE]

-----------------------------------------------------------------------------
(* The worker.                                                             *)

\* Bug: the polling thread counts as a running one.
MaybePublishHeartbeatOneMore(w) ==
    /\ alive[w] /\ next[w] = 0
    /\ age[w] >= Interval
    /\ age' = [age EXCEPT ![w] = 0]
    /\ \E in_flight \in 0..Concurrency :
          beat' = [beat EXCEPT ![w] = in_flight + 1]
    /\ next' = [next EXCEPT ![w] = 1]
    /\ UNCHANGED <<keyVars, alive, readerVars, historyVars>>

\* MaybePublishHeartbeat.  InFlightCount is read here, long before it is
\* written; it is at most ThreadCount (TaskHasThread of Worker).
MaybePublishHeartbeat(w) ==
    /\ alive[w] /\ next[w] = 0
    /\ age[w] >= Interval
    /\ age' = [age EXCEPT ![w] = 0]
    /\ \E in_flight \in 0..Concurrency : beat' = [beat EXCEPT ![w] = in_flight]
    /\ next' = [next EXCEPT ![w] = 1]
    /\ UNCHANGED <<keyVars, alive, readerVars, historyVars>>

\* Bug: the hash is replaced as SET replaces a string, which clears the TTL.
HsetClearingTtl(w) ==
    /\ alive[w] /\ next[w] \in 1..Len(HsetOrder)
    /\ fields' = [fields EXCEPT ![w] = @ \cup {HsetOrder[next[w]]}]
    /\ shown' = [shown EXCEPT ![w] =
                    IF HsetOrder[next[w]] = "currently_running" THEN beat[w] ELSE @]
    /\ ttl' = [ttl EXCEPT ![w] = Null]
    /\ next' = [next EXCEPT ![w] = @ + 1]
    /\ UNCHANGED <<alive, beat, age, readerVars, historyVars>>

\* One HSET of UpsertWorkerHeartbeat: it creates a missing key, without a TTL,
\* and leaves the TTL of one that is there.
Hset(w) ==
    /\ alive[w] /\ next[w] \in 1..Len(HsetOrder)
    /\ fields' = [fields EXCEPT ![w] = @ \cup {HsetOrder[next[w]]}]
    /\ shown' = [shown EXCEPT ![w] =
                    IF HsetOrder[next[w]] = "currently_running" THEN beat[w] ELSE @]
    /\ next' = [next EXCEPT ![w] = @ + 1]
    /\ UNCHANGED <<ttl, alive, beat, age, readerVars, historyVars>>

\* Bug: EXPIRE ... NX, a TTL that is set is not renewed.
ExpireOnce(w) ==
    /\ alive[w] /\ next[w] = ExpireStep
    /\ ttl' = [ttl EXCEPT ![w] = IF fields[w] # {} /\ Ttl > 0 /\ @ = Null
                                 THEN Ttl ELSE @]
    /\ next' = [next EXCEPT ![w] = 0]
    /\ since' = [since EXCEPT ![w] = 0]
    /\ beaten' = [beaten EXCEPT ![w] = TRUE]
    /\ UNCHANGED <<fields, shown, alive, beat, age, readerVars, overdue>>

\* EXPIRE, skipped for a TTL of zero and without effect on a key that has
\* expired since the last HSET; the upsert is over.
Expire(w) ==
    /\ alive[w] /\ next[w] = ExpireStep
    /\ ttl' = [ttl EXCEPT ![w] = IF fields[w] # {} /\ Ttl > 0 THEN Ttl ELSE @]
    /\ next' = [next EXCEPT ![w] = 0]
    /\ since' = [since EXCEPT ![w] = 0]
    /\ beaten' = [beaten EXCEPT ![w] = TRUE]
    /\ UNCHANGED <<fields, shown, alive, beat, age, readerVars, overdue>>

\* The process ends, by a crash anywhere or because Run has returned; neither
\* removes the key.
Die(w) ==
    /\ alive[w]
    /\ alive' = [alive EXCEPT ![w] = FALSE]
    /\ UNCHANGED <<keyVars, next, beat, age, readerVars, historyVars>>

-----------------------------------------------------------------------------
(* Redis and the reader.                                                   *)

\* Time passes by one tick: keys whose TTL is over disappear.
Tick ==
    LET gone == {w \in Workers : ttl[w] = 1} IN
    /\ fields' = [w \in Workers |-> IF w \in gone THEN {} ELSE fields[w]]
    /\ shown' = [w \in Workers |-> IF w \in gone THEN 0 ELSE shown[w]]
    /\ ttl' = [w \in Workers |-> IF w \in gone \/ ttl[w] = Null THEN Null
                                 ELSE ttl[w] - 1]
    /\ age' = [w \in Workers |-> IF alive[w] /\ age[w] < Interval
                                 THEN age[w] + 1 ELSE age[w]]
    /\ since' = [w \in Workers |-> IF alive[w] /\ beaten[w] /\ since[w] < Ttl
                                   THEN since[w] + 1 ELSE since[w]]
    /\ overdue' = [w \in Workers |-> overdue[w] \/ since'[w] = Ttl]
    /\ UNCHANGED <<alive, next, beat, readerVars, beaten>>

\* ParseSizeField and WorkerHeartbeatFromHash: a missing field reads as the
\* empty string or as zero.
WorkerHeartbeatFromHash(w) ==
    [key               |-> w,
     worker_id         |-> IF "worker_id" \in fields[w] THEN w ELSE Null,
     concurrency       |-> IF "concurrency" \in fields[w] THEN Concurrency ELSE 0,
     currently_running |-> shown[w]]

\* KEYS taskq:workers:*
ListWorkers ==
    /\ to_read = {}
    /\ to_read' = {w \in Workers : fields[w] # {}}
    /\ listed' = {}
    /\ UNCHANGED <<keyVars, workerVars, historyVars>>

\* HGETALL of the next key, which may have expired since.
Hgetall(w) ==
    /\ w \in to_read
    /\ to_read' = to_read \ {w}
    /\ listed' = listed \cup (IF fields[w] = {} THEN {}
                              ELSE {WorkerHeartbeatFromHash(w)})
    /\ UNCHANGED <<keyVars, workerVars, historyVars>>

UpsertWorkerHeartbeat(w) == Hset(w) \/ Expire(w)

Next ==
    \/ \E w \in Workers :
          \/ MaybePublishHeartbeat(w) \/ UpsertWorkerHeartbeat(w) \/ Die(w)
          \/ Hgetall(w)
    \/ ListWorkers
    \/ Tick

Spec == Init /\ [][Next]_vars

\* Time passes, and a worker's loop goes on.
FairSpec ==
    /\ Spec
    /\ WF_vars(Tick)
    /\ \A w \in Workers :
          WF_vars(MaybePublishHeartbeat(w) \/ UpsertWorkerHeartbeat(w))

-----------------------------------------------------------------------------
(* Properties.                                                             *)

\* A worker whose heartbeats come less than a TTL apart keeps a whole record
\* from its first heartbeat on: no rewriting of the hash loses a field, and the
\* key does not expire between or during two upserts.
LiveIsListed ==
    \A w \in Workers :
        alive[w] /\ beaten[w] /\ ~overdue[w] => fields[w] = Fields

\* What `taskq workers list` prints has an id on every line and no more running
\* tasks than threads, although it reads keys that are being written for the
\* first time, are between two HSETs or have expired since KEYS; the exception
\* is a key that expired in the middle of an overdue upsert.
ListedIsConsistent ==
    \A hb \in listed :
        \/ overdue[hb.key]
        \/ hb.worker_id = hb.key /\ hb.currently_running <= hb.concurrency

\* A process that had published in time disappears from the list after its
\* death, wherever in a later upsert it died: its key never loses its TTL.
DeadIsForgotten ==
    \A w \in Workers :
        (~alive[w] /\ beaten[w] /\ ~overdue[w]) ~> fields[w] = {}

=============================================================================
