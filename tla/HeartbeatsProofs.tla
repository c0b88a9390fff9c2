--------------------------- MODULE HeartbeatsProofs ----------------------------
(***************************************************************************)
(* Proofs about the heartbeats, for any number of workers, any concurrency, *)
(* interval and TTL, the TTL of zero that sets no expiry included.         *)
(***************************************************************************)
EXTENDS Heartbeats, TLAPS

\* The leaves are for Zenon unless they name another prover.
USE ZenonT(60)

-----------------------------------------------------------------------------
(* Inductive invariant.                                                    *)

\* The fields that a first upsert has written when its command n is due.
Written(n) == {HsetOrder[i] : i \in 1..(n - 1)}

\* Until the first upsert is over the key has no TTL and just the fields that
\* were written; currently_running is the last of them.
FirstUpsert(w) ==
    /\ ttl[w] = Null /\ since[w] = 0
    /\ fields[w] = Written(next[w])
    /\ shown[w] # 0 => next[w] = ExpireStep

\* From then on the key is whole or gone, and whole while the process lives:
\* its TTL is what is left of Ttl since the last EXPIRE.
LaterUpsert(w) ==
    /\ fields[w] \in {{}, Fields}
    /\ fields[w] = {} => shown[w] = 0
    /\ alive[w] => /\ fields[w] = Fields
                   /\ Ttl > 0 => since[w] < Ttl /\ ttl[w] = Ttl - since[w]

KeyOK(w) ==
    overdue[w] \/ IF beaten[w] THEN LaterUpsert(w) ELSE FirstUpsert(w)

KeyInv == \A w \in Workers : KeyOK(w)

HeartbeatInv == TypeOK /\ KeyInv /\ ListedIsConsistent

-----------------------------------------------------------------------------
(* The commands of an upsert.                                              *)

\* Seven HSETs and an EXPIRE; concurrency comes before currently_running, which
\* is last.
LEMMA HsetFacts ==
    /\ Len(HsetOrder) = 7 /\ ExpireStep = 8
    /\ \A n \in 1..7 : HsetOrder[n] \in Fields
    /\ \A n \in 1..7 : HsetOrder[n] = "currently_running" <=> n = 7
    /\ HsetOrder[1] = "worker_id" /\ HsetOrder[6] = "concurrency"
  <1>1. Len(HsetOrder) = 7
    BY DEF HsetOrder
  <1>2. ExpireStep = 8
    BY <1>1, SMTT(60) DEF ExpireStep
  <1>3. \A n \in 1..7 : HsetOrder[n] \in Fields
    BY <1>1 DEF Fields
  <1>4. HsetOrder[1] = "worker_id" /\ HsetOrder[6] = "concurrency"
    BY DEF HsetOrder
  <1>5. \A n \in 1..7 : HsetOrder[n] = "currently_running" <=> n = 7
    BY SMTT(60) DEF HsetOrder
  <1> QED BY <1>1, <1>2, <1>3, <1>4, <1>5

\* Each HSET adds its field to those that were written, and the EXPIRE finds
\* all of them.
LEMMA WrittenFacts ==
    /\ Written(0) = {} /\ Written(1) = {}
    /\ \A n \in 1..7 : Written(n + 1) = Written(n) \cup {HsetOrder[n]}
    /\ Written(ExpireStep) = Fields
    /\ \A n \in 0..8 : Written(n) = {} \/ "worker_id" \in Written(n)
    /\ "worker_id" \in Fields /\ "concurrency" \in Fields
  <1>1. Written(0) = {} /\ Written(1) = {}
    BY SMTT(60) DEF Written
  <1>2. ASSUME NEW n \in 1..7
        PROVE  Written(n + 1) = Written(n) \cup {HsetOrder[n]}
    <2>1. \A i : i \in 1..((n + 1) - 1) <=> i \in 1..(n - 1) \/ i = n
      BY SMTT(60)
    <2> QED BY <2>1 DEF Written
  <1>3. Written(ExpireStep) = Fields
    <2>1. 1..(ExpireStep - 1) = 1..Len(HsetOrder)
      BY HsetFacts, SMTT(60)
    <2> QED BY <2>1 DEF Written, Fields
  <1>4. ASSUME NEW n \in 0..8
        PROVE  Written(n) = {} \/ "worker_id" \in Written(n)
    <2>1. CASE n \in {0, 1}
      BY <1>1, <2>1
    <2>2. CASE n \notin {0, 1}
      <3>1. 1 \in 1..(n - 1)
        BY <2>2, SMTT(60)
      <3> QED BY <3>1, HsetFacts DEF Written
    <2> QED BY <2>1, <2>2
  <1>5. "worker_id" \in Fields /\ "concurrency" \in Fields
    BY HsetFacts, SMTT(60)
  <1> QED BY <1>1, <1>2, <1>3, <1>4, <1>5

-----------------------------------------------------------------------------
(* Types.                                                                  *)

\* The commands, the passing of time and the reader keep the types; a key
\* without fields has no TTL.
LEMMA TypeStep ==
    ASSUME TypeOK, Next
    PROVE  TypeOK'
  <1> USE DEF keyVars, workerVars, readerVars, historyVars
  <1>1. ASSUME NEW w \in Workers, MaybePublishHeartbeat(w)
        PROVE  TypeOK'
    <2>1. /\ age' \in [Workers -> 0..Interval]
          /\ beat' \in [Workers -> 0..Concurrency]
          /\ next' \in [Workers -> 0..ExpireStep]
      BY <1>1, HsetFacts, HeartbeatAssumption, SMTT(60)
         DEF TypeOK, MaybePublishHeartbeat
    <2> QED BY <1>1, <2>1 DEF TypeOK, MaybePublishHeartbeat
  <1>2. ASSUME NEW w \in Workers, Hset(w)
        PROVE  TypeOK'
    <2>1. next[w] \in 1..7 /\ next' = [next EXCEPT ![w] = @ + 1]
      BY <1>2, HsetFacts DEF Hset
    <2>2. next' \in [Workers -> 0..ExpireStep] /\ HsetOrder[next[w]] \in Fields
      BY <2>1, HsetFacts, SMTT(60) DEF TypeOK
    <2>3. fields' = [fields EXCEPT ![w] = @ \cup {HsetOrder[next[w]]}]
      BY <1>2 DEF Hset
    <2>4. /\ fields' \in [Workers -> SUBSET Fields]
          /\ \A u \in Workers : fields'[u] = {} => fields[u] = {}
      BY <2>2, <2>3 DEF TypeOK
    <2>5. shown' \in [Workers -> 0..Concurrency]
      BY <1>2 DEF TypeOK, Hset
    <2> QED BY <1>2, <2>2, <2>4, <2>5 DEF TypeOK, Hset
  <1>3. ASSUME NEW w \in Workers, Expire(w)
        PROVE  TypeOK'
    <2>1. /\ ttl' \in [Workers -> 1..Ttl \cup {Null}]
          /\ \A u \in Workers : fields[u] = {} => ttl'[u] = Null
      BY <1>3, HeartbeatAssumption, SMTT(60) DEF TypeOK, Expire
    <2>2. next' \in [Workers -> 0..ExpireStep] /\ since' \in [Workers -> 0..Ttl]
      BY <1>3, HsetFacts, HeartbeatAssumption, SMTT(60) DEF TypeOK, Expire
    <2>3. beaten' \in [Workers -> BOOLEAN]
      BY <1>3 DEF TypeOK, Expire
    <2> QED BY <1>3, <2>1, <2>2, <2>3 DEF TypeOK, Expire
  <1>4. ASSUME NEW w \in Workers, Die(w)
        PROVE  TypeOK'
    <2>1. alive' \in [Workers -> BOOLEAN]
      BY <1>4 DEF TypeOK, Die
    <2> QED BY <1>4, <2>1 DEF TypeOK, Die
  <1>5. ASSUME NEW w \in Workers, Hgetall(w)
        PROVE  TypeOK'
    <2>1. WorkerHeartbeatFromHash(w) \in WorkerHeartbeat
      BY HeartbeatAssumption, SMTT(60)
         DEF TypeOK, WorkerHeartbeatFromHash, WorkerHeartbeat
    <2>2. to_read' \in SUBSET Workers /\ listed' \in SUBSET WorkerHeartbeat
      BY <1>5, <2>1 DEF TypeOK, Hgetall
    <2> QED BY <1>5, <2>2 DEF TypeOK, Hgetall
  <1>6. CASE ListWorkers
    <2>1. to_read' \in SUBSET Workers /\ listed' \in SUBSET WorkerHeartbeat
      BY <1>6 DEF ListWorkers
    <2> QED BY <1>6, <2>1 DEF TypeOK, ListWorkers
  <1>7. CASE Tick
    <2>1. fields' \in [Workers -> SUBSET Fields]
      BY <1>7 DEF TypeOK, Tick
    <2>2. shown' \in [Workers -> 0..Concurrency]
      BY <1>7, HeartbeatAssumption, SMTT(60) DEF TypeOK, Tick
    <2>3. ttl' \in [Workers -> 1..Ttl \cup {Null}]
      BY <1>7, HeartbeatAssumption, SMTT(60) DEF TypeOK, Tick
    <2>4. \A w \in Workers : fields'[w] = {} => ttl'[w] = Null
      BY <1>7 DEF TypeOK, Tick
    <2>5. age' \in [Workers -> 0..Interval]
      BY <1>7, HeartbeatAssumption, SMTT(60) DEF TypeOK, Tick
    <2>6. since' \in [Workers -> 0..Ttl]
      BY <1>7, HeartbeatAssumption, SMTT(60) DEF TypeOK, Tick
    <2>7. overdue' \in [Workers -> BOOLEAN]
      BY <1>7 DEF TypeOK, Tick
    <2> QED BY <1>7, <2>1, <2>2, <2>3, <2>4, <2>5, <2>6, <2>7 DEF TypeOK, Tick
  <1> QED BY <1>1, <1>2, <1>3, <1>4, <1>5, <1>6, <1>7
             DEF Next, UpsertWorkerHeartbeat

-----------------------------------------------------------------------------
(* The keys.                                                               *)

\* A step that leaves a worker's key and process alone keeps its KeyOK; so does
\* the end of the process.
LEMMA KeySame ==
    ASSUME NEW w \in Workers, KeyOK(w),
           fields'[w] = fields[w], shown'[w] = shown[w], ttl'[w] = ttl[w],
           alive'[w] => alive[w], next'[w] = next[w], since'[w] = since[w],
           beaten'[w] = beaten[w], overdue'[w] = overdue[w]
    PROVE  KeyOK(w)'
  <1>1. LaterUpsert(w) => LaterUpsert(w)'
    BY DEF LaterUpsert
  <1>2. Written(next[w])' = Written(next'[w])
    BY DEF Written
  <1>3. FirstUpsert(w) => FirstUpsert(w)'
    BY <1>2 DEF FirstUpsert, ExpireStep
  <1> QED BY <1>1, <1>3 DEF KeyOK

\* An HSET writes the next field of a first upsert, and none that a later one
\* had not written before.
LEMMA KeyHset ==
    ASSUME TypeOK, NEW w \in Workers, KeyOK(w), Hset(w)
    PROVE  KeyOK(w)'
  <1>1. next[w] \in 1..7 /\ next'[w] = next[w] + 1
    BY HsetFacts DEF TypeOK, Hset
  <1>2. /\ fields'[w] = fields[w] \cup {HsetOrder[next[w]]}
        /\ shown'[w] # shown[w] => HsetOrder[next[w]] = "currently_running"
    BY DEF TypeOK, Hset
  <1>3. /\ alive[w] /\ ttl'[w] = ttl[w] /\ since'[w] = since[w]
        /\ beaten'[w] = beaten[w] /\ overdue'[w] = overdue[w]
    BY DEF Hset, historyVars
  <1>4. ASSUME FirstUpsert(w)
        PROVE  FirstUpsert(w)'
    <2>1. fields'[w] = Written(next'[w])
      BY <1>1, <1>2, <1>4, WrittenFacts DEF FirstUpsert
    <2>2. shown'[w] # 0 => next'[w] = 8
      BY <1>1, <1>2, <1>4, HsetFacts, SMTT(60) DEF FirstUpsert
    <2>3. ttl'[w] = Null /\ since'[w] = 0
      BY <1>3, <1>4 DEF FirstUpsert
    <2> QED BY <2>1, <2>2, <2>3, HsetFacts DEF FirstUpsert, Written
  <1>5. ASSUME LaterUpsert(w)
        PROVE  LaterUpsert(w)'
    <2>1. fields[w] = Fields /\ HsetOrder[next[w]] \in Fields
      BY <1>1, <1>3, <1>5, HsetFacts DEF LaterUpsert
    <2>2. fields'[w] = Fields /\ Fields # {}
      BY <1>2, <2>1
    <2>3. Ttl > 0 => since'[w] < Ttl /\ ttl'[w] = Ttl - since'[w]
      BY <1>3, <1>5 DEF LaterUpsert
    <2> QED BY <2>2, <2>3 DEF LaterUpsert
  <1> QED BY <1>3, <1>4, <1>5 DEF KeyOK

\* The EXPIRE ends an upsert with a whole key and a whole TTL.
LEMMA KeyExpire ==
    ASSUME TypeOK, NEW w \in Workers, KeyOK(w), Expire(w)
    PROVE  KeyOK(w)'
  <1>1. /\ alive[w] /\ next[w] = ExpireStep
        /\ fields'[w] = fields[w] /\ shown'[w] = shown[w] /\ overdue'[w] = overdue[w]
    BY DEF Expire
  <1>2. since'[w] = 0 /\ beaten'[w]
    BY DEF TypeOK, Expire
  <1>3. ASSUME ~overdue[w]
        PROVE  LaterUpsert(w)'
    <2>1. fields[w] = Fields
      <3>1. CASE beaten[w]
        BY <1>1, <1>3, <3>1 DEF KeyOK, LaterUpsert
      <3>2. CASE ~beaten[w]
        BY <1>1, <1>3, <3>2, WrittenFacts DEF KeyOK, FirstUpsert
      <3> QED BY <3>1, <3>2
    <2>2. Fields # {}
      BY WrittenFacts
    <2>3. Ttl > 0 => ttl'[w] = Ttl
      BY <2>1, <2>2 DEF TypeOK, Expire
    <2>4. Ttl > 0 => since'[w] < Ttl /\ ttl'[w] = Ttl - since'[w]
      BY <1>2, <2>3, HeartbeatAssumption, SMTT(60)
    <2> QED BY <1>1, <2>1, <2>2, <2>4 DEF LaterUpsert
  <1> QED BY <1>1, <1>2, <1>3 DEF KeyOK

\* When a tick removes a key, its process is dead or an upsert is overdue.
LEMMA KeyTick ==
    ASSUME TypeOK, NEW w \in Workers, KeyOK(w), Tick
    PROVE  KeyOK(w)'
  <1>1. /\ alive'[w] = alive[w] /\ next'[w] = next[w] /\ beaten'[w] = beaten[w]
        /\ overdue'[w] <=> overdue[w] \/ since'[w] = Ttl
    BY DEF Tick
  <1>2. /\ ttl[w] = 1 => fields'[w] = {} /\ shown'[w] = 0 /\ ttl'[w] = Null
        /\ ttl[w] # 1 => fields'[w] = fields[w] /\ shown'[w] = shown[w]
        /\ ttl[w] = Null => ttl'[w] = Null
        /\ ttl[w] # 1 /\ ttl[w] # Null => ttl'[w] = ttl[w] - 1
    BY HeartbeatAssumption DEF Tick
  <1>3. /\ alive[w] /\ beaten[w] /\ since[w] < Ttl => since'[w] = since[w] + 1
        /\ ~(alive[w] /\ beaten[w] /\ since[w] < Ttl) => since'[w] = since[w]
    BY DEF Tick
  <1>4. since[w] \in Nat /\ Ttl \in Nat /\ Null # 1 /\ Null \notin Nat
    BY HeartbeatAssumption, SMTT(60) DEF TypeOK
  <1>5. CASE overdue[w]
    BY <1>1, <1>5 DEF KeyOK
  <1>6. CASE ~overdue[w] /\ ~beaten[w]
    <2>1. FirstUpsert(w)
      BY <1>6 DEF KeyOK
    <2>2. /\ fields'[w] = fields[w] /\ shown'[w] = shown[w] /\ ttl'[w] = ttl[w]
          /\ next'[w] = next[w] /\ since'[w] = since[w]
      BY <1>1, <1>2, <1>3, <1>4, <1>6, <2>1 DEF FirstUpsert
    <2>3. Written(next[w])' = Written(next'[w])
      BY DEF Written
    <2>4. FirstUpsert(w)'
      BY <2>1, <2>2, <2>3 DEF FirstUpsert, ExpireStep
    <2> QED BY <1>1, <1>6, <2>4 DEF KeyOK
  <1>7. CASE ~overdue[w] /\ beaten[w]
    <2>1. LaterUpsert(w)
      BY <1>7 DEF KeyOK
    <2>2. fields'[w] \in {{}, Fields} /\ (fields'[w] = {} => shown'[w] = 0)
      BY <1>2, <2>1 DEF LaterUpsert
    <2>3. ASSUME alive'[w], ~overdue'[w]
          PROVE  /\ fields'[w] = Fields
                 /\ Ttl > 0 => since'[w] < Ttl /\ ttl'[w] = Ttl - since'[w]
      <3>1. Ttl > 0
        BY <1>1, <1>3, <1>4, <2>3, SMTT(60) DEF TypeOK
      <3>2. since[w] < Ttl /\ ttl[w] = Ttl - since[w] /\ fields[w] = Fields
        BY <1>1, <2>1, <2>3, <3>1 DEF LaterUpsert
      <3>3. since'[w] = since[w] + 1 /\ since'[w] # Ttl
        BY <1>1, <1>3, <1>7, <2>3, <3>2
      <3>4. ttl[w] # 1 /\ ttl[w] # Null
        BY <1>4, <3>2, <3>3, SMTT(60)
      <3> QED BY <1>2, <1>4, <3>2, <3>3, <3>4, SMTT(60)
    <2> QED BY <1>1, <1>7, <2>2, <2>3 DEF KeyOK, LaterUpsert
  <1> QED BY <1>5, <1>6, <1>7

\* The keys of all workers: a command concerns the key of its worker only.
LEMMA KeyStep ==
    ASSUME TypeOK, KeyInv, Next, NEW u \in Workers
    PROVE  KeyOK(u)'
  <1> USE DEF keyVars, workerVars, readerVars, historyVars
  <1>a. KeyOK(u)
    BY DEF KeyInv
  <1>1. ASSUME NEW w \in Workers, Hset(w)
        PROVE  KeyOK(u)'
    <2>1. CASE u = w
      BY <1>a, <1>1, <2>1, KeyHset
    <2>2. CASE u # w
      <3>1. fields'[u] = fields[u] /\ shown'[u] = shown[u] /\ next'[u] = next[u]
        BY <1>1, <2>2 DEF TypeOK, Hset
      <3>2. UNCHANGED <<ttl, alive, since, beaten, overdue>>
        BY <1>1 DEF Hset
      <3> QED BY <1>a, <3>1, <3>2, KeySame
    <2> QED BY <2>1, <2>2
  <1>2. ASSUME NEW w \in Workers, Expire(w)
        PROVE  KeyOK(u)'
    <2>1. CASE u = w
      BY <1>a, <1>2, <2>1, KeyExpire
    <2>2. CASE u # w
      <3>1. /\ ttl'[u] = ttl[u] /\ next'[u] = next[u]
            /\ since'[u] = since[u] /\ beaten'[u] = beaten[u]
        BY <1>2, <2>2 DEF TypeOK, Expire
      <3>2. UNCHANGED <<fields, shown, alive, overdue>>
        BY <1>2 DEF Expire
      <3> QED BY <1>a, <3>1, <3>2, KeySame
    <2> QED BY <2>1, <2>2
  <1>3. ASSUME NEW w \in Workers, MaybePublishHeartbeat(w)
        PROVE  KeyOK(u)'
    <2>1. UNCHANGED <<fields, shown, ttl, alive, since, beaten, overdue>>
      BY <1>3 DEF MaybePublishHeartbeat
    <2>2. CASE u # w
      <3>1. next'[u] = next[u]
        BY <1>3, <2>2 DEF TypeOK, MaybePublishHeartbeat
      <3> QED BY <1>a, <2>1, <3>1, KeySame
    <2>3. CASE u = w
      <3>1. next[u] = 0 /\ next'[u] = 1
        BY <1>3, <2>3 DEF TypeOK, MaybePublishHeartbeat
      <3>2. LaterUpsert(u) => LaterUpsert(u)'
        BY <2>1 DEF LaterUpsert
      <3>3. FirstUpsert(u) => fields[u] = {} /\ shown[u] = 0
        BY <3>1, WrittenFacts, HsetFacts DEF FirstUpsert
      <3>4. Written(next[u])' = {}
        BY <3>1, SMTT(60) DEF Written
      <3>5. FirstUpsert(u) => FirstUpsert(u)'
        BY <2>1, <3>3, <3>4 DEF FirstUpsert
      <3> QED BY <1>a, <2>1, <3>2, <3>5 DEF KeyOK
    <2> QED BY <2>2, <2>3
  <1>4. ASSUME NEW w \in Workers, Die(w)
        PROVE  KeyOK(u)'
    <2>1. UNCHANGED <<fields, shown, ttl, next, since, beaten, overdue>>
      BY <1>4 DEF Die
    <2>2. alive'[u] => alive[u]
      BY <1>4 DEF TypeOK, Die
    <2> QED BY <1>a, <2>1, <2>2, KeySame
  <1>5. CASE Tick
    BY <1>a, <1>5, KeyTick
  <1>6. ASSUME ListWorkers \/ \E w \in Workers : Hgetall(w)
        PROVE  KeyOK(u)'
    <2>1. UNCHANGED <<fields, shown, ttl, alive, next, since, beaten, overdue>>
      BY <1>6 DEF ListWorkers, Hgetall
    <2> QED BY <1>a, <2>1, KeySame
  <1> QED BY <1>1, <1>2, <1>3, <1>4, <1>5, <1>6 DEF Next, UpsertWorkerHeartbeat

-----------------------------------------------------------------------------
(* The reader.                                                             *)

\* What HGETALL returns for a key whose worker is in time has its id and no more
\* running tasks than threads.
LEMMA ReadIsConsistent ==
    ASSUME TypeOK, NEW w \in Workers, KeyOK(w), ~overdue[w], fields[w] # {}
    PROVE  /\ WorkerHeartbeatFromHash(w).key = w
           /\ WorkerHeartbeatFromHash(w).worker_id = w
           /\ WorkerHeartbeatFromHash(w).currently_running
                  <= WorkerHeartbeatFromHash(w).concurrency
  <1>1. "worker_id" \in fields[w] /\ (shown[w] # 0 => "concurrency" \in fields[w])
    <2>1. CASE beaten[w]
      <3>1. fields[w] = Fields
        BY <2>1 DEF KeyOK, LaterUpsert
      <3> QED BY <3>1, WrittenFacts
    <2>2. CASE ~beaten[w]
      <3>1. /\ fields[w] = Written(next[w])
            /\ shown[w] # 0 => next[w] = ExpireStep
        BY <2>2 DEF KeyOK, FirstUpsert
      <3>2. next[w] \in 0..8
        BY HsetFacts DEF TypeOK
      <3> QED BY <3>1, <3>2, WrittenFacts
    <2> QED BY <2>1, <2>2
  <1>2. shown[w] \in 0..Concurrency /\ Concurrency \in Nat
    BY HeartbeatAssumption DEF TypeOK
  <1> QED BY <1>1, <1>2, SMTT(60) DEF WorkerHeartbeatFromHash

\* A listed record stays consistent: only the worker's overdue flag matters
\* after it was read, and that is never taken back.
LEMMA ListedStep ==
    ASSUME TypeOK, KeyInv, ListedIsConsistent, Next
    PROVE  ListedIsConsistent'
  <1> USE DEF keyVars, workerVars, readerVars, historyVars
  <1>a. \A hb \in listed : hb.key \in Workers
    BY DEF TypeOK, WorkerHeartbeat
  <1>1. ASSUME NEW w \in Workers, Hgetall(w)
        PROVE  ListedIsConsistent'
    <2>1. overdue' = overdue
      BY <1>1 DEF Hgetall
    <2>2. CASE fields[w] = {}
      BY <1>1, <2>1, <2>2 DEF Hgetall, ListedIsConsistent
    <2>3. CASE fields[w] # {}
      <3> DEFINE r == WorkerHeartbeatFromHash(w)
      <3>1. r.key = w
        BY DEF WorkerHeartbeatFromHash
      <3>2. \/ overdue[w]
            \/ r.worker_id = w /\ r.currently_running <= r.concurrency
        <4>1. KeyOK(w)
          BY DEF KeyInv
        <4>2. ASSUME ~overdue[w]
              PROVE  r.worker_id = w /\ r.currently_running <= r.concurrency
          BY <2>3, <4>1, <4>2, ReadIsConsistent
        <4> QED BY <4>2
      <3>3. listed' = listed \cup {r}
        BY <1>1, <2>3 DEF Hgetall
      <3> HIDE DEF r
      <3> QED BY <2>1, <3>1, <3>2, <3>3 DEF ListedIsConsistent
    <2> QED BY <2>2, <2>3
  <1>2. CASE ListWorkers
    BY <1>2 DEF ListWorkers, ListedIsConsistent
  <1>3. CASE Tick
    <2>1. listed' = listed /\ \A w \in Workers : overdue[w] => overdue'[w]
      BY <1>3 DEF Tick
    <2> QED BY <1>a, <2>1 DEF ListedIsConsistent
  <1>4. ASSUME NEW w \in Workers,
               MaybePublishHeartbeat(w) \/ UpsertWorkerHeartbeat(w) \/ Die(w)
        PROVE  ListedIsConsistent'
    <2>1. listed' = listed /\ overdue' = overdue
      BY <1>4
         DEF MaybePublishHeartbeat, UpsertWorkerHeartbeat, Hset, Expire, Die
    <2> QED BY <2>1 DEF ListedIsConsistent
  <1> QED BY <1>1, <1>2, <1>3, <1>4 DEF Next

-----------------------------------------------------------------------------
(* Theorems.                                                               *)

\* The conjuncts of HeartbeatInv hold in every state.
THEOREM HeartbeatInvariant == Spec => []HeartbeatInv
  <1>1. Init => HeartbeatInv
    <2> SUFFICES ASSUME Init
                 PROVE  HeartbeatInv
      OBVIOUS
    <2> USE DEF Init
    <2>1. TypeOK
      BY HsetFacts, HeartbeatAssumption, SMTT(60) DEF TypeOK
    <2>2. ASSUME NEW w \in Workers
          PROVE  KeyOK(w)
      <3>1. next[w] = 0 /\ fields[w] = {} /\ Written(0) = {}
        BY WrittenFacts
      <3> QED BY <3>1 DEF KeyOK, FirstUpsert
    <2>3. ListedIsConsistent
      BY DEF ListedIsConsistent
    <2> QED BY <2>1, <2>2, <2>3 DEF HeartbeatInv, KeyInv
  <1>2. ASSUME HeartbeatInv, Next
        PROVE  HeartbeatInv'
    <2>1. TypeOK' /\ ListedIsConsistent'
      BY <1>2, TypeStep, ListedStep DEF HeartbeatInv
    <2>2. \A w \in Workers : KeyOK(w)'
      BY <1>2, KeyStep DEF HeartbeatInv
    <2> QED BY <2>1, <2>2 DEF HeartbeatInv, KeyInv
  <1>3. ASSUME HeartbeatInv, UNCHANGED vars
        PROVE  HeartbeatInv'
    <2> USE DEF vars, keyVars, workerVars, readerVars, historyVars
    <2>1. TypeOK'
      BY <1>3 DEF HeartbeatInv, TypeOK
    <2>2. ASSUME NEW w \in Workers
          PROVE  KeyOK(w)'
      BY <1>3, KeySame DEF HeartbeatInv, KeyInv
    <2>3. ListedIsConsistent'
      BY <1>3 DEF HeartbeatInv, ListedIsConsistent
    <2> QED BY <2>1, <2>2, <2>3 DEF HeartbeatInv, KeyInv
  <1> QED BY <1>1, <1>2, <1>3, PTL DEF Spec

\* The keys, the processes and the reader keep their types.
THEOREM HeartbeatTypes == Spec => []TypeOK
  <1>1. HeartbeatInv => TypeOK
    BY DEF HeartbeatInv
  <1> QED BY <1>1, HeartbeatInvariant, PTL

\* A worker that publishes less than heartbeat_ttl_seconds_ after the heartbeat
\* before has a whole hash, from the end of its first upsert to its death.
THEOREM LiveWorkerIsListed == Spec => []LiveIsListed
  <1>1. HeartbeatInv => LiveIsListed
    BY DEF HeartbeatInv, KeyInv, KeyOK, LaterUpsert, LiveIsListed
  <1> QED BY <1>1, HeartbeatInvariant, PTL

\* ListWorkers, which reads key after key while they are written and expire,
\* returns records with an id and with no more running tasks than threads.
THEOREM ListIsConsistent == Spec => []ListedIsConsistent
  <1>1. HeartbeatInv => ListedIsConsistent
    BY DEF HeartbeatInv
  <1> QED BY <1>1, HeartbeatInvariant, PTL

=============================================================================
