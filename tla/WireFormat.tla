----------------------------- MODULE WireFormat ------------------------------
(***************************************************************************)
(* The JSON of one message on its way through the queue: written by ToJson, *)
(* decoded, changed and encoded again by the scripts' cjson, read back by  *)
(* TaskMessageFromJson (src/task_json.cc, src/redis_scripts.cc).           *)
(*                                                                         *)
(* TaskQueue takes from here that a message either survives the scripts or *)
(* belongs to one of two sets, Undecodable and Unparsable.  Time, workers  *)
(* and the other keys are left to TaskQueue.                               *)
(*                                                                         *)
(* A JSON value is a type and a value; the value of a float is a fraction. *)
(* cjson has one kind of number and one kind of table.  It prints a number *)
(* with 14 significant digits: it writes an integral float as an integer,  *)
(* an integer of more digits as a float, and any number of more digits     *)
(* rounded.  An empty array it writes as an empty object.                  *)
(***************************************************************************)
EXTENDS Integers, Sequences

CONSTANTS
    MaxExact,     \* the largest integer that cjson prints as one
    Printable,    \* the doubles that cjson prints as they are
    MaxInt,       \* the largest int64
    Precision,    \* up to here every integer is a double
    MaxDouble,    \* the largest double
    Numbers,      \* the integers that messages hold
    Floats,       \* the floats that payloads hold
    RetryLimits,  \* the values of max_retries
    Multipliers,  \* the values of multiplier
    Null          \* an absent field

\* NowUnixMs, of which only the number of digits matters.
NowMs == 1

VARIABLES
    original,  \* the message that was enqueued
    json,      \* its JSON as it is stored now
    place,     \* the key it is stored in
    parsed,    \* what the worker that reserved it made of it, or Null
    waited     \* history: the delay before the latest retry since the task was
               \* enqueued or requeued, or Null

vars == <<original, json, place, parsed, waited>>

Policy == INSTANCE RetryPolicy

Integer(n) == [type |-> "integer", value |-> n]
Float(x) == [type |-> "float", value |-> x]
String(s) == [type |-> "string", value |-> s]
EmptyObject == [type |-> "object", value |-> <<>>]
EmptyArray == [type |-> "array", value |-> <<>>]
Object(v) == [type |-> "object", value |-> <<v>>]
TooDeep == [type |-> "deep", value |-> <<>>]

Payloads ==
    {EmptyObject, EmptyArray, Object(EmptyArray), TooDeep}
        \cup {Object(Integer(n)) : n \in Numbers}
        \cup {Object(Float(x)) : x \in Floats}

RetryPolicies ==
    [max_retries : RetryLimits, base_delay_ms : Numbers, multiplier : Multipliers]

\* What a client enqueues; a run_at_ms in the past has been reset.
Messages == [payload     : Payloads,
             retry_count : {0},
             policy      : RetryPolicies,
             run_at      : {n \in Numbers : n > NowMs} \cup {Null},
             reserved_at : {Null},
             status      : {"pending"},
             last_error  : {""}]

Places == {"pending", "delayed", "running", "dead", "succeeded", "dropped"}

\* The strings in a message: a status is the name of a place, or retrying.
Strings == Places \cup {"retrying", "error"}

FieldNames == {"schema_version", "payload", "retry_count", "max_retries",
               "base_delay_ms", "multiplier", "run_at_ms", "reserved_at_ms",
               "status", "last_error"}

-----------------------------------------------------------------------------
(* C++.                                                                    *)

\* ToJson of a message; the id, the name and created_at_ms, which nothing
\* changes, are left out, and the policy is flattened.
ToJson(m) ==
    [schema_version |-> Integer(1), payload |-> m.payload,
     retry_count    |-> Integer(m.retry_count),
     max_retries    |-> Integer(m.policy.max_retries),
     base_delay_ms  |-> Integer(m.policy.base_delay_ms),
     multiplier     |-> Float(m.policy.multiplier),
     run_at_ms      |-> IF m.run_at = Null THEN Null ELSE Integer(m.run_at),
     reserved_at_ms |-> IF m.reserved_at = Null THEN Null ELSE Integer(m.reserved_at),
     status         |-> String(m.status),
     last_error     |-> IF m.last_error = "" THEN Null ELSE String(m.last_error)]

IsInteger(v) == v # Null /\ v.type = "integer"
IsNumber(v) == v # Null /\ v.type \in {"integer", "float"}
IsIntegerOrAbsent(v) == v = Null \/ IsInteger(v)

\* An integer as a fraction.
Whole(n) == [num |-> n, den |-> 1]

\* A number read as a double; messages hold no integer beyond Precision there.
Double(v) == IF v.type = "integer" THEN Whole(v.value) ELSE v.value

\* ParseTaskSchemaVersion: a message without a version is a legacy one.
IsSchemaVersion(v) == v = Null \/ v = Integer(1)

\* Bug: the multiplier has to be the float that ToJson wrote.
ParsesStrictly(j) ==
    /\ IsSchemaVersion(j.schema_version)
    /\ IsInteger(j.retry_count)
    /\ IsInteger(j.max_retries) /\ IsInteger(j.base_delay_ms)
    /\ IsNumber(j.multiplier) /\ ~IsInteger(j.multiplier)
    /\ IsIntegerOrAbsent(j.run_at_ms) /\ IsIntegerOrAbsent(j.reserved_at_ms)
    /\ j.status # Null /\ j.payload # Null

\* TaskMessageFromJson accepts: integers have not become floats, the version is
\* supported, what is required is there.
Parses(j) ==
    /\ IsSchemaVersion(j.schema_version)
    /\ IsInteger(j.retry_count)
    /\ IsInteger(j.max_retries) /\ IsInteger(j.base_delay_ms)
    /\ IsNumber(j.multiplier)
    /\ IsIntegerOrAbsent(j.run_at_ms) /\ IsIntegerOrAbsent(j.reserved_at_ms)
    /\ j.status # Null /\ j.payload # Null

\* Bug: the policy is left at its defaults.
FromJsonDefaultPolicy(j) ==
    [payload     |-> j.payload,
     retry_count |-> j.retry_count.value,
     policy      |-> [max_retries |-> 1, base_delay_ms |-> 1, multiplier |-> Whole(2)],
     run_at      |-> IF j.run_at_ms = Null THEN Null ELSE j.run_at_ms.value,
     reserved_at |-> IF j.reserved_at_ms = Null THEN Null ELSE j.reserved_at_ms.value,
     status      |-> j.status.value,
     last_error  |-> IF j.last_error = Null THEN "" ELSE j.last_error.value]

\* The message it then returns.
FromJson(j) ==
    [payload     |-> j.payload,
     retry_count |-> j.retry_count.value,
     policy      |-> [max_retries   |-> j.max_retries.value,
                      base_delay_ms |-> j.base_delay_ms.value,
                      multiplier    |-> Double(j.multiplier)],
     run_at      |-> IF j.run_at_ms = Null THEN Null ELSE j.run_at_ms.value,
     reserved_at |-> IF j.reserved_at_ms = Null THEN Null ELSE j.reserved_at_ms.value,
     status      |-> j.status.value,
     last_error  |-> IF j.last_error = Null THEN "" ELSE j.last_error.value]

-----------------------------------------------------------------------------
(* cjson.                                                                  *)

Decodes(j) == j.payload.type # "deep"

\* p is as close to x as any printable number.
Nearest(x, p) ==
    LET Gap(q) == IF x.num * q.den >= q.num * x.den
                  THEN x.num * q.den - q.num * x.den
                  ELSE q.num * x.den - x.num * q.den
    IN  \A q \in Printable : Gap(p) * q.den <= Gap(q) * p.den

\* printf's %.14g, and strtod of what it prints.
Rounded(x) ==
    IF x \in Printable THEN x
    ELSE CHOOSE p \in Printable : Nearest(x, p)

\* A number, as it is read from what cjson prints: without a fraction and an
\* exponent it is an integer.
CjsonNumber(x) ==
    LET r == Rounded(x)
    IN  IF r.den = 1 /\ r.num <= MaxExact THEN Integer(r.num) ELSE Float(r)

\* A value that is not nested, decoded and encoded again.
CjsonScalar(v) ==
    IF v = Null THEN Null
    ELSE IF v.type = "integer" THEN CjsonNumber(Whole(v.value))
    ELSE IF v.type = "float" THEN CjsonNumber(v.value)
    ELSE IF v.type = "array" THEN EmptyObject
    ELSE v

\* The payload, one level deep.
CjsonPayload(v) ==
    IF v.type = "object" /\ v.value # <<>>
    THEN Object(CjsonScalar(v.value[1]))
    ELSE CjsonScalar(v)

\* cjson.encode(cjson.decode(j)).
Cjson(j) ==
    [f \in FieldNames |-> IF f = "payload" THEN CjsonPayload(j[f])
                          ELSE CjsonScalar(j[f])]

\* The policies of workers: the scripts have rounded the multiplier.
WorkerPolicies ==
    [max_retries : RetryLimits, base_delay_ms : Numbers, multiplier : Printable]

\* The integers of today's timestamps are among those that cjson prints as
\* they are, and so are those of max_retries, which is an int.
ASSUME WireAssumption ==
    /\ MaxExact \in Nat \ {0} /\ Precision \in Nat /\ Precision >= 8
    /\ MaxInt \in Nat /\ MaxDouble \in Nat
    /\ MaxExact < Precision /\ Precision < MaxInt /\ MaxInt <= MaxDouble
    /\ Numbers \subseteq Nat /\ \A n \in Numbers : n <= MaxInt
    /\ RetryLimits \subseteq 0..MaxExact
    /\ Multipliers \subseteq Policy!Fractions /\ Floats \subseteq Policy!Fractions

\* Integers of at most 14 digits, and the next, are printed as they are, and
\* every number has a printable one that is nearest to it.
ASSUME PrintableAssumption ==
    /\ Printable \subseteq Policy!Fractions
    /\ \A n \in 0..(MaxExact + 1) : Whole(n) \in Printable
    /\ \A x \in Multipliers \cup Floats \cup {Whole(n) : n \in Numbers} :
           \E p \in Printable : Nearest(x, p)

\* An absent field is no JSON value, no time and no message.
ASSUME NullAssumption ==
    /\ Null \notin Int
    /\ Null \notin [type : {"integer"}, value : Int]
    /\ Null \notin [type : {"float"}, value : Policy!Fractions]
    /\ Null \notin [type : {"string"}, value : Strings]
    /\ Null \notin Payloads /\ \A p \in Payloads : Null # CjsonPayload(p)
    /\ Null \notin [payload : Payloads \cup {CjsonPayload(p) : p \in Payloads},
                   retry_count : Nat, policy : WorkerPolicies, run_at : {Null},
                   reserved_at : {NowMs}, status : {"running"},
                   last_error : {"", "error"}]

\* The powers that the backoff multiplies with.
ASSUME PowAssumption ==
    \A m \in {Rounded(x) : x \in Multipliers} : \A limit \in RetryLimits :
        \A n \in 0..limit : \A x \in {m.num, m.den} :
            /\ Policy!Pow(x, n) \in Nat
            /\ x > 0 => Policy!Pow(x, n) > 0
            /\ x = 1 => Policy!Pow(x, n) = 1
            /\ Policy!Pow(x, n + 1) = x * Policy!Pow(x, n)

-----------------------------------------------------------------------------
(* The way through the queue.                                              *)

TypeOK ==
    /\ original \in Messages
    /\ place \in Places
    /\ DOMAIN json = FieldNames
    /\ parsed # Null =>
           /\ parsed.policy \in WorkerPolicies
           /\ parsed.retry_count \in 0..parsed.policy.max_retries
           /\ parsed.status = "running" /\ parsed.reserved_at = NowMs
           /\ parsed.run_at = Null

\* Enqueue, by this version or by one that wrote no schema_version.
Init ==
    /\ original \in Messages
    /\ json \in {ToJson(original),
                 [ToJson(original) EXCEPT !.schema_version = Null]}
    /\ place = IF original.run_at = Null THEN "pending" ELSE "delayed"
    /\ parsed = Null
    /\ waited = Null

\* A script stores j, decoded from what was there, in the key given; what does
\* not decode is dropped by the scripts that have popped it.
Store(j, key) ==
    /\ json' = IF Decodes(j) THEN Cjson(j) ELSE json
    /\ place' = IF Decodes(j) THEN key ELSE "dropped"
    /\ UNCHANGED original

\* Bug: run_at_ms is not removed.
PromoteKeepsRunAt ==
    /\ place = "delayed"
    /\ Store([json EXCEPT !.status = String("pending")], "pending")
    /\ UNCHANGED <<parsed, waited>>

Promote ==
    /\ place = "delayed"
    /\ Store([json EXCEPT !.run_at_ms = Null, !.status = String("pending")],
             "pending")
    /\ UNCHANGED <<parsed, waited>>

\* Bug: the script returns the message it popped.
ReserveReturnsPopped ==
    /\ place = "pending"
    /\ Store([json EXCEPT !.status = String("running"),
                          !.reserved_at_ms = Integer(NowMs)], "running")
    /\ parsed' = IF Decodes(json) /\ Parses(json) THEN FromJson(json) ELSE Null
    /\ UNCHANGED waited

\* The script, and the parse of what it returns.
Reserve ==
    /\ place = "pending"
    /\ Store([json EXCEPT !.status = String("running"),
                          !.reserved_at_ms = Integer(NowMs)], "running")
    /\ parsed' = IF Decodes(json) /\ Parses(json') THEN FromJson(json') ELSE Null
    /\ UNCHANGED waited

\* The lease is over; what the worker has is of no more interest here.
Reclaim ==
    /\ place = "running"
    /\ Store([json EXCEPT !.reserved_at_ms = Null, !.status = String("pending")],
             "pending")
    /\ parsed' = Null
    /\ UNCHANGED waited

Ack ==
    /\ place = "running" /\ parsed # Null
    /\ place' = "succeeded"
    /\ parsed' = Null
    /\ UNCHANGED <<original, json, waited>>

\* A sum of two int64 that is too large: undefined, it wraps around.
Sum64(n, d) == IF n + d <= MaxInt THEN n + d ELSE n + d - 2 * (MaxInt + 1)

\* RedisBroker::Retry writes the JSON of the worker's message.
Retry ==
    /\ place = "running" /\ parsed # Null
    /\ parsed.retry_count < parsed.policy.max_retries
    /\ \E d \in Policy!ComputeRetryDelayMs(parsed.policy,
                                          parsed.retry_count + 1) :
          /\ json' = ToJson([parsed EXCEPT !.retry_count = @ + 1,
                                           !.last_error = "error",
                                           !.status = "retrying",
                                           !.reserved_at = Null,
                                           !.run_at = Sum64(NowMs, d)])
          /\ waited' = Sum64(NowMs, d) - NowMs
    /\ place' = "delayed"
    /\ parsed' = Null
    /\ UNCHANGED original

\* The retries are used up, or the task's name is not known to the worker.
Fail ==
    /\ place = "running" /\ parsed # Null
    /\ Store([json EXCEPT !.status = String("dead"),
                          !.last_error = String("error")], "dead")
    /\ parsed' = Null
    /\ UNCHANGED waited

RetryDeadTask ==
    /\ place = "dead"
    /\ Store([json EXCEPT !.status = String("pending"),
                          !.retry_count = Integer(0), !.last_error = Null,
                          !.run_at_ms = Null, !.reserved_at_ms = Null], "pending")
    /\ waited' = Null
    /\ UNCHANGED parsed

Next ==
    Promote \/ Reserve \/ Reclaim \/ Ack \/ Retry \/ Fail \/ RetryDeadTask

Spec == Init /\ [][Next]_vars

-----------------------------------------------------------------------------
(* Properties.                                                             *)

Stored == place \in {"pending", "delayed", "running", "dead"}

\* The message says where it is, through any sequence of C++ and Lua writers:
\* only a delayed one has a run_at_ms, only a reserved or dead one a
\* reserved_at_ms (kReclaimOneScript looks at nothing else), and the status
\* that `taskq failed list --format json` prints is that of the place.
FieldsMatchPlace ==
    Stored =>
        /\ json.run_at_ms # Null <=> place = "delayed"
        /\ json.reserved_at_ms # Null <=> place \in {"running", "dead"}
        /\ json.status.value =
               IF place # "delayed" THEN place
               ELSE IF json.retry_count.value = 0 THEN "pending" ELSE "retrying"

\* However often the scripts decode and encode it, a message can be read again
\* by C++, legacy ones included, unless its policy has an integer that cjson
\* does not print as one: no other task is ever reserved and refused.
SurvivesScripts ==
    original.policy.base_delay_ms <= MaxExact =>
        /\ Stored => Parses(json)
        /\ place = "running" => parsed # Null

\* What does not come out of cjson as it went in: an empty array, an integer
\* of too many digits, and a float that is integral or has too many digits.
FragileScalar(v) ==
    \/ v.type = "array"
    \/ v.type = "integer" /\ v.value > MaxExact
    \/ v.type = "float" /\ \/ v.value \notin Printable
                           \/ v.value.den = 1 /\ v.value.num <= MaxExact

Fragile(p) ==
    \/ p.type = "array"
    \/ p.value # <<>> /\ FragileScalar(p.value[1])

\* Every attempt at a task runs with the same policy and payload, after any
\* number of promotions, reclaims, retries and requeues.  The policy is the one
\* that was enqueued, with the multiplier rounded to the digits that cjson
\* prints.  The payload is what one script makes of it, which is the one that
\* was enqueued unless that is fragile.
WorkerSeesOriginal ==
    parsed # Null =>
        /\ parsed.policy = [original.policy EXCEPT !.multiplier = Rounded(@)]
        /\ parsed.payload = CjsonPayload(original.payload)
        /\ ~Fragile(original.payload) => parsed.payload = original.payload

\* w2 is m times w1, where w1 and w2 are cut to whole milliseconds and are off
\* by at most s more.
Multiplied(w1, w2, m, s) ==
    /\ m.num * (w1 - s) < m.den * (w2 + 1 + s)
    /\ m.den * (w2 - s) <= m.num * (w1 + 1 + s)

\* num / den is so small that no double near it is off by more than one.
Small(num, den) == 8 * (num + 2 * den) < den * Precision

\* The first retry waits for the base delay and each further one for the
\* multiplier times as long as the one before, cut to milliseconds, although
\* the worker computes each delay from the count and the policy that the
\* scripts have decoded and encoded.  While the exact product is a double,
\* the cut is all that is lost, and with a whole multiplier nothing is;
\* after that the rounding may cost a millisecond more.  A product that is
\* too large for that ends the guarantee: the task may be due at once.  With a
\* base delay of zero it always is.
BackoffGrows ==
    [][place = "running" /\ place' = "delayed" =>
        LET base == original.policy.base_delay_ms
            m == Rounded(original.policy.multiplier)
            exact == base * Policy!Pow(m.num, parsed.retry_count) <= Precision
        IN  /\ waited = Null => waited' = base
            /\ base = 0 => waited' <= 0
            /\ base > 0 /\ waited # Null =>
                 /\ exact => Multiplied(waited, waited', m, 0)
                 /\ exact /\ m.den = 1 => waited' = m.num * waited
                 /\ waited >= 0 /\ Small(waited, 1) /\ Small(m.num * (waited + 2), m.den)
                        => Multiplied(waited, waited', m, 1)]_vars

=============================================================================
