--------------------------- MODULE WireFormatProofs ---------------------------
(***************************************************************************)
(* Proofs about WireFormat, for every set of numbers and policies that     *)
(* messages hold, wherever cjson's integers end and whatever it rounds to. *)
(***************************************************************************)
EXTENDS WireFormat, TLAPS

\* The leaves are for Zenon unless they name another prover.
USE ZenonT(60)

-----------------------------------------------------------------------------
(* The inductive invariant.                                                *)

\* The numbers that cjson meets first.
Known == Multipliers \cup Floats \cup {Whole(n) : n \in Numbers}

\* The policy that workers see.
WorkerPolicy == [original.policy EXCEPT !.multiplier = Rounded(@)]

\* ComputeRetryDelayMs under a name of this module.
Delays(policy, n) == Policy!ComputeRetryDelayMs(policy, n)

\* The base delay is an integer until cjson has printed one that is too long.
BaseDelayOK(v) ==
    LET base == original.policy.base_delay_ms IN
    v = Integer(base) \/ (base > MaxExact /\ v = Float(Rounded(Whole(base))))

\* What every writer leaves of the message that was enqueued.
FieldsOK(j) ==
    /\ j = [f \in FieldNames |-> j[f]]
    /\ j.schema_version \in {Null, Integer(1)}
    /\ j.payload \in {original.payload, CjsonPayload(original.payload)}
    /\ \E n \in 0..original.policy.max_retries : j.retry_count = Integer(n)
    /\ j.max_retries = Integer(original.policy.max_retries)
    /\ BaseDelayOK(j.base_delay_ms)
    /\ j.multiplier \in {Float(original.policy.multiplier),
                         Float(Rounded(original.policy.multiplier)),
                         CjsonNumber(original.policy.multiplier)}
    /\ j.last_error \in {Null, String("error")}

\* What a script has decoded and encoded: the next one changes no more of it.
Settled(j) ==
    /\ j.payload = CjsonPayload(original.payload)
    /\ j.base_delay_ms = CjsonNumber(Whole(original.policy.base_delay_ms))
    /\ j.multiplier = CjsonNumber(original.policy.multiplier)

\* The fields that say where the message is.
PlaceOK(j, key) ==
    /\ IF key = "delayed" THEN IsInteger(j.run_at_ms) ELSE j.run_at_ms = Null
    /\ j.reserved_at_ms = IF key \in {"running", "dead"} THEN Integer(NowMs)
                          ELSE Null
    /\ j.status = String(IF key # "delayed" THEN key
                         ELSE IF j.retry_count = Integer(0) THEN "pending"
                         ELSE "retrying")

\* A worker has what TaskMessageFromJson made of the reserved message.
ParsedOK ==
    parsed = IF place = "running" /\ Parses(json) THEN FromJson(json) ELSE Null

\* A task that has been retried since it was enqueued or requeued has waited for
\* the backoff of its count, as far as int64 can hold the time at which it ends.
WaitedOK ==
    place # "dropped" =>
      \E n \in 0..original.policy.max_retries :
        /\ json.retry_count = Integer(n)
        /\ waited = Null <=> n = 0
        /\ n > 0 => \E d \in Delays(WorkerPolicy, n) :
                       waited = Sum64(NowMs, d) - NowMs

WireInv ==
    /\ original \in Messages /\ place \in Places
    /\ FieldsOK(json)
    /\ place = "running" => Settled(json)
    /\ Stored => PlaceOK(json, place)
    /\ ParsedOK

-----------------------------------------------------------------------------
(* cjson.                                                                  *)

\* No JSON value is the absent one.
LEMMA ValuesArePresent ==
    /\ \A n \in Int : Integer(n) # Null
    /\ \A x \in Policy!Fractions : Float(x) # Null
    /\ \A s \in Strings : String(s) # Null
  <1>1. \A n \in Int : Integer(n) \in [type : {"integer"}, value : Int]
    BY SMTT(60) DEF Integer
  <1>2. \A x \in Policy!Fractions :
            Float(x) \in [type : {"float"}, value : Policy!Fractions]
    BY DEF Float
  <1>3. \A s \in Strings : String(s) \in [type : {"string"}, value : Strings]
    BY SMTT(60) DEF String
  <1> QED BY <1>1, <1>2, <1>3, NullAssumption

\* A value can be read back.
LEMMA ValuesAreKept ==
    /\ \A n : Integer(n).value = n /\ Integer(n).type = "integer"
    /\ \A x : Float(x).value = x /\ Float(x).type = "float"
    /\ \A x : String(x).value = x
  BY DEF Integer, Float, String

\* An integer as a double.
LEMMA WholeIsFraction ==
    ASSUME NEW n \in Nat
    PROVE  Whole(n) \in Policy!Fractions /\ Whole(n).num = n /\ Whole(n).den = 1
  BY SMTT(60) DEF Whole, Policy!Fractions

\* What cjson prints is printed the same way when it is read again.
LEMMA RoundedIsPrintable ==
    ASSUME NEW x \in Known \cup Printable
    PROVE  /\ Rounded(x) \in Printable /\ Rounded(x) \in Policy!Fractions
           /\ Rounded(Rounded(x)) = Rounded(x)
           /\ CjsonNumber(Rounded(x)) = CjsonNumber(x)
  <1>1. Rounded(x) \in Printable
    <2>1. CASE x \in Printable
      BY <2>1 DEF Rounded
    <2>2. CASE x \notin Printable
      <3>1. \E p \in Printable : Nearest(x, p)
        BY <2>2, PrintableAssumption DEF Known
      <3>2. (CHOOSE p \in Printable : Nearest(x, p)) \in Printable
        BY <3>1
      <3> QED BY <2>2, <3>2 DEF Rounded
    <2> QED BY <2>1, <2>2
  <1>2. Rounded(Rounded(x)) = Rounded(x)
    BY <1>1 DEF Rounded
  <1>3. CjsonNumber(Rounded(x)) = CjsonNumber(x)
    BY <1>2 DEF CjsonNumber
  <1> QED BY <1>1, <1>2, <1>3, PrintableAssumption

\* What cjson makes of a number: a JSON number that holds it, rounded, and that
\* it does not change again.
LEMMA NumberSettles ==
    ASSUME NEW x \in Known \cup Printable
    PROVE  /\ CjsonScalar(CjsonNumber(x)) = CjsonNumber(x)
           /\ CjsonScalar(Float(Rounded(x))) = CjsonNumber(x)
           /\ Double(CjsonNumber(x)) = Rounded(x)
           /\ IsNumber(CjsonNumber(x))
  <1> DEFINE r == Rounded(x)
  <1>1. /\ r \in Printable /\ r \in Policy!Fractions
        /\ CjsonNumber(r) = CjsonNumber(x)
    BY RoundedIsPrintable
  <1>2. CjsonNumber(x) = IF r.den = 1 /\ r.num <= MaxExact THEN Integer(r.num)
                         ELSE Float(r)
    BY DEF CjsonNumber
  <1>3. r.num \in Int
    BY <1>1, SMTT(60) DEF Policy!Fractions
  <1> HIDE DEF r
  <1>4. CjsonScalar(Float(r)) = CjsonNumber(x)
    BY <1>1, ValuesArePresent, ValuesAreKept DEF CjsonScalar
  <1>5. CASE r.den = 1 /\ r.num <= MaxExact
    <2>1. Whole(r.num) = r
      BY <1>1, <1>5, SMTT(60) DEF Whole, Policy!Fractions
    <2>2. CjsonNumber(x) = Integer(r.num) /\ Integer(r.num) # Null
      BY <1>2, <1>3, <1>5, ValuesArePresent
    <2>3. CjsonScalar(Integer(r.num)) = CjsonNumber(x)
      BY <1>1, <2>1, <2>2, ValuesAreKept DEF CjsonScalar
    <2>4. Double(Integer(r.num)) = r /\ IsNumber(Integer(r.num))
      BY <2>1, <2>2, ValuesAreKept DEF Double, IsNumber
    <2> QED BY <1>4, <2>2, <2>3, <2>4 DEF r
  <1>6. CASE ~(r.den = 1 /\ r.num <= MaxExact)
    <2>1. CjsonNumber(x) = Float(r) /\ Float(r) # Null
      BY <1>1, <1>2, <1>6, ValuesArePresent
    <2>2. Double(Float(r)) = r /\ IsNumber(Float(r))
      BY <2>1, ValuesAreKept DEF Double, IsNumber
    <2> QED BY <1>4, <2>1, <2>2 DEF r
  <1> QED BY <1>5, <1>6

\* What cjson makes of an integer: it stays one up to MaxExact, and no rounding
\* brings a larger one back to there.
LEMMA IntegerOrLonger ==
    ASSUME NEW n \in Nat
    PROVE  /\ CjsonScalar(Integer(n)) = CjsonNumber(Whole(n))
           /\ n <= MaxExact => CjsonNumber(Whole(n)) = Integer(n)
           /\ n > MaxExact /\ n \in Numbers =>
                  CjsonNumber(Whole(n)) = Float(Rounded(Whole(n)))
  <1> DEFINE x == Whole(n)
             r == Rounded(x)
  <1>1. x.num = n /\ x.den = 1 /\ n \in Int
    BY WholeIsFraction, SMTT(60)
  <1>2. CjsonScalar(Integer(n)) = CjsonNumber(x)
    BY <1>1, ValuesArePresent, ValuesAreKept DEF CjsonScalar
  <1>3. ASSUME n <= MaxExact
        PROVE  CjsonNumber(x) = Integer(n)
    <2>1. n \in 0..(MaxExact + 1)
      BY <1>3, WireAssumption, SMTT(60)
    <2>2. Rounded(x) = x
      BY <2>1, PrintableAssumption DEF Rounded
    <2> QED BY <1>1, <1>3, <2>2 DEF CjsonNumber
  <1>4. ASSUME n > MaxExact, n \in Numbers
        PROVE  ~(r.den = 1 /\ r.num <= MaxExact)
    <2>1. CASE x \in Printable
      <3>1. r = x
        BY <2>1 DEF Rounded
      <3>2. ~(n <= MaxExact)
        BY <1>4, WireAssumption, SMTT(60)
      <3> QED BY <1>1, <3>1, <3>2
    <2>2. CASE x \notin Printable
      <3>1. \E p \in Printable : Nearest(x, p)
        BY <1>4, PrintableAssumption
      <3>2. r \in Printable /\ Nearest(x, r)
        BY <2>2, <3>1 DEF Rounded
      <3> DEFINE q == Whole(MaxExact + 1)
      <3>3. /\ q \in Printable /\ q.num = MaxExact + 1 /\ q.den = 1
            /\ r.num \in Nat
        <4>1. MaxExact + 1 \in 0..(MaxExact + 1) /\ MaxExact + 1 \in Nat
          BY WireAssumption, SMTT(60)
        <4>2. r \in Policy!Fractions
          BY <3>2, PrintableAssumption
        <4> QED BY <4>1, <4>2, PrintableAssumption, WholeIsFraction
                DEF Policy!Fractions
      <3> HIDE DEF q, r, x
      <3>4. ASSUME r.den = 1, r.num <= MaxExact
            PROVE  FALSE
        <4>1. LET Gap(y) == IF x.num * y.den >= y.num * x.den
                            THEN x.num * y.den - y.num * x.den
                            ELSE y.num * x.den - x.num * y.den
              IN  Gap(r) * q.den <= Gap(q) * r.den
          BY <3>2, <3>3 DEF Nearest
        <4> QED BY <1>1, <1>4, <3>3, <3>4, <4>1, WireAssumption, SMTT(60)
      <3> QED BY <3>4
    <2> QED BY <2>1, <2>2
  <1>5. ASSUME n > MaxExact, n \in Numbers
        PROVE  CjsonNumber(x) = Float(r)
    BY <1>4, <1>5 DEF CjsonNumber
  <1> QED BY <1>2, <1>3, <1>5

\* What cjson keeps: absent fields, strings and integers that are short enough.
LEMMA ScalarKept ==
    /\ CjsonScalar(Null) = Null
    /\ \A s \in Strings : CjsonScalar(String(s)) = String(s)
    /\ \A n \in 0..MaxExact : CjsonScalar(Integer(n)) = Integer(n)
  <1>1. CjsonScalar(Null) = Null
    BY DEF CjsonScalar
  <1>2. ASSUME NEW s \in Strings
        PROVE  CjsonScalar(String(s)) = String(s)
    BY <1>2, ValuesArePresent DEF CjsonScalar, String
  <1>3. ASSUME NEW n \in 0..MaxExact
        PROVE  CjsonScalar(Integer(n)) = Integer(n)
    <2>1. n \in Nat /\ n <= MaxExact
      BY <1>3, WireAssumption, SMTT(60)
    <2> QED BY <2>1, IntegerOrLonger
  <1> QED BY <1>1, <1>2, <1>3

\* A payload that the scripts have decoded and encoded once is not changed when
\* they do it again, and one that is not fragile is not changed at all.
LEMMA PayloadSettles ==
    ASSUME NEW p \in Payloads
    PROVE  /\ CjsonPayload(CjsonPayload(p)) = CjsonPayload(p)
           /\ ~Fragile(p) => CjsonPayload(p) = p
           /\ p # Null /\ CjsonPayload(p) # Null
  <1>1. p # Null /\ CjsonPayload(p) # Null
    BY NullAssumption
  <1>2. CASE p = EmptyObject
    BY <1>1, <1>2 DEF CjsonPayload, CjsonScalar, EmptyObject
  <1>3. CASE p = EmptyArray
    <2>1. CjsonPayload(p) = EmptyObject /\ EmptyObject # Null
      BY <1>1, <1>3 DEF CjsonPayload, CjsonScalar, EmptyObject, EmptyArray
    <2>2. CjsonPayload(EmptyObject) = EmptyObject
      BY <2>1 DEF CjsonPayload, CjsonScalar, EmptyObject
    <2> QED BY <1>1, <1>3, <2>1, <2>2 DEF Fragile, EmptyArray
  <1>4. CASE p = TooDeep
    BY <1>1, <1>4 DEF CjsonPayload, CjsonScalar, TooDeep
  <1>5. \A v : CjsonPayload(Object(v)) = Object(CjsonScalar(v))
    BY SMTT(60) DEF CjsonPayload, Object
  <1>6. CASE p = Object(EmptyArray)
    <2>1. EmptyArray # Null /\ EmptyObject # Null
      BY NullAssumption DEF Payloads
    <2>2. CjsonScalar(EmptyArray) = EmptyObject
      BY <2>1 DEF CjsonScalar, EmptyArray
    <2>3. CjsonScalar(EmptyObject) = EmptyObject
      BY <2>1 DEF CjsonScalar, EmptyObject
    <2>4. Fragile(p)
      BY <1>6, SMTT(60) DEF Fragile, FragileScalar, Object, EmptyArray
    <2> QED BY <1>1, <1>5, <1>6, <2>2, <2>3, <2>4
  <1>7. ASSUME NEW n \in Numbers, p = Object(Integer(n))
        PROVE  /\ CjsonPayload(CjsonPayload(p)) = CjsonPayload(p)
               /\ ~Fragile(p) => CjsonPayload(p) = p
    <2>1. n \in Nat /\ Whole(n) \in Known
      BY WireAssumption DEF Known
    <2>2. CjsonPayload(p) = Object(CjsonNumber(Whole(n)))
      BY <1>5, <1>7, <2>1, IntegerOrLonger
    <2>3. CjsonScalar(CjsonNumber(Whole(n))) = CjsonNumber(Whole(n))
      BY <2>1, NumberSettles
    <2>4. n > MaxExact => Fragile(p)
      BY <1>7, SMTT(60) DEF Fragile, FragileScalar, Object, Integer
    <2>5. n <= MaxExact \/ n > MaxExact
      BY <2>1, WireAssumption, SMTT(60)
    <2> QED BY <1>5, <1>7, <2>1, <2>2, <2>3, <2>4, <2>5, IntegerOrLonger
  <1>8. ASSUME NEW x \in Floats, p = Object(Float(x))
        PROVE  /\ CjsonPayload(CjsonPayload(p)) = CjsonPayload(p)
               /\ ~Fragile(p) => CjsonPayload(p) = p
    <2>1. x \in Known /\ x \in Policy!Fractions
      BY WireAssumption DEF Known
    <2>2. CjsonScalar(Float(x)) = CjsonNumber(x)
      BY <2>1, ValuesArePresent, ValuesAreKept DEF CjsonScalar
    <2>3. CjsonPayload(p) = Object(CjsonNumber(x))
      BY <1>5, <1>8, <2>2
    <2>4. CjsonScalar(CjsonNumber(x)) = CjsonNumber(x)
      BY <2>1, NumberSettles
    <2>5. ASSUME ~Fragile(p)
          PROVE  CjsonNumber(x) = Float(x)
      <3>1. x \in Printable /\ ~(x.den = 1 /\ x.num <= MaxExact)
        <4>1. p.value # <<>> /\ p.value[1] = Float(x)
          BY <1>8, SMTT(60) DEF Object
        <4>2. ~FragileScalar(Float(x))
          BY <2>5, <4>1 DEF Fragile
        <4>3. Float(x).type = "float" /\ Float(x).value = x
          BY ValuesAreKept
        <4> HIDE DEF Float
        <4> QED BY <4>2, <4>3 DEF FragileScalar
      <3> QED BY <3>1 DEF CjsonNumber, Rounded
    <2> QED BY <1>5, <1>8, <2>3, <2>4, <2>5
  <1> QED BY <1>1, <1>2, <1>3, <1>4, <1>6, <1>7, <1>8 DEF Payloads

\* The fields of a message, decoded and encoded.
LEMMA CjsonFields ==
    ASSUME NEW j
    PROVE  /\ Cjson(j) = [f \in FieldNames |-> Cjson(j)[f]]
           /\ Cjson(j).schema_version = CjsonScalar(j.schema_version)
           /\ Cjson(j).payload = CjsonPayload(j.payload)
           /\ Cjson(j).retry_count = CjsonScalar(j.retry_count)
           /\ Cjson(j).max_retries = CjsonScalar(j.max_retries)
           /\ Cjson(j).base_delay_ms = CjsonScalar(j.base_delay_ms)
           /\ Cjson(j).multiplier = CjsonScalar(j.multiplier)
           /\ Cjson(j).run_at_ms = CjsonScalar(j.run_at_ms)
           /\ Cjson(j).reserved_at_ms = CjsonScalar(j.reserved_at_ms)
           /\ Cjson(j).status = CjsonScalar(j.status)
           /\ Cjson(j).last_error = CjsonScalar(j.last_error)
  BY DEF Cjson, FieldNames

\* What the parts of a message are.
LEMMA OriginalFacts ==
    ASSUME original \in Messages
    PROVE  /\ original.payload \in Payloads
           /\ original.policy \in RetryPolicies
           /\ original.policy.max_retries \in 0..MaxExact
           /\ original.policy.max_retries \in RetryLimits
           /\ original.policy.base_delay_ms \in Nat
           /\ original.policy.base_delay_ms \in Numbers
           /\ Whole(original.policy.base_delay_ms) \in Known
           /\ original.policy.multiplier \in Known
           /\ original.policy.multiplier \in Multipliers
           /\ original.policy.multiplier \in Policy!Fractions
  <1>1. original.payload \in Payloads /\ original.policy \in RetryPolicies
    BY DEF Messages
  <1>2. /\ original.policy.max_retries \in RetryLimits
        /\ original.policy.base_delay_ms \in Numbers
        /\ original.policy.multiplier \in Multipliers
    BY <1>1 DEF RetryPolicies
  <1> QED BY <1>1, <1>2, WireAssumption DEF Known

\* What the policy of the workers is.
LEMMA WorkerPolicyFacts ==
    ASSUME original \in Messages
    PROVE  /\ WorkerPolicy \in WorkerPolicies
           /\ WorkerPolicy = [max_retries   |-> original.policy.max_retries,
                              base_delay_ms |-> original.policy.base_delay_ms,
                              multiplier    |-> Rounded(original.policy.multiplier)]
           /\ WorkerPolicy.max_retries = original.policy.max_retries
           /\ WorkerPolicy.base_delay_ms = original.policy.base_delay_ms
           /\ WorkerPolicy.multiplier = Rounded(original.policy.multiplier)
  <1> DEFINE p == original.policy
             r == Rounded(p.multiplier)
  <1>1. p \in RetryPolicies /\ p.max_retries \in RetryLimits
    BY OriginalFacts
  <1>2. p.base_delay_ms \in Numbers /\ p.multiplier \in Known
    BY OriginalFacts
  <1>3. r \in Printable
    BY <1>2, RoundedIsPrintable
  <1>4. WorkerPolicy = [p EXCEPT !.multiplier = r]
    BY <1>1 DEF WorkerPolicy, RetryPolicies
  <1> HIDE DEF p, r
  <1>5. WorkerPolicy = [max_retries |-> p.max_retries,
                        base_delay_ms |-> p.base_delay_ms, multiplier |-> r]
    BY <1>1, <1>4, SMTT(60) DEF RetryPolicies
  <1>6. WorkerPolicy \in WorkerPolicies
    BY <1>1, <1>2, <1>3, <1>5 DEF WorkerPolicies
  <1> QED BY <1>5, <1>6 DEF p, r

\* The scripts keep what a message has of the original.
LEMMA CjsonKeepsFields ==
    ASSUME original \in Messages, NEW j, FieldsOK(j)
    PROVE  /\ FieldsOK(Cjson(j)) /\ Settled(Cjson(j))
           /\ Cjson(j).retry_count = j.retry_count
  <1> DEFINE c == Cjson(j)
             p == original.policy
  <1>1. c.schema_version \in {Null, Integer(1)}
    <2>1. j.schema_version \in {Null, Integer(1)}
      BY DEF FieldsOK
    <2>2. 1 \in 0..MaxExact
      BY WireAssumption, SMTT(60)
    <2>3. c.schema_version = CjsonScalar(j.schema_version)
      BY CjsonFields
    <2> QED BY <2>1, <2>2, <2>3, ScalarKept
  <1>2. c.payload = CjsonPayload(original.payload)
    <2>1. j.payload \in {original.payload, CjsonPayload(original.payload)}
      BY DEF FieldsOK
    <2>2. c.payload = CjsonPayload(j.payload)
      BY CjsonFields
    <2>3. CjsonPayload(CjsonPayload(original.payload)) = CjsonPayload(original.payload)
      BY OriginalFacts, PayloadSettles
    <2> QED BY <2>1, <2>2, <2>3
  <1>3. c.retry_count = j.retry_count
    <2>1. PICK n \in 0..p.max_retries : j.retry_count = Integer(n)
      BY DEF FieldsOK
    <2>2. n \in 0..MaxExact
      BY <2>1, OriginalFacts, WireAssumption, SMTT(60)
    <2>3. c.retry_count = CjsonScalar(j.retry_count)
      BY CjsonFields
    <2> QED BY <2>1, <2>2, <2>3, ScalarKept
  <1>4. c.max_retries = Integer(p.max_retries)
    <2>1. j.max_retries = Integer(p.max_retries)
      BY DEF FieldsOK
    <2>2. c.max_retries = CjsonScalar(j.max_retries)
      BY CjsonFields
    <2>3. p.max_retries \in 0..MaxExact
      BY OriginalFacts
    <2> QED BY <2>1, <2>2, <2>3, ScalarKept
  <1>5. /\ c.base_delay_ms = CjsonNumber(Whole(p.base_delay_ms))
        /\ BaseDelayOK(c.base_delay_ms)
    <2> DEFINE b == p.base_delay_ms
    <2>1. BaseDelayOK(j.base_delay_ms)
      BY DEF FieldsOK
    <2>2. c.base_delay_ms = CjsonScalar(j.base_delay_ms)
      BY CjsonFields
    <2>3. b \in Nat /\ b \in Numbers /\ Whole(b) \in Known
      BY OriginalFacts
    <2>4. b <= MaxExact \/ b > MaxExact
      BY <2>3, WireAssumption, SMTT(60)
    <2>5. c.base_delay_ms = CjsonNumber(Whole(b))
      BY <2>1, <2>2, <2>3, IntegerOrLonger, NumberSettles DEF BaseDelayOK
    <2> QED BY <2>3, <2>4, <2>5, IntegerOrLonger DEF BaseDelayOK
  <1>6. c.multiplier = CjsonNumber(p.multiplier)
    <2>1. j.multiplier \in {Float(p.multiplier), Float(Rounded(p.multiplier)),
                           CjsonNumber(p.multiplier)}
      BY DEF FieldsOK
    <2>2. c.multiplier = CjsonScalar(j.multiplier)
      BY CjsonFields
    <2>3. p.multiplier \in Known /\ p.multiplier \in Policy!Fractions
      BY OriginalFacts
    <2>4. CjsonScalar(Float(p.multiplier)) = CjsonNumber(p.multiplier)
      BY <2>3, ValuesArePresent, ValuesAreKept DEF CjsonScalar
    <2> QED BY <2>1, <2>2, <2>3, <2>4, NumberSettles
  <1>7. c.last_error \in {Null, String("error")}
    <2>1. j.last_error \in {Null, String("error")}
      BY DEF FieldsOK
    <2>2. c.last_error = CjsonScalar(j.last_error)
      BY CjsonFields
    <2>3. CjsonScalar(String("error")) = String("error")
      BY ScalarKept DEF Strings
    <2> QED BY <2>1, <2>2, <2>3, ScalarKept
  <1>8. c = [f \in FieldNames |-> c[f]]
    BY CjsonFields
  <1>9. \E n \in 0..p.max_retries : c.retry_count = Integer(n)
    BY <1>3 DEF FieldsOK
  <1> HIDE DEF c
  <1>10. FieldsOK(c)
    BY <1>1, <1>2, <1>4, <1>5, <1>6, <1>7, <1>8, <1>9 DEF FieldsOK
  <1>11. Settled(c)
    BY <1>2, <1>5, <1>6 DEF Settled
  <1> QED BY <1>3, <1>10, <1>11 DEF c

\* The scripts keep the fields that say where a message is, where they write it:
\* a delayed message is only ever written by C++.
LEMMA CjsonKeepsPlace ==
    ASSUME original \in Messages, NEW j, FieldsOK(j), NEW key \in Places,
           key # "delayed", PlaceOK(j, key)
    PROVE  PlaceOK(Cjson(j), key)
  <1>1. Cjson(j).run_at_ms = Null
    <2>1. j.run_at_ms = Null
      BY DEF PlaceOK
    <2>2. Cjson(j).run_at_ms = CjsonScalar(j.run_at_ms)
      BY CjsonFields
    <2> QED BY <2>1, <2>2, ScalarKept
  <1>2. NowMs \in 0..MaxExact
    BY WireAssumption, SMTT(60) DEF NowMs
  <1>3. Cjson(j).reserved_at_ms = j.reserved_at_ms
    <2>1. j.reserved_at_ms \in {Null, Integer(NowMs)}
      BY DEF PlaceOK
    <2>2. Cjson(j).reserved_at_ms = CjsonScalar(j.reserved_at_ms)
      BY CjsonFields
    <2> QED BY <1>2, <2>1, <2>2, ScalarKept
  <1>4. Cjson(j).status = String(key)
    <2>1. j.status = String(key) /\ key \in Strings
      BY DEF PlaceOK, Strings
    <2>2. Cjson(j).status = CjsonScalar(j.status)
      BY CjsonFields
    <2> QED BY <2>1, <2>2, ScalarKept
  <1> QED BY <1>1, <1>3, <1>4 DEF PlaceOK

-----------------------------------------------------------------------------
(* Parsing.                                                                *)

\* TaskMessageFromJson refuses a stored message only for a base delay that cjson
\* has made a float.
LEMMA ParsesUnlessLong ==
    ASSUME original \in Messages, NEW j, FieldsOK(j), NEW key \in Places,
           PlaceOK(j, key)
    PROVE  Parses(j) <=> j.base_delay_ms = Integer(original.policy.base_delay_ms)
  <1> DEFINE base == original.policy.base_delay_ms
  <1>1. \A n \in Int : IsInteger(Integer(n))
    BY ValuesArePresent, ValuesAreKept DEF IsInteger
  <1>2. /\ \A x : ~IsInteger(Float(x))
        /\ \A x \in Policy!Fractions : IsNumber(Float(x))
    BY ValuesArePresent, ValuesAreKept DEF IsInteger, IsNumber
  <1>3. IsSchemaVersion(j.schema_version)
    BY DEF FieldsOK, IsSchemaVersion
  <1>4. IsInteger(j.retry_count) /\ IsInteger(j.max_retries)
    <2>1. PICK n \in 0..original.policy.max_retries : j.retry_count = Integer(n)
      BY DEF FieldsOK
    <2>2. n \in Int /\ original.policy.max_retries \in Int
      BY <2>1, OriginalFacts, WireAssumption, SMTT(60)
    <2>3. j.max_retries = Integer(original.policy.max_retries)
      BY DEF FieldsOK
    <2> QED BY <1>1, <2>1, <2>2, <2>3
  <1>5. IsInteger(j.base_delay_ms) <=> j.base_delay_ms = Integer(base)
    <2>1. BaseDelayOK(j.base_delay_ms)
      BY DEF FieldsOK
    <2>2. base \in Int
      BY OriginalFacts, SMTT(60)
    <2> QED BY <1>1, <1>2, <2>1, <2>2 DEF BaseDelayOK
  <1>6. IsNumber(j.multiplier)
    <2> DEFINE m == original.policy.multiplier
    <2>1. j.multiplier \in {Float(m), Float(Rounded(m)), CjsonNumber(m)}
      BY DEF FieldsOK
    <2>2. m \in Known /\ m \in Policy!Fractions
      BY OriginalFacts
    <2>3. Rounded(m) \in Policy!Fractions /\ IsNumber(CjsonNumber(m))
      BY <2>2, RoundedIsPrintable, NumberSettles
    <2> QED BY <1>2, <2>1, <2>2, <2>3
  <1>7. IsIntegerOrAbsent(j.run_at_ms) /\ IsIntegerOrAbsent(j.reserved_at_ms)
    <2>1. NowMs \in Int
      BY SMTT(60) DEF NowMs
    <2> QED BY <1>1, <2>1 DEF PlaceOK, IsIntegerOrAbsent
  <1>8. j.status # Null
    <2>1. {key, "pending", "retrying"} \subseteq Strings
      BY DEF Strings, Places
    <2> QED BY <2>1, ValuesArePresent DEF PlaceOK
  <1>9. j.payload # Null
    <2>1. j.payload \in {original.payload, CjsonPayload(original.payload)}
      BY DEF FieldsOK
    <2> QED BY <2>1, OriginalFacts, PayloadSettles
  <1> QED BY <1>3, <1>4, <1>5, <1>6, <1>7, <1>8, <1>9 DEF Parses

\* What TaskMessageFromJson makes of a reserved message that it accepts.
LEMMA FromJsonFacts ==
    ASSUME original \in Messages, NEW j, FieldsOK(j), Settled(j),
           PlaceOK(j, "running"),
           j.base_delay_ms = Integer(original.policy.base_delay_ms)
    PROVE  /\ FromJson(j) # Null
           /\ FromJson(j).policy = WorkerPolicy
           /\ FromJson(j).payload = CjsonPayload(original.payload)
           /\ FromJson(j).retry_count \in 0..original.policy.max_retries
           /\ FromJson(j).run_at = Null /\ FromJson(j).reserved_at = NowMs
           /\ FromJson(j).status = "running"
           /\ FromJson(j).last_error \in {"", "error"}
  <1> DEFINE p == original.policy
             m == FromJson(j)
  <1>1. m.policy = WorkerPolicy
    <2>1. j.max_retries.value = p.max_retries
      <3>1. j.max_retries = Integer(p.max_retries)
        BY DEF FieldsOK
      <3> QED BY <3>1, ValuesAreKept
    <2>2. j.base_delay_ms.value = p.base_delay_ms
      BY ValuesAreKept
    <2>3. Double(j.multiplier) = Rounded(p.multiplier)
      BY OriginalFacts, NumberSettles DEF Settled
    <2>4. m.policy = [max_retries   |-> p.max_retries,
                      base_delay_ms |-> p.base_delay_ms,
                      multiplier    |-> Rounded(p.multiplier)]
      BY <2>1, <2>2, <2>3 DEF FromJson
    <2> QED BY <2>4, WorkerPolicyFacts
  <1>2. m.payload = CjsonPayload(original.payload)
    <2>1. m.payload = j.payload
      BY DEF FromJson
    <2> QED BY <2>1 DEF Settled
  <1>3. m.retry_count \in 0..p.max_retries
    <2>1. PICK n \in 0..p.max_retries : j.retry_count = Integer(n)
      BY DEF FieldsOK
    <2>2. m.retry_count = j.retry_count.value
      BY DEF FromJson
    <2>3. j.retry_count.value = n
      BY <2>1, ValuesAreKept
    <2> QED BY <2>2, <2>3
  <1>4. m.run_at = Null
    BY DEF PlaceOK, FromJson
  <1>5. m.reserved_at = NowMs
    <2>1. NowMs \in Int
      BY SMTT(60) DEF NowMs
    <2>2. j.reserved_at_ms = Integer(NowMs) /\ j.reserved_at_ms # Null
      BY <2>1, ValuesArePresent DEF PlaceOK
    <2>3. m.reserved_at = j.reserved_at_ms.value
      BY <2>2 DEF FromJson
    <2> QED BY <2>2, <2>3, ValuesAreKept
  <1>6. m.status = "running"
    <2>1. j.status = String("running")
      BY DEF PlaceOK
    <2>2. m.status = j.status.value
      BY DEF FromJson
    <2> QED BY <2>1, <2>2, ValuesAreKept
  <1>7. m.last_error \in {"", "error"}
    <2>1. j.last_error \in {Null, String("error")}
      BY DEF FieldsOK
    <2>2. m.last_error = IF j.last_error = Null THEN "" ELSE j.last_error.value
      BY DEF FromJson
    <2> QED BY <2>1, <2>2, ValuesAreKept
  <1>8. m # Null
    <2>1. m.payload \in Payloads \cup {CjsonPayload(q) : q \in Payloads}
      BY <1>2, OriginalFacts
    <2>2. m.retry_count \in Nat /\ m.policy \in WorkerPolicies
      <3>1. m.retry_count \in Nat
        BY <1>3, OriginalFacts, SMTT(60)
      <3> QED BY <1>1, <3>1, WorkerPolicyFacts
    <2>3. m = [payload |-> m.payload, retry_count |-> m.retry_count,
               policy |-> m.policy, run_at |-> m.run_at,
               reserved_at |-> m.reserved_at, status |-> m.status,
               last_error |-> m.last_error]
      BY SMTT(60) DEF FromJson
    <2> HIDE DEF m
    <2>4. m \in [payload : Payloads \cup {CjsonPayload(q) : q \in Payloads},
                retry_count : Nat, policy : WorkerPolicies, run_at : {Null},
                reserved_at : {NowMs}, status : {"running"},
                last_error : {"", "error"}]
      BY <1>4, <1>5, <1>6, <1>7, <2>1, <2>2, <2>3
    <2> QED BY <2>4, NullAssumption
  <1> HIDE DEF m
  <1> QED BY <1>1, <1>2, <1>3, <1>4, <1>5, <1>6, <1>7, <1>8 DEF m

-----------------------------------------------------------------------------
(* Writing.                                                                *)

\* A script that changes none of the fields that come from the original, or
\* sets the count or the error anew, keeps what holds of the message.
LEMMA EditKeepsFields ==
    ASSUME original \in Messages, FieldsOK(json), NEW j,
           j = [f \in FieldNames |-> j[f]],
           \A f \in {"schema_version", "payload", "max_retries", "base_delay_ms",
                     "multiplier"} : j[f] = json[f],
           j.retry_count \in {json.retry_count, Integer(0)},
           j.last_error \in {json.last_error, Null, String("error")}
    PROVE  FieldsOK(j)
  <1>1. /\ j.schema_version = json.schema_version /\ j.payload = json.payload
        /\ j.max_retries = json.max_retries
        /\ j.base_delay_ms = json.base_delay_ms
        /\ j.multiplier = json.multiplier
    OBVIOUS
  <1>2. \E n \in 0..original.policy.max_retries : j.retry_count = Integer(n)
    <2>1. 0 \in 0..original.policy.max_retries
      BY OriginalFacts, WireAssumption, SMTT(60)
    <2>2. \E n \in 0..original.policy.max_retries : json.retry_count = Integer(n)
      BY DEF FieldsOK
    <2> QED BY <2>1, <2>2
  <1>3. j.last_error \in {Null, String("error")}
    BY DEF FieldsOK
  <1> QED BY <1>1, <1>2, <1>3 DEF FieldsOK

\* What a script stores, where it may store it: the message keeps what it has of
\* the original and says where it is; one that does not decode is dropped.
LEMMA StoreStep ==
    ASSUME WireInv, NEW j, FieldsOK(j), NEW key \in Places, key # "delayed",
           PlaceOK(j, key), Store(j, key)
    PROVE  /\ original' \in Messages /\ place' \in {key, "dropped"}
           /\ FieldsOK(json)' /\ (Stored => PlaceOK(json, place))'
           /\ (place = "running" => Settled(json))'
           /\ Decodes(j) => place' = key
           /\ ~Decodes(j) => place' = "dropped"
           /\ original' = original
  <1>1. original \in Messages /\ FieldsOK(json) /\ original' = original
    BY DEF WireInv, Store
  <1>2. CASE Decodes(j)
    <2>1. json' = Cjson(j) /\ place' = key
      BY <1>2 DEF Store
    <2>2. FieldsOK(Cjson(j)) /\ Settled(Cjson(j)) /\ PlaceOK(Cjson(j), key)
      BY <1>1, CjsonKeepsFields, CjsonKeepsPlace
    <2>3. FieldsOK(json)'
      BY <1>1, <2>1, <2>2 DEF FieldsOK, BaseDelayOK
    <2>4. PlaceOK(json, place)'
      BY <2>1, <2>2 DEF PlaceOK
    <2>5. Settled(json)'
      BY <1>1, <2>1, <2>2 DEF Settled
    <2> QED BY <1>1, <1>2, <2>1, <2>3, <2>4, <2>5
  <1>3. CASE ~Decodes(j)
    <2>1. json' = json /\ place' = "dropped"
      BY <1>3 DEF Store
    <2>2. FieldsOK(json)'
      BY <1>1, <2>1 DEF FieldsOK, BaseDelayOK
    <2>3. ~Stored'
      BY <2>1 DEF Stored
    <2> QED BY <1>1, <1>3, <2>1, <2>2, <2>3
  <1> QED BY <1>2, <1>3

\* The invariant, from its parts.
LEMMA WireInvParts ==
    ASSUME original' \in Messages, place' \in Places, FieldsOK(json)',
           (place = "running" => Settled(json))',
           (Stored => PlaceOK(json, place))', ParsedOK'
    PROVE  WireInv'
  BY DEF WireInv

\* kPromoteDueTasksScript.
LEMMA PromoteStep ==
    ASSUME WireInv, Promote
    PROVE  WireInv'
  <1> DEFINE j == [json EXCEPT !.run_at_ms = Null, !.status = String("pending")]
  <1>1. /\ original \in Messages /\ FieldsOK(json) /\ PlaceOK(json, "delayed")
        /\ parsed = Null
    BY DEF WireInv, Promote, Stored, ParsedOK
  <1>2. /\ j = [f \in FieldNames |-> j[f]]
        /\ \A f \in FieldNames \ {"run_at_ms", "status"} : j[f] = json[f]
        /\ j.run_at_ms = Null /\ j.status = String("pending")
    BY <1>1 DEF FieldsOK, FieldNames
  <1>3. Store(j, "pending") /\ parsed' = parsed
    BY DEF Promote
  <1> HIDE DEF j
  <1>4. FieldsOK(j)
    BY <1>1, <1>2, EditKeepsFields DEF FieldNames
  <1>5. PlaceOK(j, "pending")
    <2>1. j.reserved_at_ms = json.reserved_at_ms
      BY <1>2 DEF FieldNames
    <2> QED BY <1>1, <1>2, <2>1 DEF PlaceOK
  <1>6. "pending" \in Places /\ "dropped" \in Places
    BY DEF Places
  <1>7. place' \in {"pending", "dropped"}
    BY <1>3, <1>4, <1>5, <1>6, StoreStep
  <1>8. ParsedOK'
    BY <1>1, <1>3, <1>7 DEF ParsedOK
  <1> QED BY <1>3, <1>4, <1>5, <1>6, <1>7, <1>8, StoreStep, WireInvParts

\* kReserveScript, and the parse of the message that it returns.
LEMMA ReserveStep ==
    ASSUME WireInv, Reserve
    PROVE  WireInv'
  <1> DEFINE j == [json EXCEPT !.status = String("running"),
                               !.reserved_at_ms = Integer(NowMs)]
  <1>1. original \in Messages /\ FieldsOK(json) /\ PlaceOK(json, "pending")
    BY DEF WireInv, Reserve, Stored
  <1>2. /\ j = [f \in FieldNames |-> j[f]]
        /\ \A f \in FieldNames \ {"reserved_at_ms", "status"} : j[f] = json[f]
        /\ j.reserved_at_ms = Integer(NowMs) /\ j.status = String("running")
    BY <1>1 DEF FieldsOK, FieldNames
  <1>3. /\ Store(j, "running")
        /\ parsed' = IF Decodes(json) /\ Parses(json') THEN FromJson(json') ELSE Null
    BY DEF Reserve
  <1> HIDE DEF j
  <1>4. FieldsOK(j)
    BY <1>1, <1>2, EditKeepsFields DEF FieldNames
  <1>5. PlaceOK(j, "running")
    <2>1. j.run_at_ms = json.run_at_ms
      BY <1>2 DEF FieldNames
    <2> QED BY <1>1, <1>2, <2>1 DEF PlaceOK
  <1>6. "running" \in Places /\ "dropped" \in Places
    BY DEF Places
  <1>7. place' = IF Decodes(json) THEN "running" ELSE "dropped"
    <2>1. j.payload = json.payload
      BY <1>2 DEF FieldNames
    <2>2. Decodes(j) <=> Decodes(json)
      BY <2>1 DEF Decodes
    <2> QED BY <1>3, <1>4, <1>5, <1>6, <2>2, StoreStep
  <1>8. ParsedOK'
    <2>1. Parses(json)' <=> Parses(json')
      BY DEF Parses
    <2>2. FromJson(json)' = FromJson(json')
      BY DEF FromJson
    <2> QED BY <1>3, <1>7, <2>1, <2>2 DEF ParsedOK
  <1> QED BY <1>3, <1>4, <1>5, <1>6, <1>7, <1>8, StoreStep, WireInvParts

\* kReclaimOneScript.
LEMMA ReclaimStep ==
    ASSUME WireInv, Reclaim
    PROVE  WireInv'
  <1> DEFINE j == [json EXCEPT !.reserved_at_ms = Null, !.status = String("pending")]
  <1>1. original \in Messages /\ FieldsOK(json) /\ PlaceOK(json, "running")
    BY DEF WireInv, Reclaim, Stored
  <1>2. /\ j = [f \in FieldNames |-> j[f]]
        /\ \A f \in FieldNames \ {"reserved_at_ms", "status"} : j[f] = json[f]
        /\ j.reserved_at_ms = Null /\ j.status = String("pending")
    BY <1>1 DEF FieldsOK, FieldNames
  <1>3. Store(j, "pending") /\ parsed' = Null
    BY DEF Reclaim
  <1> HIDE DEF j
  <1>4. FieldsOK(j)
    BY <1>1, <1>2, EditKeepsFields DEF FieldNames
  <1>5. PlaceOK(j, "pending")
    <2>1. j.run_at_ms = json.run_at_ms
      BY <1>2 DEF FieldNames
    <2> QED BY <1>1, <1>2, <2>1 DEF PlaceOK
  <1>6. "pending" \in Places /\ "dropped" \in Places
    BY DEF Places
  <1>7. place' \in {"pending", "dropped"}
    BY <1>3, <1>4, <1>5, <1>6, StoreStep
  <1>8. ParsedOK'
    BY <1>3, <1>7 DEF ParsedOK
  <1> QED BY <1>3, <1>4, <1>5, <1>6, <1>7, <1>8, StoreStep, WireInvParts

\* kAckScript: the message is gone.
LEMMA AckStep ==
    ASSUME WireInv, Ack
    PROVE  WireInv'
  <1>1. /\ original' = original /\ json' = json /\ place' = "succeeded"
        /\ parsed' = Null
    BY DEF Ack
  <1>2. original \in Messages /\ FieldsOK(json)
    BY DEF WireInv
  <1>3. FieldsOK(json)'
    BY <1>1, <1>2 DEF FieldsOK, BaseDelayOK
  <1>4. ~Stored' /\ place' \in Places
    BY <1>1 DEF Stored, Places
  <1>5. ParsedOK'
    BY <1>1 DEF ParsedOK
  <1> QED BY <1>1, <1>2, <1>3, <1>4, <1>5, WireInvParts

\* kFailScript.
LEMMA FailStep ==
    ASSUME WireInv, Fail
    PROVE  WireInv'
  <1> DEFINE j == [json EXCEPT !.status = String("dead"),
                               !.last_error = String("error")]
  <1>1. original \in Messages /\ FieldsOK(json) /\ PlaceOK(json, "running")
    BY DEF WireInv, Fail, Stored
  <1>2. /\ j = [f \in FieldNames |-> j[f]]
        /\ \A f \in FieldNames \ {"last_error", "status"} : j[f] = json[f]
        /\ j.last_error = String("error") /\ j.status = String("dead")
    BY <1>1 DEF FieldsOK, FieldNames
  <1>3. Store(j, "dead") /\ parsed' = Null
    BY DEF Fail
  <1> HIDE DEF j
  <1>4. FieldsOK(j)
    BY <1>1, <1>2, EditKeepsFields DEF FieldNames
  <1>5. PlaceOK(j, "dead")
    <2>1. j.run_at_ms = json.run_at_ms /\ j.reserved_at_ms = json.reserved_at_ms
      BY <1>2 DEF FieldNames
    <2> QED BY <1>1, <1>2, <2>1 DEF PlaceOK
  <1>6. "dead" \in Places /\ "dropped" \in Places
    BY DEF Places
  <1>7. place' \in {"dead", "dropped"}
    BY <1>3, <1>4, <1>5, <1>6, StoreStep
  <1>8. ParsedOK'
    BY <1>3, <1>7 DEF ParsedOK
  <1> QED BY <1>3, <1>4, <1>5, <1>6, <1>7, <1>8, StoreStep, WireInvParts

\* kRetryDeadTaskScript.
LEMMA RetryDeadTaskStep ==
    ASSUME WireInv, RetryDeadTask
    PROVE  WireInv'
  <1> DEFINE j == [json EXCEPT !.status = String("pending"),
                               !.retry_count = Integer(0), !.last_error = Null,
                               !.run_at_ms = Null, !.reserved_at_ms = Null]
             edited == {"status", "retry_count", "last_error", "run_at_ms",
                        "reserved_at_ms"}
  <1>1. original \in Messages /\ FieldsOK(json) /\ parsed = Null
    BY DEF WireInv, RetryDeadTask, ParsedOK
  <1>2. /\ j = [f \in FieldNames |-> j[f]]
        /\ \A f \in FieldNames \ edited : j[f] = json[f]
        /\ j.status = String("pending") /\ j.retry_count = Integer(0)
        /\ j.last_error = Null /\ j.run_at_ms = Null /\ j.reserved_at_ms = Null
    BY <1>1 DEF FieldsOK, FieldNames
  <1>3. Store(j, "pending") /\ parsed' = parsed
    BY DEF RetryDeadTask
  <1> HIDE DEF j
  <1>4. FieldsOK(j)
    BY <1>1, <1>2, EditKeepsFields DEF FieldNames
  <1>5. PlaceOK(j, "pending")
    BY <1>2 DEF PlaceOK
  <1>6. "pending" \in Places /\ "dropped" \in Places
    BY DEF Places
  <1>7. place' \in {"pending", "dropped"}
    BY <1>3, <1>4, <1>5, <1>6, StoreStep
  <1>8. ParsedOK'
    BY <1>1, <1>3, <1>7 DEF ParsedOK
  <1> QED BY <1>3, <1>4, <1>5, <1>6, <1>7, <1>8, StoreStep, WireInvParts

-----------------------------------------------------------------------------
(* Backoff.                                                                *)

\* What \div computes.
LEMMA DivFacts ==
    ASSUME NEW num \in Nat, NEW den \in Nat \ {0}
    PROVE  /\ num \div den \in Nat
           /\ (num \div den) * den <= num
           /\ num < (num \div den + 1) * den
  BY SMTT(60)

\* A common factor of two products, the denominator of two fractions.
LEMMA Cancel ==
    ASSUME NEW x \in Int, NEW y \in Int, NEW d \in Nat \ {0}, x * d < y * d
    PROVE  x < y
  BY SMTT(60)

\* When a quotient is multiplied by a / c, its integral part is too, but for
\* what the two cuts take away.
LEMMA CutsGrow ==
    ASSUME NEW N \in Nat, NEW D \in Nat \ {0}, NEW a \in Nat, NEW c \in Nat \ {0},
           NEW q \in Nat, NEW r \in Nat,
           q * D <= N, N < (q + 1) * D, r * (D * c) <= N * a, N * a < (r + 1) * (D * c)
    PROVE  a * q < c * (r + 1) /\ c * r <= a * (q + 1)
  <1>1. (a * q) * D <= N * a
    <2>1. (q * D) * a <= N * a
      BY SMTT(60)
    <2> QED BY <2>1, SMTT(60)
  <1>2. (a * q) * D < (c * (r + 1)) * D
    BY <1>1, SMTT(60)
  <1>3. N * a <= (a * (q + 1)) * D
    <2>1. N * a <= ((q + 1) * D) * a
      BY SMTT(60)
    <2> QED BY <2>1, SMTT(60)
  <1>4. (c * r) * D < (a * (q + 1) + 1) * D
    BY <1>3, SMTT(60)
  <1>5. a * q < c * (r + 1)
    BY <1>2, Cancel, SMTT(60)
  <1>6. c * r < a * (q + 1) + 1
    BY <1>4, Cancel, SMTT(60)
  <1> QED BY <1>5, <1>6, SMTT(60)

\* The cast of a computed double: exact while the exact value is a double, and
\* off by at most one while either of the two is small.
LEMMA TruncatedFacts ==
    ASSUME NEW num \in Nat, NEW den \in Nat \ {0},
           NEW d \in Policy!Truncated(num, den)
    PROVE  LET q == num \div den IN
           /\ d \in Int /\ d <= MaxInt
           /\ num <= Precision => d = q
           /\ 0 <= d /\ 8 * (d + 2) < Precision => q - 1 <= d /\ d <= q + 1
           /\ 8 * (q + 2) < Precision => 0 <= d /\ q - 1 <= d /\ d <= q + 1
  <1> DEFINE q == num \div den
             e == (4 * (q + 1)) \div Precision
             off == Policy!Off(num, den)
  <1>1. q \in Nat /\ q * den <= num
    BY DivFacts
  <1>2. q <= num
    <2> HIDE DEF q
    <2> QED BY <1>1, SMTT(60)
  <1>3. off = IF num <= Precision THEN 0 ELSE e + 1
    BY DEF Policy!Off
  <1>4. e \in Nat /\ e * Precision <= 4 * (q + 1)
    <2> HIDE DEF q
    <2>1. 4 * (q + 1) \in Nat /\ Precision \in Nat \ {0}
      BY <1>1, WireAssumption, SMTT(60)
    <2> QED BY <2>1, DivFacts
  <1>5. PICK x \in (q - off)..(q + off) : x >= 0 /\ d \in Policy!Int64(x)
    BY DEF Policy!Truncated
  <1> HIDE DEF q, e, off
  <1>6. off \in Nat /\ off <= e + 1 /\ x \in Int /\ q - off <= x /\ x <= q + off
    BY <1>1, <1>3, <1>4, <1>5, SMTT(60)
  <1>7. \/ d = x /\ x <= MaxInt
        \/ x > MaxInt /\ d \in {-MaxInt - 1, MaxInt}
    BY <1>5, <1>6, WireAssumption, SMTT(60) DEF Policy!Int64
  <1>8. d \in Int /\ d <= MaxInt
    BY <1>6, <1>7, WireAssumption, SMTT(60)
  <1>9. ASSUME num <= Precision
        PROVE  d = q
    BY <1>1, <1>2, <1>3, <1>6, <1>7, <1>9, WireAssumption, SMTT(60)
  <1>10. ASSUME 0 <= d, 8 * (d + 2) < Precision
         PROVE  q - 1 <= d /\ d <= q + 1
    <2>1. d = x
      BY <1>6, <1>7, <1>8, <1>10, WireAssumption, SMTT(60)
    <2>2. ASSUME e >= 1
          PROVE  FALSE
      <3>1. e * (Precision - 4) <= 4 * (d + 2)
        <4>1. e * Precision <= 4 * (d + e + 2)
          BY <1>1, <1>4, <1>6, <1>8, <2>1, WireAssumption, SMTT(60)
        <4> QED BY <1>4, <1>8, <4>1, WireAssumption, SMTT(60)
      <3>2. Precision - 4 <= e * (Precision - 4)
        BY <1>4, <2>2, WireAssumption, SMTT(60)
      <3> QED BY <1>4, <1>8, <1>10, <3>1, <3>2, WireAssumption, SMTT(60)
    <2> QED BY <1>1, <1>4, <1>6, <2>1, <2>2, SMTT(60)
  <1>11. ASSUME 8 * (q + 2) < Precision
         PROVE  0 <= d /\ q - 1 <= d /\ d <= q + 1
    <2>1. ~(e >= 1)
      <3>1. e >= 1 => Precision <= e * Precision
        BY <1>4, WireAssumption, SMTT(60)
      <3> QED BY <1>1, <1>4, <1>11, <3>1, WireAssumption, SMTT(60)
    <2> QED BY <1>1, <1>4, <1>5, <1>6, <1>7, <1>11, <2>1, WireAssumption, SMTT(60)
  <1> QED BY <1>8, <1>9, <1>10, <1>11 DEF q

\* What ComputeRetryDelayMs computes for the n-th retry, and the powers in it.
LEMMA DelayFacts ==
    ASSUME original \in Messages, NEW n \in 1..original.policy.max_retries
    PROVE  LET b == original.policy.base_delay_ms
               m == Rounded(original.policy.multiplier)
               A(i) == Policy!Pow(m.num, i)
               C(i) == Policy!Pow(m.den, i) IN
           /\ b \in Nat /\ m.num \in Nat /\ m.den \in Nat \ {0}
           /\ n \in Nat /\ n >= 1
           /\ A(n - 1) \in Nat /\ C(n - 1) \in Nat \ {0}
           /\ A(n) = m.num * A(n - 1) /\ C(n) = m.den * C(n - 1)
           /\ n = 1 => A(n - 1) = 1 /\ C(n - 1) = 1
           /\ m.den = 1 => C(n - 1) = 1
           /\ Delays(WorkerPolicy, n) =
                  IF A(n - 1) > MaxDouble * C(n - 1)
                  THEN {-MaxInt - 1, IF b = 0 THEN 0 ELSE MaxInt}
                  ELSE Policy!Truncated(b * A(n - 1), C(n - 1))
  <1> DEFINE b == original.policy.base_delay_ms
             m == Rounded(original.policy.multiplier)
             limit == original.policy.max_retries
             A(i) == Policy!Pow(m.num, i)
             C(i) == Policy!Pow(m.den, i)
  <1>1. /\ b \in Nat /\ limit \in 0..MaxExact /\ limit \in RetryLimits
        /\ original.policy.multiplier \in Known
        /\ m \in {Rounded(x) : x \in Multipliers}
    BY OriginalFacts
  <1>2. m \in Policy!Fractions
    BY <1>1, RoundedIsPrintable
  <1>3. m.num \in Nat /\ m.den \in Nat \ {0}
    BY <1>2 DEF Policy!Fractions
  <1>4. \A i \in 0..limit :
            /\ A(i) \in Nat /\ C(i) \in Nat
            /\ m.den > 0 => C(i) > 0
            /\ m.den = 1 => C(i) = 1
            /\ A(i + 1) = m.num * A(i) /\ C(i + 1) = m.den * C(i)
    BY <1>1, PowAssumption
  <1>5. A(0) = 1 /\ C(0) = 1
    BY DEF Policy!Pow
  <1>6. Delays(WorkerPolicy, n) =
            IF n <= 0 THEN {b}
            ELSE IF A(n - 1) > MaxDouble * C(n - 1)
            THEN {-MaxInt - 1, IF b = 0 THEN 0 ELSE MaxInt}
            ELSE Policy!Truncated(b * A(n - 1), C(n - 1))
    BY WorkerPolicyFacts DEF Delays, Policy!ComputeRetryDelayMs, Policy!Backoff
  <1> HIDE DEF b, m, A, C
  <1>7. /\ n \in Nat /\ n >= 1 /\ n - 1 \in 0..limit /\ (n - 1) + 1 = n
        /\ ~(n <= 0) /\ (n = 1 => n - 1 = 0)
    BY <1>1, WireAssumption, SMTT(60)
  <1>8. /\ A(n - 1) \in Nat /\ C(n - 1) \in Nat
        /\ m.den > 0 => C(n - 1) > 0
        /\ m.den = 1 => C(n - 1) = 1
        /\ A(n) = m.num * A(n - 1) /\ C(n) = m.den * C(n - 1)
    BY <1>4, <1>7
  <1>9. C(n - 1) \in Nat \ {0}
    BY <1>3, <1>8, SMTT(60)
  <1>10. n = 1 => A(n - 1) = 1 /\ C(n - 1) = 1
    BY <1>5, <1>7
  <1> QED BY <1>1, <1>3, <1>6, <1>7, <1>8, <1>9, <1>10 DEF b, m, A, C

\* A delay is an int64.
LEMMA DelayRange ==
    ASSUME original \in Messages, NEW n \in 1..original.policy.max_retries,
           NEW d \in Delays(WorkerPolicy, n)
    PROVE  d \in Int /\ d <= MaxInt
  <1> DEFINE b == original.policy.base_delay_ms
             m == Rounded(original.policy.multiplier)
             A == Policy!Pow(m.num, n - 1)
             C == Policy!Pow(m.den, n - 1)
  <1>1. /\ b \in Nat /\ A \in Nat /\ C \in Nat \ {0}
        /\ Delays(WorkerPolicy, n) =
               IF A > MaxDouble * C THEN {-MaxInt - 1, IF b = 0 THEN 0 ELSE MaxInt}
               ELSE Policy!Truncated(b * A, C)
    BY DelayFacts
  <1> HIDE DEF b, m, A, C
  <1>2. CASE A > MaxDouble * C
    <2>1. d \in {-MaxInt - 1, 0, MaxInt}
      BY <1>1, <1>2
    <2> QED BY <2>1, WireAssumption, SMTT(60)
  <1>3. CASE ~(A > MaxDouble * C)
    <2>1. b * A \in Nat /\ d \in Policy!Truncated(b * A, C)
      BY <1>1, <1>3, SMTT(60)
    <2> QED BY <1>1, <2>1, TruncatedFacts
  <1> QED BY <1>2, <1>3

\* The first delay, and every delay of a policy with a base delay of zero.
LEMMA FirstDelay ==
    ASSUME original \in Messages, NEW n \in 1..original.policy.max_retries,
           NEW d \in Delays(WorkerPolicy, n),
           original.policy.base_delay_ms <= MaxExact
    PROVE  /\ n = 1 => d = original.policy.base_delay_ms
           /\ original.policy.base_delay_ms = 0 => d <= 0
  <1> DEFINE b == original.policy.base_delay_ms
             m == Rounded(original.policy.multiplier)
             A == Policy!Pow(m.num, n - 1)
             C == Policy!Pow(m.den, n - 1)
  <1>1. /\ b \in Nat /\ A \in Nat /\ C \in Nat \ {0}
        /\ n = 1 => A = 1 /\ C = 1
        /\ Delays(WorkerPolicy, n) =
               IF A > MaxDouble * C THEN {-MaxInt - 1, IF b = 0 THEN 0 ELSE MaxInt}
               ELSE Policy!Truncated(b * A, C)
    BY DelayFacts
  <1>2. b <= MaxExact
    OBVIOUS
  <1> HIDE DEF b, m, A, C
  <1>3. ASSUME n = 1
        PROVE  d = b
    <2>1. ~(A > MaxDouble * C) /\ b * A = b /\ C = 1 /\ b <= Precision
      BY <1>1, <1>2, <1>3, WireAssumption, SMTT(60)
    <2>2. d \in Policy!Truncated(b, C)
      BY <1>1, <2>1
    <2>3. d = b \div C
      BY <1>1, <2>1, <2>2, TruncatedFacts
    <2> QED BY <1>1, <2>1, <2>3, SMTT(60)
  <1>4. ASSUME b = 0
        PROVE  d <= 0
    <2>1. CASE A > MaxDouble * C
      <3>1. d \in {-MaxInt - 1, 0}
        BY <1>1, <1>4, <2>1
      <3> QED BY <3>1, WireAssumption, SMTT(60)
    <2>2. CASE ~(A > MaxDouble * C)
      <3>1. b * A = 0 /\ 0 <= Precision /\ 0 \in Nat
        BY <1>1, <1>4, WireAssumption, SMTT(60)
      <3>2. d \in Policy!Truncated(0, C)
        BY <1>1, <2>2, <3>1
      <3>3. d = 0 \div C
        BY <1>1, <3>1, <3>2, TruncatedFacts
      <3>4. (0 \div C) * C <= 0 /\ 0 \div C \in Nat
        BY <1>1, <3>1, DivFacts
      <3> QED BY <1>1, <3>3, <3>4, SMTT(60)
    <2> QED BY <2>1, <2>2
  <1> QED BY <1>3, <1>4 DEF b

\* Each further delay, as it is waited for.
LEMMA NextDelay ==
    ASSUME original \in Messages, NEW n \in 1..original.policy.max_retries,
           n + 1 \in 1..original.policy.max_retries,
           original.policy.base_delay_ms <= MaxExact,
           original.policy.base_delay_ms > 0,
           NEW d \in Delays(WorkerPolicy, n), NEW e \in Delays(WorkerPolicy, n + 1)
    PROVE  LET m == Rounded(original.policy.multiplier)
               w == Sum64(NowMs, d) - NowMs
               v == Sum64(NowMs, e) - NowMs
               exact == original.policy.base_delay_ms * Policy!Pow(m.num, n)
                            <= Precision IN
           /\ exact => Multiplied(w, v, m, 0)
           /\ exact /\ m.den = 1 => v = m.num * w
           /\ w >= 0 /\ Small(w, 1) /\ Small(m.num * (w + 2), m.den) =>
                  Multiplied(w, v, m, 1)
  <1> DEFINE b == original.policy.base_delay_ms
             m == Rounded(original.policy.multiplier)
             a == m.num
             c == m.den
             A == Policy!Pow(a, n - 1)
             C == Policy!Pow(c, n - 1)
             A2 == Policy!Pow(a, n)
             C2 == Policy!Pow(c, n)
             w == Sum64(NowMs, d) - NowMs
             v == Sum64(NowMs, e) - NowMs
  <1>1. /\ b \in Nat /\ a \in Nat /\ c \in Nat \ {0}
        /\ n \in Nat /\ n >= 1
        /\ A \in Nat /\ C \in Nat \ {0}
        /\ A2 = a * A /\ C2 = c * C
        /\ n = 1 => A = 1 /\ C = 1
        /\ c = 1 => C = 1
        /\ Delays(WorkerPolicy, n) =
               IF A > MaxDouble * C THEN {-MaxInt - 1, IF b = 0 THEN 0 ELSE MaxInt}
               ELSE Policy!Truncated(b * A, C)
    BY DelayFacts
  <1>2. /\ n > 1 => A = a * Policy!Pow(a, (n - 1) - 1)
        /\ n > 1 => Policy!Pow(a, (n - 1) - 1) \in Nat
    <2>1. original.policy.max_retries \in Nat
      BY OriginalFacts, WireAssumption, SMTT(60)
    <2>2. n > 1 => n - 1 \in 1..original.policy.max_retries
      BY <2>1, SMTT(60)
    <2> QED BY <2>2, DelayFacts
  <1>3. /\ (n + 1) - 1 = n
        /\ Delays(WorkerPolicy, n + 1) =
               IF A2 > MaxDouble * C2
               THEN {-MaxInt - 1, IF b = 0 THEN 0 ELSE MaxInt}
               ELSE Policy!Truncated(b * A2, C2)
    <2>1. (n + 1) - 1 = n
      BY <1>1, SMTT(60)
    <2> QED BY <2>1, DelayFacts
  <1>4. b > 0 /\ b <= MaxExact /\ d \in Int /\ d <= MaxInt /\ e \in Int /\ e <= MaxInt
    BY DelayRange
  <1>5. a = m.num /\ c = m.den
    OBVIOUS
  <1> HIDE DEF b, a, c, m, A, C, A2, C2
  <1> DEFINE N == b * A
             N2 == b * A2
             q == N \div C
             r == N2 \div C2
  <1>6. N \in Nat /\ N2 \in Nat /\ C2 \in Nat \ {0} /\ A2 \in Nat /\ N2 = N * a
        /\ A <= N /\ A2 <= N2 /\ C2 = C * c
    <2>1. C2 \in Nat \ {0} /\ A2 \in Nat /\ C2 = C * c
      BY <1>1, SMTT(60)
    <2>2. b * (a * A) = (b * A) * a
      BY <1>1, SMTT(60)
    <2>3. A <= b * A /\ A2 <= b * A2
      BY <1>1, <1>4, <2>1, SMTT(60)
    <2>4. b * A \in Nat /\ b * A2 \in Nat
      BY <1>1, <2>1, SMTT(60)
    <2> QED BY <1>1, <2>1, <2>2, <2>3, <2>4
  <1>7. /\ q \in Nat /\ q * C <= N /\ N < (q + 1) * C
        /\ r \in Nat /\ r * C2 <= N2 /\ N2 < (r + 1) * C2
    <2> HIDE DEF N, N2
    <2> QED BY <1>1, <1>6, DivFacts
  <1> HIDE DEF N, N2, q, r
  <1>8. a * q < c * (r + 1) /\ c * r <= a * (q + 1)
    BY <1>1, <1>6, <1>7, CutsGrow
  <1>9. w = (IF 1 + d <= MaxInt THEN d ELSE d - 2 * (MaxInt + 1))
        /\ v = (IF 1 + e <= MaxInt THEN e ELSE e - 2 * (MaxInt + 1))
    BY <1>4, WireAssumption, SMTT(60) DEF Sum64, NowMs
  <1> HIDE DEF w, v
  <1>10. ASSUME N2 <= Precision
         PROVE  w = q /\ v = r
    <2>1. N <= Precision
      <3>1. CASE a > 0
        BY <1>1, <1>6, <1>10, <3>1, WireAssumption, SMTT(60)
      <3>2. CASE a = 0 /\ n = 1
        BY <1>1, <1>4, <3>2, WireAssumption, SMTT(60) DEF N
      <3>3. CASE a = 0 /\ n > 1
        <4>1. A = 0
          BY <1>2, <3>3, SMTT(60)
        <4> QED BY <1>1, <4>1, WireAssumption, SMTT(60) DEF N
      <3> QED BY <1>1, <3>1, <3>2, <3>3, SMTT(60)
    <2>2. MaxDouble <= MaxDouble * C /\ MaxDouble <= MaxDouble * C2
      BY <1>1, <1>6, WireAssumption, SMTT(60)
    <2>3. MaxDouble * C \in Nat /\ MaxDouble * C2 \in Nat
      BY <1>1, <1>6, WireAssumption, SMTT(60)
    <2>4. ~(A > MaxDouble * C) /\ ~(A2 > MaxDouble * C2)
      BY <1>1, <1>6, <1>10, <2>1, <2>2, <2>3, WireAssumption, SMTT(60)
    <2>5. d \in Policy!Truncated(N, C) /\ e \in Policy!Truncated(N2, C2)
      BY <1>1, <1>3, <2>4 DEF N, N2
    <2>6. d = q /\ e = r
      BY <1>1, <1>6, <1>10, <2>1, <2>5, TruncatedFacts DEF q, r
    <2>7. q <= N /\ r <= N2
      BY <1>1, <1>6, <1>7, SMTT(60)
    <2> QED BY <1>6, <1>7, <1>9, <1>10, <2>1, <2>6, <2>7, WireAssumption, SMTT(60)
  <1>11. ASSUME N2 <= Precision
         PROVE  Multiplied(w, v, m, 0) /\ (c = 1 => v = a * w)
    <2>1. a * (q - 0) < c * (r + 1 + 0) /\ c * (r - 0) <= a * (q + 1 + 0)
      BY <1>1, <1>7, <1>8, SMTT(60)
    <2>2. ASSUME c = 1
          PROVE  r = a * q
      <3>1. C = 1 /\ C2 = 1
        BY <1>1, <1>6, <2>2, SMTT(60)
      <3>2. q = N /\ r = N2
        BY <1>6, <1>7, <3>1, SMTT(60)
      <3> QED BY <1>1, <1>6, <3>2, SMTT(60)
    <2> QED BY <1>5, <1>10, <1>11, <2>1, <2>2 DEF Multiplied
  <1>12. ASSUME w >= 0, Small(w, 1), Small(a * (w + 2), c)
         PROVE  Multiplied(w, v, m, 1)
    <2>1. /\ w = d /\ 0 <= d /\ 8 * (d + 2) < Precision
          /\ 8 * (a * (d + 2) + 2 * c) < c * Precision
      <3>1. w = d
        BY <1>4, <1>9, <1>12, WireAssumption, SMTT(60)
      <3> QED BY <1>1, <1>4, <1>12, <3>1, WireAssumption, SMTT(60) DEF Small
    <2>2. d \in Policy!Truncated(N, C)
      <3>1. d \notin {-MaxInt - 1, MaxInt} /\ b # 0
        BY <1>1, <1>4, <2>1, WireAssumption, SMTT(60)
      <3> QED BY <1>1, <3>1 DEF N
    <2>3. q - 1 <= d /\ d <= q + 1
      BY <1>1, <1>6, <2>1, <2>2, TruncatedFacts DEF q
    <2>4. c * r <= a * (d + 2)
      <3>1. a * (q + 1) <= a * (d + 2)
        BY <1>1, <1>4, <1>7, <2>3, SMTT(60)
      <3> QED BY <1>1, <1>4, <1>7, <1>8, <3>1, SMTT(60)
    <2>5. 8 * (r + 2) < Precision
      <3>1. (8 * (r + 2)) * c < Precision * c
        BY <1>1, <1>4, <1>7, <2>1, <2>4, WireAssumption, SMTT(60)
      <3> QED BY <1>1, <1>7, <3>1, WireAssumption, Cancel, SMTT(60)
    <2>6. ~(A2 > MaxDouble * C2)
      <3>1. (r + 1) * C2 <= MaxDouble * C2
        BY <1>6, <1>7, <2>5, WireAssumption, SMTT(60)
      <3> QED BY <1>6, <1>7, <3>1, WireAssumption, SMTT(60)
    <2>7. e \in Policy!Truncated(N2, C2)
      BY <1>3, <2>6 DEF N2
    <2>8. 0 <= e /\ r - 1 <= e /\ e <= r + 1
      BY <1>6, <2>5, <2>7, TruncatedFacts DEF r
    <2>9. v = e
      BY <1>4, <1>7, <1>9, <2>5, <2>8, WireAssumption, SMTT(60)
    <2>10. a * (d - 1) < c * (e + 1 + 1)
      <3>1. a * (d - 1) <= a * q
        BY <1>1, <1>4, <1>7, <2>3, SMTT(60)
      <3>2. c * (r + 1) <= c * (e + 1 + 1)
        BY <1>1, <1>4, <1>7, <2>8, SMTT(60)
      <3> QED BY <1>1, <1>4, <1>7, <1>8, <3>1, <3>2, SMTT(60)
    <2>11. c * (e - 1) <= a * (d + 1 + 1)
      <3>1. c * (e - 1) <= c * r
        BY <1>1, <1>4, <1>7, <2>8, SMTT(60)
      <3>2. d + 1 + 1 = d + 2
        BY <1>4, SMTT(60)
      <3> QED BY <1>1, <1>4, <1>7, <2>4, <3>1, <3>2, SMTT(60)
    <2> QED BY <1>5, <2>1, <2>9, <2>10, <2>11 DEF Multiplied
  <1> QED BY <1>5, <1>11, <1>12 DEF w, v, m, b, a, c, A2, N2

\* The fields that ToJson writes.
LEMMA ToJsonFields ==
    ASSUME NEW m
    PROVE  /\ ToJson(m) = [f \in FieldNames |-> ToJson(m)[f]]
           /\ ToJson(m).schema_version = Integer(1)
           /\ ToJson(m).payload = m.payload
           /\ ToJson(m).retry_count = Integer(m.retry_count)
           /\ ToJson(m).max_retries = Integer(m.policy.max_retries)
           /\ ToJson(m).base_delay_ms = Integer(m.policy.base_delay_ms)
           /\ ToJson(m).multiplier = Float(m.policy.multiplier)
           /\ ToJson(m).run_at_ms =
                  IF m.run_at = Null THEN Null ELSE Integer(m.run_at)
           /\ ToJson(m).reserved_at_ms =
                  IF m.reserved_at = Null THEN Null ELSE Integer(m.reserved_at)
           /\ ToJson(m).status = String(m.status)
           /\ ToJson(m).last_error =
                  IF m.last_error = "" THEN Null ELSE String(m.last_error)
  <1>1. ToJson(m) = [f \in FieldNames |-> ToJson(m)[f]]
    BY DEF ToJson, FieldNames
  <1> QED BY <1>1 DEF ToJson

\* What a worker holds, by the invariant.
LEMMA HeldFacts ==
    ASSUME WireInv, parsed # Null
    PROVE  /\ place = "running" /\ original \in Messages
           /\ FieldsOK(json) /\ Settled(json) /\ PlaceOK(json, "running")
           /\ parsed = FromJson(json)
           /\ json.base_delay_ms = Integer(original.policy.base_delay_ms)
           /\ original.policy.base_delay_ms <= MaxExact
           /\ json.retry_count = Integer(parsed.retry_count)
  <1>1. /\ place = "running" /\ original \in Messages /\ FieldsOK(json)
        /\ parsed = FromJson(json) /\ Parses(json)
    BY DEF WireInv, ParsedOK
  <1>2. PlaceOK(json, "running") /\ Settled(json)
    BY <1>1 DEF WireInv, Stored
  <1>3. json.base_delay_ms = Integer(original.policy.base_delay_ms)
    BY <1>1, <1>2, ParsesUnlessLong DEF Places
  <1>4. json.retry_count = Integer(parsed.retry_count)
    <2>1. PICK n \in 0..original.policy.max_retries : json.retry_count = Integer(n)
      BY <1>1 DEF FieldsOK
    <2>2. parsed.retry_count = json.retry_count.value
      BY <1>1 DEF FromJson
    <2> QED BY <2>1, <2>2, ValuesAreKept
  <1>5. original.policy.base_delay_ms <= MaxExact
    <2> DEFINE b == original.policy.base_delay_ms
    <2>1. b \in Nat /\ b \in Numbers /\ CjsonNumber(Whole(b)) = Integer(b)
      BY <1>1, <1>2, <1>3, OriginalFacts DEF Settled
    <2>2. Integer(b) # Float(Rounded(Whole(b)))
      <3>1. Integer(b).type # Float(Rounded(Whole(b))).type
        BY ValuesAreKept
      <3> QED BY <3>1
    <2>3. b <= MaxExact \/ b > MaxExact
      BY <2>1, WireAssumption, SMTT(60)
    <2> QED BY <2>1, <2>2, <2>3, IntegerOrLonger
  <1> QED BY <1>1, <1>2, <1>3, <1>4, <1>5

\* RedisBroker::Retry writes the worker's message with one more retry.
LEMMA RetryStep ==
    ASSUME WireInv, Retry
    PROVE  /\ WireInv' /\ original' = original
           /\ parsed.retry_count + 1 \in 1..original.policy.max_retries
           /\ json'.retry_count = Integer(parsed.retry_count + 1)
           /\ \E d \in Delays(WorkerPolicy, parsed.retry_count + 1) :
                  waited' = Sum64(NowMs, d) - NowMs
  <1> DEFINE n == parsed.retry_count + 1
             p == original.policy
  <1>1. /\ parsed # Null /\ original' = original /\ place' = "delayed"
        /\ parsed' = Null /\ parsed.retry_count < parsed.policy.max_retries
    BY DEF Retry
  <1>2. /\ parsed = FromJson(json) /\ original \in Messages /\ FieldsOK(json)
        /\ Settled(json) /\ PlaceOK(json, "running")
        /\ json.base_delay_ms = Integer(p.base_delay_ms)
    BY <1>1, HeldFacts
  <1>3. /\ parsed.policy = WorkerPolicy
        /\ parsed.payload = CjsonPayload(original.payload)
        /\ parsed.retry_count \in 0..p.max_retries
        /\ WorkerPolicy.max_retries = p.max_retries
        /\ WorkerPolicy.base_delay_ms = p.base_delay_ms
        /\ WorkerPolicy.multiplier = Rounded(p.multiplier)
    BY <1>2, FromJsonFacts, WorkerPolicyFacts
  <1>4. p.max_retries \in 0..MaxExact
    BY <1>2, OriginalFacts
  <1>5. n \in 1..p.max_retries /\ n \in 0..p.max_retries /\ n # 0
    BY <1>1, <1>3, <1>4, WireAssumption, SMTT(60)
  <1>6. PICK d \in Delays(parsed.policy, n) :
           /\ json' = ToJson([parsed EXCEPT !.retry_count = @ + 1,
                                            !.last_error = "error",
                                            !.status = "retrying",
                                            !.reserved_at = Null,
                                            !.run_at = Sum64(NowMs, d)])
           /\ waited' = Sum64(NowMs, d) - NowMs
    BY DEF Retry, Delays
  <1> DEFINE m == [parsed EXCEPT !.retry_count = @ + 1, !.last_error = "error",
                                 !.status = "retrying", !.reserved_at = Null,
                                 !.run_at = Sum64(NowMs, d)]
  <1>7. /\ m.payload = CjsonPayload(original.payload)
        /\ m.policy = WorkerPolicy /\ m.retry_count = n
        /\ m.last_error = "error" /\ m.status = "retrying"
        /\ m.reserved_at = Null /\ m.run_at = Sum64(NowMs, d)
    BY <1>2, <1>3 DEF FromJson
  <1>8. Sum64(NowMs, d) \in Int /\ Sum64(NowMs, d) # Null
    <2>1. d \in Int
      BY <1>2, <1>3, <1>5, <1>6, DelayRange
    <2>2. Sum64(NowMs, d) \in Int
      BY <2>1, WireAssumption, SMTT(60) DEF Sum64, NowMs
    <2> QED BY <2>2, NullAssumption
  <1>9. json' = ToJson(m)
    BY <1>6
  <1> HIDE DEF m, n
  <1>10. FieldsOK(json')
    <2>1. m.payload \in {original.payload, CjsonPayload(original.payload)}
      BY <1>7
    <2>2. ToJson(m).last_error = String("error")
      <3>1. "error" # ""
        OBVIOUS
      <3> QED BY <1>7, <3>1, ToJsonFields
    <2>3. /\ ToJson(m) = [f \in FieldNames |-> ToJson(m)[f]]
          /\ ToJson(m).schema_version = Integer(1)
          /\ ToJson(m).payload = m.payload
          /\ ToJson(m).retry_count = Integer(m.retry_count)
          /\ ToJson(m).max_retries = Integer(m.policy.max_retries)
          /\ ToJson(m).base_delay_ms = Integer(m.policy.base_delay_ms)
          /\ ToJson(m).multiplier = Float(m.policy.multiplier)
      BY ToJsonFields
    <2>4. /\ ToJson(m).retry_count = Integer(n)
          /\ ToJson(m).max_retries = Integer(p.max_retries)
          /\ ToJson(m).base_delay_ms = Integer(p.base_delay_ms)
          /\ ToJson(m).multiplier = Float(Rounded(p.multiplier))
      BY <1>3, <1>7, <2>3
    <2> QED BY <1>5, <1>9, <2>1, <2>2, <2>3, <2>4 DEF FieldsOK, BaseDelayOK
  <1>11. PlaceOK(json', "delayed")
    <2>1. /\ ToJson(m).run_at_ms = Integer(m.run_at)
          /\ ToJson(m).reserved_at_ms = Null
          /\ ToJson(m).status = String("retrying")
          /\ ToJson(m).retry_count = Integer(n)
      BY <1>7, <1>8, ToJsonFields
    <2>2. IsInteger(Integer(m.run_at))
      BY <1>7, <1>8, ValuesArePresent DEF IsInteger, Integer
    <2>3. Integer(n) # Integer(0)
      <3>1. Integer(n).value = n /\ Integer(0).value = 0
        BY ValuesAreKept
      <3> QED BY <1>5, <3>1
    <2> QED BY <1>9, <2>1, <2>2, <2>3 DEF PlaceOK
  <1>12. json'.retry_count = Integer(n)
    BY <1>7, <1>9, ToJsonFields
  <1>13. WireInv'
    <2>1. FieldsOK(json)'
      BY <1>1, <1>10 DEF FieldsOK, BaseDelayOK
    <2>2. (Stored => PlaceOK(json, place))'
      BY <1>1, <1>11 DEF PlaceOK, IsInteger
    <2>3. ParsedOK' /\ place' \in Places /\ place' # "running"
      BY <1>1 DEF ParsedOK, Places
    <2> QED BY <1>1, <1>2, <2>1, <2>2, <2>3, WireInvParts
  <1> QED BY <1>1, <1>3, <1>5, <1>6, <1>12, <1>13 DEF n

-----------------------------------------------------------------------------
(* The theorems.                                                           *)

\* What Enqueue writes: the invariant holds.
LEMMA EnqueueEstablishes ==
    ASSUME Init
    PROVE  WireInv /\ WaitedOK
  <1> DEFINE t == ToJson(original)
             p == original.policy
  <1>1. /\ original \in Messages /\ parsed = Null /\ waited = Null
        /\ json = t \/ json = [t EXCEPT !.schema_version = Null]
        /\ place = IF original.run_at = Null THEN "pending" ELSE "delayed"
    BY DEF Init
  <1>2. /\ original.retry_count = 0 /\ original.reserved_at = Null
        /\ original.status = "pending" /\ original.last_error = ""
        /\ original.run_at \in Numbers \cup {Null}
    BY <1>1 DEF Messages
  <1>3. /\ t = [f \in FieldNames |-> t[f]]
        /\ t.schema_version = Integer(1) /\ t.payload = original.payload
        /\ t.retry_count = Integer(0) /\ t.max_retries = Integer(p.max_retries)
        /\ t.base_delay_ms = Integer(p.base_delay_ms)
        /\ t.multiplier = Float(p.multiplier)
        /\ t.reserved_at_ms = Null /\ t.status = String("pending")
        /\ t.last_error = Null
        /\ t.run_at_ms = IF original.run_at = Null THEN Null
                         ELSE Integer(original.run_at)
    BY <1>2, ToJsonFields
  <1> HIDE DEF t
  <1>4. /\ json = [f \in FieldNames |-> json[f]]
        /\ json.schema_version \in {Null, Integer(1)}
        /\ \A f \in FieldNames \ {"schema_version"} : json[f] = t[f]
    BY <1>1, <1>3 DEF FieldNames
  <1>5. /\ json.payload = t.payload /\ json.retry_count = t.retry_count
        /\ json.max_retries = t.max_retries
        /\ json.base_delay_ms = t.base_delay_ms
        /\ json.multiplier = t.multiplier /\ json.run_at_ms = t.run_at_ms
        /\ json.reserved_at_ms = t.reserved_at_ms
        /\ json.status = t.status /\ json.last_error = t.last_error
    BY <1>4 DEF FieldNames
  <1>6. 0 \in 0..p.max_retries /\ ~(0 > 0)
    BY <1>1, OriginalFacts, WireAssumption, SMTT(60)
  <1>7. FieldsOK(json)
    BY <1>3, <1>4, <1>5, <1>6 DEF FieldsOK, BaseDelayOK
  <1>8. PlaceOK(json, place)
    <2>1. CASE original.run_at = Null
      BY <1>1, <1>3, <1>5, <2>1 DEF PlaceOK
    <2>2. CASE original.run_at # Null
      <3>1. original.run_at \in Int
        <4>1. original.run_at \in Nat
          BY <1>2, <2>2, WireAssumption
        <4> QED BY <4>1, SMTT(60)
      <3>2. IsInteger(Integer(original.run_at))
        BY <3>1, ValuesArePresent DEF IsInteger, Integer
      <3> QED BY <1>1, <1>3, <1>5, <2>2, <3>2 DEF PlaceOK
    <2> QED BY <2>1, <2>2
  <1>9. ParsedOK /\ place \in Places
    BY <1>1 DEF ParsedOK, Places
  <1>10. WireInv
    BY <1>1, <1>7, <1>8, <1>9 DEF WireInv
  <1>11. WaitedOK
    BY <1>1, <1>3, <1>5, <1>6 DEF WaitedOK
  <1> QED BY <1>10, <1>11

\* Every step keeps the invariant.
LEMMA WireStep ==
    ASSUME WireInv, [Next]_vars
    PROVE  WireInv'
  <1>1. CASE UNCHANGED vars
    BY <1>1 DEF vars, WireInv, FieldsOK, BaseDelayOK, Settled, Stored, PlaceOK,
                IsInteger, ParsedOK, Parses, FromJson
  <1>2. CASE Next
    BY <1>2, PromoteStep, ReserveStep, ReclaimStep, AckStep, RetryStep, FailStep,
       RetryDeadTaskStep DEF Next
  <1> QED BY <1>1, <1>2

\* However the message is decoded, encoded and parsed, its JSON has what the
\* enqueued message had and says where it is.
THEOREM WireInvariant == Spec => []WireInv
  <1>1. Init => WireInv
    BY EnqueueEstablishes
  <1>2. WireInv /\ [Next]_vars => WireInv'
    BY WireStep
  <1> QED BY <1>1, <1>2, PTL DEF Spec

\* What a worker holds and what is stored is well typed.
THEOREM WireTypes == Spec => []TypeOK
  <1>1. ASSUME WireInv
        PROVE  TypeOK
    <2>1. DOMAIN json = FieldNames
      <3>1. json = [f \in FieldNames |-> json[f]]
        BY <1>1 DEF WireInv, FieldsOK
      <3> QED BY <3>1
    <2>2. ASSUME parsed # Null
          PROVE  /\ parsed.policy \in WorkerPolicies
                 /\ parsed.retry_count \in 0..parsed.policy.max_retries
                 /\ parsed.status = "running" /\ parsed.reserved_at = NowMs
                 /\ parsed.run_at = Null
      <3>1. /\ original \in Messages /\ FieldsOK(json) /\ Settled(json)
            /\ PlaceOK(json, "running")
            /\ json.base_delay_ms = Integer(original.policy.base_delay_ms)
            /\ parsed = FromJson(json)
        BY <1>1, <2>2, HeldFacts
      <3> QED BY <3>1, FromJsonFacts, WorkerPolicyFacts
    <2> QED BY <1>1, <2>1, <2>2 DEF TypeOK, WireInv
  <1> QED BY <1>1, WireInvariant, PTL

\* Through any sequence of C++ and Lua writers the run_at_ms, reserved_at_ms and
\* status of a message are those of the key that it is in.
THEOREM FieldsFollowPlace == Spec => []FieldsMatchPlace
  <1>1. ASSUME WireInv, Stored
        PROVE  /\ json.run_at_ms # Null <=> place = "delayed"
               /\ json.reserved_at_ms # Null <=> place \in {"running", "dead"}
               /\ json.status.value =
                      IF place # "delayed" THEN place
                      ELSE IF json.retry_count.value = 0 THEN "pending"
                      ELSE "retrying"
    <2>1. PlaceOK(json, place) /\ FieldsOK(json)
      BY <1>1 DEF WireInv
    <2>2. NowMs \in Int
      BY SMTT(60) DEF NowMs
    <2>3. json.run_at_ms # Null <=> place = "delayed"
      BY <2>1 DEF PlaceOK, IsInteger
    <2>4. json.reserved_at_ms # Null <=> place \in {"running", "dead"}
      BY <2>1, <2>2, ValuesArePresent DEF PlaceOK
    <2>5. json.retry_count = Integer(0) <=> json.retry_count.value = 0
      <3>1. PICK n : json.retry_count = Integer(n)
        BY <2>1 DEF FieldsOK
      <3>2. Integer(n).value = n /\ Integer(0).value = 0
        BY ValuesAreKept
      <3> QED BY <3>1, <3>2
    <2>6. json.status.value = IF place # "delayed" THEN place
                              ELSE IF json.retry_count.value = 0 THEN "pending"
                              ELSE "retrying"
      BY <2>1, <2>5, ValuesAreKept DEF PlaceOK
    <2> QED BY <2>3, <2>4, <2>6
  <1>2. WireInv => FieldsMatchPlace
    BY <1>1 DEF FieldsMatchPlace
  <1> QED BY <1>2, WireInvariant, PTL

\* A message that the scripts have decoded and encoded any number of times is
\* read again by C++, and a reserved one reaches its worker, unless its base
\* delay is longer than what cjson prints as an integer.
THEOREM MessagesSurvive == Spec => []SurvivesScripts
  <1>1. ASSUME WireInv, original.policy.base_delay_ms <= MaxExact
        PROVE  /\ Stored => Parses(json)
               /\ place = "running" => parsed # Null
    <2>1. /\ original \in Messages /\ place \in Places /\ FieldsOK(json)
          /\ Stored => PlaceOK(json, place)
      BY <1>1 DEF WireInv
    <2>2. ~(original.policy.base_delay_ms > MaxExact)
      BY <1>1, <2>1, OriginalFacts, WireAssumption, SMTT(60)
    <2>3. json.base_delay_ms = Integer(original.policy.base_delay_ms)
      BY <2>1, <2>2 DEF FieldsOK, BaseDelayOK
    <2>4. Stored => Parses(json)
      BY <2>1, <2>3, ParsesUnlessLong
    <2>5. ASSUME place = "running"
          PROVE  parsed # Null
      <3>1. PlaceOK(json, "running") /\ Parses(json) /\ Settled(json)
        BY <1>1, <2>1, <2>4, <2>5 DEF Stored, WireInv
      <3>2. parsed = FromJson(json)
        BY <1>1, <2>5, <3>1 DEF WireInv, ParsedOK
      <3> QED BY <2>1, <2>3, <3>1, <3>2, FromJsonFacts
    <2> QED BY <2>4, <2>5
  <1>2. WireInv => SurvivesScripts
    BY <1>1 DEF SurvivesScripts
  <1> QED BY <1>2, WireInvariant, PTL

\* After any number of promotions, reclaims, retries and requeues a worker runs
\* the task with the policy that was enqueued, its multiplier rounded to the
\* digits that cjson prints, and with what one script makes of the payload:
\* the one that was enqueued unless that is fragile.
THEOREM WorkersSeeOriginals == Spec => []WorkerSeesOriginal
  <1>1. ASSUME WireInv, parsed # Null
        PROVE  /\ parsed.policy = WorkerPolicy
               /\ parsed.payload = CjsonPayload(original.payload)
               /\ ~Fragile(original.payload) => parsed.payload = original.payload
    <2>1. /\ original \in Messages /\ FieldsOK(json) /\ Settled(json)
          /\ PlaceOK(json, "running")
          /\ json.base_delay_ms = Integer(original.policy.base_delay_ms)
          /\ parsed = FromJson(json)
      BY <1>1, HeldFacts
    <2>2. /\ parsed.policy = WorkerPolicy
          /\ parsed.payload = CjsonPayload(original.payload)
      BY <2>1, FromJsonFacts
    <2> QED BY <2>1, <2>2, OriginalFacts, PayloadSettles
  <1>2. WireInv => WorkerSeesOriginal
    BY <1>1 DEF WorkerSeesOriginal, WorkerPolicy
  <1> QED BY <1>2, WireInvariant, PTL

\* A script that leaves the retry count alone, as all but kRetryDeadTaskScript
\* do, leaves it to the next retry to wait longer.
LEMMA StoreKeepsWaited ==
    ASSUME WireInv, WaitedOK, place # "dropped", NEW j, FieldsOK(j), NEW key,
           j.retry_count = json.retry_count, Store(j, key), waited' = waited
    PROVE  WaitedOK'
  <1>1. original \in Messages /\ original' = original
    BY DEF WireInv, Store
  <1>2. json'.retry_count = json.retry_count
    <2>1. CASE Decodes(j)
      BY <1>1, <2>1, CjsonKeepsFields DEF Store
    <2>2. CASE ~Decodes(j)
      BY <2>2 DEF Store
    <2> QED BY <2>1, <2>2
  <1> QED BY <1>1, <1>2 DEF WaitedOK, WorkerPolicy

\* What a script writes into the json of a stored message, as far as the retry
\* count and the fields of the original are concerned.
LEMMA EditedJson ==
    ASSUME WireInv
    PROVE  LET promoted == [json EXCEPT !.run_at_ms = Null,
                                        !.status = String("pending")]
               reserved == [json EXCEPT !.status = String("running"),
                                        !.reserved_at_ms = Integer(NowMs)]
               reclaimed == [json EXCEPT !.reserved_at_ms = Null,
                                         !.status = String("pending")]
               buried == [json EXCEPT !.status = String("dead"),
                                      !.last_error = String("error")] IN
           \A j \in {promoted, reserved, reclaimed, buried} :
               FieldsOK(j) /\ j.retry_count = json.retry_count
  <1>1. original \in Messages /\ FieldsOK(json)
    BY DEF WireInv
  <1>2. json = [f \in FieldNames |-> json[f]]
    BY <1>1 DEF FieldsOK
  <1>3. ASSUME NEW j, NEW f1 \in {"run_at_ms", "status", "reserved_at_ms"},
               NEW f2 \in {"status", "reserved_at_ms", "last_error"}, NEW v1, NEW v2,
               f2 = "last_error" => v2 = String("error"),
               j = [json EXCEPT ![f1] = v1, ![f2] = v2]
        PROVE  FieldsOK(j) /\ j.retry_count = json.retry_count
    <2>1. /\ j = [f \in FieldNames |-> j[f]]
          /\ \A f \in FieldNames \ {f1, f2} : j[f] = json[f]
          /\ f2 = "last_error" => j.last_error = String("error")
      BY <1>2, <1>3 DEF FieldNames
    <2>2. /\ j.retry_count = json.retry_count
          /\ j.last_error \in {json.last_error, Null, String("error")}
          /\ \A f \in {"schema_version", "payload", "max_retries",
                       "base_delay_ms", "multiplier"} : j[f] = json[f]
      BY <1>3, <2>1 DEF FieldNames
    <2> QED BY <1>1, <2>1, <2>2, EditKeepsFields
  <1> QED BY <1>3

\* Every step keeps what was waited for in step with the retry count.
LEMMA WaitedStep ==
    ASSUME WireInv, WaitedOK, [Next]_vars
    PROVE  WaitedOK'
  <1>1. CASE UNCHANGED vars
    BY <1>1 DEF vars, WaitedOK, WorkerPolicy
  <1>2. CASE Promote
    <2>1. place # "dropped" /\ waited' = waited
      BY <1>2 DEF Promote
    <2> QED BY <1>2, <2>1, EditedJson, StoreKeepsWaited DEF Promote
  <1>3. CASE Reserve
    <2>1. place # "dropped" /\ waited' = waited
      BY <1>3 DEF Reserve
    <2> QED BY <1>3, <2>1, EditedJson, StoreKeepsWaited DEF Reserve
  <1>4. CASE Reclaim
    <2>1. place # "dropped" /\ waited' = waited
      BY <1>4 DEF Reclaim
    <2> QED BY <1>4, <2>1, EditedJson, StoreKeepsWaited DEF Reclaim
  <1>5. CASE Fail
    <2>1. place # "dropped" /\ waited' = waited
      BY <1>5 DEF Fail
    <2> QED BY <1>5, <2>1, EditedJson, StoreKeepsWaited DEF Fail
  <1>6. CASE Ack
    <2>1. /\ place # "dropped" /\ waited' = waited /\ json' = json
          /\ original' = original
      BY <1>6 DEF Ack
    <2> QED BY <2>1 DEF WaitedOK, WorkerPolicy
  <1>7. CASE RetryDeadTask
    <2>1. ASSUME place' # "dropped"
          PROVE  json'.retry_count = Integer(0)
      <3> DEFINE j == [json EXCEPT !.status = String("pending"),
                                   !.retry_count = Integer(0), !.last_error = Null,
                                   !.run_at_ms = Null, !.reserved_at_ms = Null]
      <3>1. json' = Cjson(j)
        BY <1>7, <2>1 DEF RetryDeadTask, Store
      <3>2. j.retry_count = Integer(0)
        <4>1. json = [f \in FieldNames |-> json[f]]
          BY DEF WireInv, FieldsOK
        <4> QED BY <4>1 DEF FieldNames
      <3> HIDE DEF j
      <3>3. 0 \in 0..MaxExact
        BY WireAssumption, SMTT(60)
      <3> QED BY <3>1, <3>2, <3>3, CjsonFields, ScalarKept
    <2>2. original' = original /\ waited' = Null
      BY <1>7 DEF RetryDeadTask, Store
    <2>3. 0 \in 0..original.policy.max_retries /\ ~(0 > 0)
      BY OriginalFacts, WireAssumption, SMTT(60) DEF WireInv
    <2> QED BY <2>1, <2>2, <2>3 DEF WaitedOK
  <1>8. CASE Retry
    <2> DEFINE n == parsed.retry_count + 1
    <2>1. /\ original' = original /\ n \in 1..original.policy.max_retries
          /\ json'.retry_count = Integer(n)
      BY <1>8, RetryStep
    <2>2. PICK d \in Delays(WorkerPolicy, n) : waited' = Sum64(NowMs, d) - NowMs
      BY <1>8, RetryStep
    <2> HIDE DEF n
    <2>3. original \in Messages /\ original.policy.max_retries \in 0..MaxExact
      BY OriginalFacts DEF WireInv
    <2>4. d \in Int
      BY <2>1, <2>2, <2>3, DelayRange
    <2>5. waited' \in Int
      BY <2>2, <2>4, WireAssumption, SMTT(60) DEF Sum64, NowMs
    <2>6. waited' # Null
      BY <2>5, NullAssumption
    <2>7. n \in 0..original.policy.max_retries /\ n # 0
      BY <2>1, <2>3, WireAssumption, SMTT(60)
    <2> QED BY <2>1, <2>2, <2>6, <2>7 DEF WaitedOK, WorkerPolicy
  <1> QED BY <1>1, <1>2, <1>3, <1>4, <1>5, <1>6, <1>7, <1>8 DEF Next

\* Only Retry takes a running message to the delayed set.
LEMMA OnlyRetryDelays ==
    ASSUME [Next]_vars, place = "running", place' = "delayed"
    PROVE  Retry
  <1>1. ~(UNCHANGED vars)
    BY DEF vars
  <1> QED BY <1>1 DEF Next, Promote, Reserve, Reclaim, Ack, Fail, RetryDeadTask, Store

\* The delay before a retry is the base delay first and then the multiplier
\* times the delay before, to within what the cuts to milliseconds and the
\* rounding of doubles take away: the count and the policy from which
\* ComputeRetryDelayMs computes it have gone through cjson each time.
THEOREM BackoffsGrow == Spec => BackoffGrows
  <1> DEFINE base == original.policy.base_delay_ms
             m == Rounded(original.policy.multiplier)
             exact == base * Policy!Pow(m.num, parsed.retry_count) <= Precision
             Grows == /\ waited = Null => waited' = base
                      /\ base = 0 => waited' <= 0
                      /\ base > 0 /\ waited # Null =>
                           /\ exact => Multiplied(waited, waited', m, 0)
                           /\ exact /\ m.den = 1 => waited' = m.num * waited
                           /\ waited >= 0 /\ Small(waited, 1)
                                  /\ Small(m.num * (waited + 2), m.den)
                                  => Multiplied(waited, waited', m, 1)
  <1>1. ASSUME WireInv, WaitedOK, [Next]_vars, place = "running",
               place' = "delayed"
        PROVE  Grows
    <2> DEFINE n == parsed.retry_count + 1
    <2>1. Retry /\ parsed # Null
      BY <1>1, OnlyRetryDelays DEF Retry
    <2>2. n \in 1..original.policy.max_retries
      BY <1>1, <2>1, RetryStep
    <2>3. PICK e \in Delays(WorkerPolicy, n) : waited' = Sum64(NowMs, e) - NowMs
      BY <1>1, <2>1, RetryStep
    <2>4. /\ original \in Messages /\ base <= MaxExact /\ base \in Nat
          /\ json.retry_count = Integer(parsed.retry_count)
          /\ original.policy.max_retries \in 0..MaxExact
      BY <1>1, <2>1, HeldFacts, OriginalFacts
    <2>5. PICK k \in 0..original.policy.max_retries :
             /\ json.retry_count = Integer(k)
             /\ waited = Null <=> k = 0
             /\ k > 0 => \E d \in Delays(WorkerPolicy, k) :
                            waited = Sum64(NowMs, d) - NowMs
      <3>1. place # "dropped"
        BY <1>1
      <3> QED BY <1>1, <3>1 DEF WaitedOK
    <2>6. parsed.retry_count = k
      <3>1. Integer(k).value = k /\ Integer(parsed.retry_count).value = parsed.retry_count
        BY ValuesAreKept
      <3> QED BY <2>4, <2>5, <3>1
    <2>7. k \in Nat /\ n = k + 1
      BY <2>4, <2>5, <2>6, WireAssumption, SMTT(60)
    <2> HIDE DEF n
    <2>8. (n = 1 => e = base) /\ (base = 0 => e <= 0) /\ e \in Int
      BY <2>2, <2>3, <2>4, FirstDelay, DelayRange
    <2>9. waited = Null => waited' = base
      <3>1. n = 1 => Sum64(NowMs, e) - NowMs = base
        BY <2>4, <2>8, WireAssumption, SMTT(60) DEF Sum64, NowMs
      <3>2. k = 0 => n = 1
        BY <2>7, SMTT(60)
      <3> QED BY <2>3, <2>5, <3>1, <3>2
    <2>10. base = 0 => waited' <= 0
      BY <2>3, <2>8, WireAssumption, SMTT(60) DEF Sum64, NowMs
    <2>11. ASSUME base > 0, waited # Null
           PROVE  /\ exact => Multiplied(waited, waited', m, 0)
                  /\ exact /\ m.den = 1 => waited' = m.num * waited
                  /\ waited >= 0 /\ Small(waited, 1)
                         /\ Small(m.num * (waited + 2), m.den)
                         => Multiplied(waited, waited', m, 1)
      <3>1. k > 0 /\ k \in 1..original.policy.max_retries
        <4>1. k # 0
          BY <2>5, <2>11
        <4> QED BY <2>4, <2>5, <2>7, <4>1, WireAssumption, SMTT(60)
      <3>2. PICK d \in Delays(WorkerPolicy, k) : waited = Sum64(NowMs, d) - NowMs
        BY <2>5, <3>1
      <3> QED BY <2>2, <2>3, <2>4, <2>6, <2>7, <2>11, <3>1, <3>2, NextDelay
    <2> QED BY <2>9, <2>10, <2>11
  <1>2. WireInv /\ WaitedOK /\ [Next]_vars => WaitedOK'
    BY WaitedStep
  <1>3. Init => WaitedOK
    BY EnqueueEstablishes
  <1>4. WireInv /\ WaitedOK /\ [Next]_vars =>
           [place = "running" /\ place' = "delayed" => Grows]_vars
    BY <1>1
  <1> QED BY <1>2, <1>3, <1>4, WireInvariant, PTL DEF Spec, BackoffGrows

=============================================================================
