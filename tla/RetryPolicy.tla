----------------------------- MODULE RetryPolicy -----------------------------
(***************************************************************************)
(* src/retry_policy.cc: when a failed task is retried, and how long after.  *)
(* The delay is computed in doubles, which round, and cut to an int64.     *)
(***************************************************************************)
EXTENDS Integers

CONSTANTS
    MaxInt,     \* the largest int64
    Precision,  \* up to here every integer is a double, 2^53 in the code
    MaxDouble   \* the largest double

\* A double that is not negative, as a fraction in lowest terms.
Fractions == [num : Nat, den : Nat \ {0}]

RetryPolicies ==
    [max_retries : Nat, base_delay_ms : Nat, multiplier : Fractions]

\* On the naturals: 0 to the power 0 is 1, as it is for std::pow.
Pow(x, n) == IF n = 0 THEN 1 ELSE x ^ n

\* A double cast to int64.  Out of range the cast is undefined: it gives the
\* least or the largest integer, by the processor.
Int64(n) == IF n <= MaxInt THEN {n} ELSE {-MaxInt - 1, MaxInt}

\* By how many integers the cut of a computed double can be off: by none while
\* num / den is itself a double, and otherwise by one, across which the
\* rounding has carried it, and by the few parts in Precision that std::pow
\* and the product lose.
Off(num, den) ==
    IF num <= Precision THEN 0 ELSE (4 * (num \div den + 1)) \div Precision + 1

\* The cast of a double that was computed for num / den.
Truncated(num, den) ==
    LET q == num \div den
        off == Off(num, den)
    IN  UNION {Int64(d) : d \in {n \in (q - off)..(q + off) : n >= 0}}

\* The base delay times the multiplier to the power n.  A power that is too
\* large is infinite, and so is the product, or it is not a number, which the
\* cast makes the least integer or zero, by the processor.
Backoff(policy, n) ==
    LET num == Pow(policy.multiplier.num, n)
        den == Pow(policy.multiplier.den, n)
    IN  IF num > MaxDouble * den
        THEN {-MaxInt - 1, IF policy.base_delay_ms = 0 THEN 0 ELSE MaxInt}
        ELSE Truncated(policy.base_delay_ms * num, den)

\* Bug: the exponent is not one less than the number of the retry.
ComputeRetryDelayMsNext(policy, retry_count) ==
    IF retry_count <= 0 THEN {policy.base_delay_ms}
    ELSE Backoff(policy, retry_count)

\* The values that it may return.
ComputeRetryDelayMs(policy, retry_count) ==
    IF retry_count <= 0 THEN {policy.base_delay_ms}
    ELSE Backoff(policy, retry_count - 1)

\* Bug: one retry too many.
ShouldRetryInclusive(retry_count, policy) == retry_count <= policy.max_retries

ShouldRetry(retry_count, policy) == retry_count < policy.max_retries

=============================================================================
