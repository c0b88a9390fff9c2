\* One task, a second one that does not decode, two workers, a crash: every
\* order of retry, reclaim and late report.
CONSTANTS
    w1 = w1
    w2 = w2
    t1 = t1
    t2 = t2
    Null = Null
    MaxInt = 200
    Precision = 128
    MaxDouble = 256
    Tasks = {t1, t2}
    Workers = {w1, w2}
    Threads = {th1}
    Undecodable = {t2}
    Unparsable = {}
    VisibilityTimeout <- SameTimeout
    Skew <- NoSkew
    Handles <- HandleAll
    Policy <- TwoRetriesPolicy
    RunAts <- AtOnceOrLater
    MaxTime = 5
    MaxCrashes = 1
    LastCrash = 5
SPECIFICATION Spec
SYMMETRY WorkerSymmetry
INVARIANTS
    TypeOK
    NoTaskLost
    RetryBudget
    SingleCopy
    StatusMatchesPlace
    StatusEvidence
PROPERTIES
    DelayRespected
