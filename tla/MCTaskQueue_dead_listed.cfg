\* README.md:228 against kFailScript after a late report.
CONSTANTS
    w1 = w1
    w2 = w2
    t1 = t1
    t2 = t2
    Null = Null
    MaxInt = 200
    Precision = 128
    MaxDouble = 256
    Tasks = {t1}
    Workers = {w1, w2}
    Threads = {th1}
    Undecodable = {}
    Unparsable = {}
    VisibilityTimeout <- SameTimeout
    Skew <- NoSkew
    Handles <- HandleAll
    Policy <- OneRetryPolicy
    RunAts <- AtOnce
    MaxTime = 4
    MaxCrashes = 1
    LastCrash = 4
SPECIFICATION Spec
SYMMETRY WorkerSymmetry
INVARIANTS
    DeadIsListed
