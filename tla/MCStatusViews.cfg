\* One task that two workers move while the CLI reads.
CONSTANTS
    w1 = w1
    w2 = w2
    t1 = t1
    Null = Null
    MaxInt = 200
    Precision = 128
    MaxDouble = 256
    Tasks = {t1}
    Workers = {w1, w2}
    Threads = {th1}
    Undecodable = {}
    Unparsable = {}
    VisibilityTimeout <- SameTimeout
    Skew <- NoSkew
    Handles <- HandleAll
    Policy <- OneAtOncePolicy
    RunAts <- AtOnceOrLater
    MaxTime = 3
    MaxCrashes = 0
    LastCrash = 0
    MaxMoves = 3
SPECIFICATION ViewsSpec
SYMMETRY WorkerSymmetry
INVARIANTS
    TaskViewFits
    FailedListFits
    StatsWithin
