\* Two tasks that share the lists, workers that differ in clock, timeout and
\* registered handlers.
CONSTANTS
    w1 = w1
    w2 = w2
    t1 = t1
    t2 = t2
    Null = Null
    MaxInt = 200
    Precision = 128
    MaxDouble = 256
    Tasks = {t1, t2}
    Workers = {w1, w2}
    Threads = {th1}
    Undecodable = {}
    Unparsable = {}
    VisibilityTimeout <- W2IsPatient
    Skew <- W2IsAhead
    Handles <- W2HandlesT2
    Policy <- NoBackoffPolicy
    RunAts <- AtOnce
    MaxTime = 4
    MaxCrashes = 0
    LastCrash = 4
SPECIFICATION Spec
INVARIANTS
    LeaseExclusive
