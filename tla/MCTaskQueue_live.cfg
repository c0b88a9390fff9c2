\* A crash with time left for the lease to end; handlers that may fail every
\* time; a second task that does not parse after the scripts' JSON round trip.
CONSTANTS
    w1 = w1
    w2 = w2
    t1 = t1
    t2 = t2
    Null = Null
    MaxInt = 200
    Precision = 128
    MaxDouble = 256
    Tasks = {t1, t2}
    Workers = {w1, w2}
    Threads = {th1}
    Undecodable = {}
    Unparsable = {t2}
    VisibilityTimeout <- SameTimeout
    Skew <- NoSkew
    Handles <- HandleAll
    Policy <- TwoAtOncePolicy
    RunAts <- AtOnceOrLater
    MaxTime = 3
    MaxCrashes = 1
    LastCrash = 1
SPECIFICATION FairSpec
PROPERTIES
    ImplementsLifecycle
    EventuallyFinished
