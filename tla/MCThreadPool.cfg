SPECIFICATION FairSpec
CONSTANTS
    Threads = {th1, th2}
    Callers = {c1, c2}
    Jobs = {j1, j2, j3}
    None = None
INVARIANTS
    TypeOK
    JobsConserved
    NoLostWakeup
    ShutdownDrains
PROPERTIES
    WaitIdleCovers
    ImplementsJobService
    EveryJobRuns
    CallsReturn
