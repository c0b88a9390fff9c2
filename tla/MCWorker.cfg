\* After MaxCalls calls nobody calls again: the system may stop.
SPECIFICATION FairSpec
CONSTANTS
    Tasks = {t1, t2, t3}
    Threads = {th1, th2}
    None = None
    Main = Main
    MaxCalls = 2
CHECK_DEADLOCK FALSE
INVARIANTS
    TypeOK
    TaskHasThread
    ReturnMeansReported
PROPERTIES
    CallsReturn
