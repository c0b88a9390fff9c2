SPECIFICATION FairSpec
CONSTANTS
    Tasks = {t1, t2, t3}
    Threads = {th1, th2}
    None = None
    Main = Main
    MaxCalls = 1
CHECK_DEADLOCK FALSE
PROPERTIES
    StopIsHonoured
