SPECIFICATION FairSpec
CONSTANTS
    Workers = {w1}
    Concurrency = 2
    Interval = 2
    Ttl = 3
    Null = Null
INVARIANTS
    TypeOK
    LiveIsListed
    ListedIsConsistent
PROPERTIES
    DeadIsForgotten
