CONSTANTS
    Threads = {t1, t2, t3}
    Paths = {p1, p2}
    Docs = {1, 2, 3, 4, 5}
    MaxCache = 1
    MaxOps = 2
    Budget = 3
    NoDoc = nodoc
SPECIFICATION FairSpec
INVARIANT CacheTypeOK
INVARIANT RefsExact
INVARIANT NeverUseClosed
INVARIANT SameBookSerial
INVARIANT NothingLeaked
PROPERTY EveryCallEnds
