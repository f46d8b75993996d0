CONSTANTS
    Posts = {h1, h2, h3}
    Books = {b1, b2}
    MaxPage = 1
    NoEntry = noentry
    Nobody = nobody
    Torn = torn
    MaxCrashes = 1
SPECIFICATION FairProgressSpec
INVARIANT ProgressTypeOK
INVARIANT AckDurable
PROPERTY ImplementsAtomicProgress
PROPERTY EveryPostAnswered
