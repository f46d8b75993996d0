CONSTANTS
    Posts = {h1, h2}
    Books = {b1}
    MaxPage = 1
    NoEntry = noentry
    Nobody = nobody
    Torn = torn
    MaxCrashes = 0
SPECIFICATION FairProgressSpec
INVARIANT RecordIsOnePosition
