CONSTANTS
    r1 = r1
    r2 = r2
    r3 = r3
    u1 = u1
    u2 = u2
    Requests = {r1, r2, r3}
    Threads = {t1, t2}
    Users = {u1, u2}
    Debug = debug
    Shared = shared
    Nobody = nobody
    None = none
    NoEntry = noentry
    Torn = torn
    Places <- MCPlaces
    Configs <- MCConfigs
    Grants <- MCGrants
    Bracketed <- MCBracketed
    MaxPage = 1
    MaxEvents = 1
    U64_MAX = 21
    CCITT_MIN_SIDE = 6
    Char = {"quote", "slash", "newline", "n", "open", "close", "colon", "comma", "page", "name", "0", "1", "x"}
    Inputs <- MCInputs
    Names <- MCNames
SPECIFICATION MCSpec
INVARIANT GrantedStays
