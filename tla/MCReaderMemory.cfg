CONSTANTS
    N = 4
    FETCH_AHEAD = 2
    FETCH_BEHIND = 1
    FETCH_CONCURRENCY = 2
    KeepRange = 1
    Fetches = {1, 2, 3, 4, 5, 6, 7}
    None = none
    MaxGestures = 2
    MaxFailures = 1
SPECIFICATION MCSpec
INVARIANT FarPagesDropped
