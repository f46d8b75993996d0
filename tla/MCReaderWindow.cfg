CONSTANTS
    N = 4
    FETCH_AHEAD = 1
    FETCH_BEHIND = 0
    FETCH_CONCURRENCY = 2
    KeepRange = 1
    Fetches = {1, 2, 3, 4, 5, 6, 7}
    None = none
    MaxGestures = 2
    MaxFailures = 1
SPECIFICATION MCSpec
INVARIANT ReaderTypeOK
INVARIANT ShownImageLive
INVARIANT TrackedAreActive
PROPERTY CurrentPageSettles
