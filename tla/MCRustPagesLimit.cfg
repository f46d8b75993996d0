CONSTANTS
    r1 = r1
    r2 = r2
    r3 = r3
    b1 = b1
    b2 = b2
    Requests = {r1, r2, r3}
    Books = {b1, b2}
    RENDER_CONCURRENCY = 1
    BLOCKING_THREADS = 2
    MaxReplace = 1
    MaxFaults = 1
    None = none
    Partial = partial
SPECIFICATION MCSpec
INVARIANT RenderLimit
