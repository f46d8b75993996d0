CONSTANTS
    Requests = {1, 2, 3}
    Books = {"b1", "b2"}
    Priorities <- MCPriorities
    Pages = {"p1"}
    MetaCalls = {1}
    Concurrency = 2
    Quitters = {1, 2}
SPECIFICATION MCSpec
INVARIANT PipeTypeOK
INVARIANT PermitsAccounted
INVARIANT OnePermitPerBook
INVARIANT ExitReleasesAll
PROPERTY NoVainRender
PROPERTY EveryCallReturns
