CONSTANTS
    Requests = {1, 2, 3, 4}
    Books = {"b1", "b2"}
    Priorities <- MCPriorities
    Nobody = nobody
SPECIFICATION MCSpec
INVARIANT TypeOK
INVARIANT MutualExclusion
INVARIANT SlotAccounted
INVARIANT NoStrandedWaiter
PROPERTY ImplementsPrioritySlot
PROPERTY WantedRequestServed
