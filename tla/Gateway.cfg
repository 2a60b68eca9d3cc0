SPECIFICATION FairSpec
CONSTANTS
    q1 = q1
    q2 = q2
    q3 = q3
    admin = admin
    Requests = {q1, q2, q3, admin}
    Kinds = {"query", "lightweight"}
    Kind <- MCKind
    Op <- MCOp
    Workers <- MCWorkers
    Second = 2
    Window = 2
    RateLimit = 2
    Limits = {0, 1}
    LastTick = 4
INVARIANTS SlotsConserved RateLimited RetryAfterConverges
PROPERTY QueuedGetsSlot
CHECK_DEADLOCK FALSE
