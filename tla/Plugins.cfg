CONSTANTS
    NULL = NULL
    two = two
    one = one
    newer = newer
    a = a
    b = b
    c = c
    d = d
    w1 = w1
    w2 = w2
    Ids = {"one", "two"}
    Objects = {two, one, newer}
    Id <- MCId
    Hooks = {a, b, c, d}
    HooksOf <- MCHooksOf
    Priority <- MCPriority
    Services = {w1, w2}
    ServiceOf <- MCServiceOf
    Wanting = {w1, w2}
    Retries <- MCRetries
    Runs = {e1}
    MaxChanges = 5
SPECIFICATION FairSpec
INVARIANTS
    TypeOK
    HooksRunOnce
    NoOrphans
    AnsweredOrExhausted
PROPERTY EventsFinish
