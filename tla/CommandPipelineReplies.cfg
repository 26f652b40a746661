SPECIFICATION Spec
CONSTANTS
    Commands = {c1}
    Processes = {p1}
    WithHandler = {c1}
    NeedReply = {c1}
    InSaga = {}
    Malformed = {}
    EnsureIdempotent = TRUE
    EnsureArrival = TRUE
    MaxDeliveries = 1
    MaxCrashes = 1
    MaxDbFailures = 0
CHECK_DEADLOCK FALSE
INVARIANT RepliesKept
