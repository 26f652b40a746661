SPECIFICATION FairSpec
CONSTANTS
    Commands = {c1}
    Processes = {p1, p2}
    WithHandler = {c1}
    NeedReply = {}
    InSaga = {}
    Malformed = {}
    EnsureIdempotent = TRUE
    EnsureArrival = TRUE
    MaxDeliveries = 2
    MaxCrashes = 1
    MaxDbFailures = 1
CHECK_DEADLOCK FALSE
INVARIANTS EffectOnce NoPhantomEvent EventsKept NothingDropped
PROPERTY ImplementsFairOutbox
