SPECIFICATION FairSpec
CONSTANTS
    e1 = e1
    p1 = p1
    Events = {e1}
    HandlerCount <- TwoHandlers
    Filtered = {}
    InSaga = {}
    Raised = {"command", "event"}
    Processes = {p1}
    EnsureIdempotent = TRUE
    EnsureArrival = TRUE
    MaxDeliveries = 2
    MaxCrashes = 1
    MaxDbFailures = 1
CHECK_DEADLOCK FALSE
INVARIANTS MessagesKept NothingSkipped
PROPERTIES ImplementsOutbox HandlersSettled EventsArrive
