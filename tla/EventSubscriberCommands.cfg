SPECIFICATION FairSpec
CONSTANTS
    e1 = e1
    p1 = p1
    Events = {e1}
    HandlerCount <- TwoHandlers
    Filtered = {}
    InSaga = {}
    Raised = {"command"}
    Processes = {p1}
    EnsureIdempotent = TRUE
    EnsureArrival = TRUE
    MaxDeliveries = 2
    MaxCrashes = 1
    MaxDbFailures = 0
CHECK_DEADLOCK FALSE
PROPERTY CommandsArrive
