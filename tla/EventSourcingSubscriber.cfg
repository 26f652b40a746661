SPECIFICATION Spec
CONSTANTS
    e1 = e1
    p1 = p1
    p2 = p2
    Events = {e1}
    HandlerCount <- TwoHandlers
    InSaga = {e1}
    Raised = {"command"}
    Processes = {p1, p2}
    MaxDeliveries = 2
    MaxCrashes = 1
    MaxRedisFailures = 1
SYMMETRY SameProcess
CHECK_DEADLOCK FALSE
INVARIANTS OneVoice NoPhantomMessage NothingSkipped StoredIsSent LastHandlingReturned
