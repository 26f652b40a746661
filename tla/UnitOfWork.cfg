SPECIFICATION FairSpec
CONSTANTS
    MaxCommits = 3
    Anyway = {2}
    MaxCrashes = 1
    MaxDbFailures = 2
CHECK_DEADLOCK FALSE
INVARIANTS MessagesKept RetryUnharmed
PROPERTY ImplementsFairOutbox
