SPECIFICATION FairSpec
CONSTANTS
    Log <- GapLog
    Poison = {3}
    FullLoadThreshold = 1
    MaxRebalances = 2
    MaxRestarts = 1
    MaxCommitFailures = 1
CHECK_DEADLOCK FALSE
INVARIANTS SafeCommit NoStuckOffset DrainedCommitted LoadBounded
PROPERTIES CommitsAdvance EventuallyHandled
