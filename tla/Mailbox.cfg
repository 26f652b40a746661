SPECIFICATION FairSpec
CONSTANTS
    m1 = m1
    m2 = m2
    m3 = m3
    m4 = m4
    k1 = k1
    Messages = {m1, m2, m3, m4}
    Key <- OneKeyAndBlank
    Blank = Blank
    Synchronous = {m3}
    BatchCount = 2
    None = None
    Processor = Processor
    MayStop = TRUE
CHECK_DEADLOCK FALSE
PROPERTY EventuallyRun
INVARIANTS OneRunner NoLostWakeup ExactlyOnce NoMailboxLeak
