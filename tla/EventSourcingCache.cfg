SPECIFICATION Spec
CONSTANTS
    c1 = c1
    c2 = c2
    c3 = c3
    s1 = s1
    s2 = s2
    t1 = t1
    t2 = t2
    r1 = r1
    Commands = {c1, c2, c3}
    Creates = {c1}
    Modifies = {c2, c3}
    Silent = {c3}
    Conditional = {c3}
    Servers = {s1}
    Threads = {t1, t2}
    Readers = {r1}
    Host <- OneHost
    Crowded = TRUE
    RetryCount = 3
    MaxFaults = 0
SYMMETRY ThreadsInterchangeable
CHECK_DEADLOCK FALSE
INVARIANTS AggregatesBuilt NeverGivesUp
