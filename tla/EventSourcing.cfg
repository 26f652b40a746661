SPECIFICATION Spec
CONSTANTS
    c1 = c1
    c2 = c2
    c3 = c3
    s1 = s1
    s2 = s2
    t1 = t1
    t2 = t2
    r1 = r1
    Commands = {c1, c2, c3}
    Creates = {c1, c2}
    Modifies = {c2, c3}
    Silent = {}
    Conditional = {c1}
    Servers = {s1, s2}
    Threads = {t1, t2}
    Readers = {}
    Host <- TwoHosts
    Crowded = FALSE
    RetryCount = 0
    MaxFaults = 1
SYMMETRY ServersInterchangeable
CHECK_DEADLOCK FALSE
INVARIANTS EventsAccounted OneAnswer
PROPERTY ImplementsLedger
