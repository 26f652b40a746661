SPECIFICATION Spec
CONSTANTS
    m1 = m1
    m2 = m2
    m3 = m3
    m4 = m4
    k1 = k1
    Messages = {m1, m2, m3, m4}
    Key <- OneKeyAndBlank
    Blank = Blank
    Synchronous = {}
    BatchCount = 2
    None = None
    Processor = Processor
    MayStop = FALSE
CHECK_DEADLOCK FALSE
SYMMETRY SameKey
INVARIANT NoLostUpdate
