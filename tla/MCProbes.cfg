SPECIFICATION Spec
CONSTANTS
    Threads = {t1, i1, i2}
    Idle = {i1, i2}
    None = None
    Junk = Junk
    MaxEntries = 1
    RingSize = 1
    SamplePeriod = 1
    Modulus = 8
    Nesting <- MCNesting
    MaxTime = 1
SYMMETRY IdleSymmetry
INVARIANTS
    TypeOK
    DurationExact
    DurationWithinWait
    WaitIsMeasured
    MapHoldsWaits
