SPECIFICATION Spec
CONSTANTS
    n1 = n1
    n2 = n2
    cand = cand
    a = a
    b = b
    d = d
    Unit = 10
    WeightCache = 35
    WeightLock = 30
    WeightPageFault = 20
    WeightCtxSwitch = 15
    Workloads = {cand, a, b, d}
    Candidate = cand
    DaemonSets = {d}
    Nodes = {n1, n2}
    Located <- MCLocated
    Profiles <- MCProfiles
INVARIANTS
    TypeOK
    ScoreIsReference
    NoisierNeverBetter
PROPERTIES
    ScoringEnds
