SPECIFICATION Spec
CONSTANTS
    k1 = k1
    k2 = k2
    Keys = {k1, k2}
    NoKey = NoKey
    Nodes = {n1, n2}
    Streams = {s1, s2}
    Handlers = {h1}
    HttpKinds = {"simulate", "reset"}
    BatchKinds <- MCBatchKinds
    MaxObjects = 3
    MaxEvents = 3
    MaxRequests = 2
SYMMETRY Symmetry
INVARIANTS
    TypeOK
    OneProfilePerKey
    NodeQueryComplete
PROPERTIES
    ImplementsStore
CHECK_DEADLOCK FALSE
