SPECIFICATION Spec
CONSTANTS
    Resolvers = {r1, r2}
    Ids = {id1}
    Containers = {c1, c2}
    None = None
    CacheTTL = 2
    Latency = 1
    MaxTime = 4
INVARIANTS
    TypeOK
    BoundedStaleness
PROPERTIES
    ResolveEnds
