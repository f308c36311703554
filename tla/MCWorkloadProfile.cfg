SPECIFICATION Spec
CONSTANTS
    BucketCount = 3
    BucketDuration = 2
    MediumSamples = 2
    HighSamples = 3
    Nodes = {n1}
    Deltas = {2}
    BulkInputs <- MCBulkInputs
    MaxTime = 10
    MaxRecords = 2
INVARIANTS
    TypeOK
    StalenessBound
    Retention
    ProfileIsSuffix
    WindowBounds
