SPECIFICATION Spec
CONSTANTS
    RingSize = 1
    BatchSize = 2
    SendWindow = 1
    AckWindow = 1
PROPERTIES
    FlushedInTime
