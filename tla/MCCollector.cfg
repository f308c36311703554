SPECIFICATION Spec
CONSTANTS
    RingSize = 1
    BatchSize = 2
    SendWindow = 1
    AckWindow = 1
INVARIANTS
    TypeOK
PROPERTIES
    ImplementsDelivery
    ShutdownEnds
    SendEnds
    Recovers
    Delivered
