SPECIFICATION Spec
CONSTANTS
    Adders = {a1, a2, a3}
    MaxEvents = 2
    OutputSize = 1
    MaxAdds = 5
INVARIANTS
    TypeOK
    EachEventOnce
    FullIsFlushed
    PanicOnlyIfLate
    StopLeavesNothing
PROPERTIES
    EventuallyTaken
    StopCloses
CHECK_DEADLOCK FALSE
