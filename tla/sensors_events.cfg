SPECIFICATION Spec
CONSTANTS
    Posters = {"a", "b"}
    QueueSize = 1
    MaxPending = 2
    MaxBatch = 2
    MaxEvents = 3
INVARIANTS
    TypeOK
    SizeAccurate
    HeldIffCounted
    RefCovers
PROPERTIES
    ImplementsChannel
CHECK_DEADLOCK FALSE
