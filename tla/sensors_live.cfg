SPECIFICATION FairSpec
CONSTANTS
    Posters = {"a"}
    QueueSize = 1
    MaxPending = 2
    MaxBatch = 2
    MaxEvents = 3
PROPERTIES
    BacklogDrains
    WakelockReleased
CHECK_DEADLOCK FALSE
