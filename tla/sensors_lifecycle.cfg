SPECIFICATION FairSpec
CONSTANTS
    Loops = {"polling", "base"}
    Reports <- MCReports
    PipeMany = 1
    QueueSize = 1
    MaxPending = 1
    MaxCount = 1
INVARIANTS
    TypeOK
    JoinedThreadsWoken
    PendingWorkWatched
    SensorHeedsMode
    OnePostPerActivation
    QueuesReplacedSafely
    ModesAgree
PROPERTIES
    ReinitializeProceeds
