SPECIFICATION TimerSpec
CONSTANTS
    TimedThreshold = 1
    PermanentThreshold = 2
    ImplV2 = TRUE
    MaxTimers = 2
INVARIANTS
    LockoutEarned
    AttemptsKept
PROPERTIES
    TimerEndsLockout
