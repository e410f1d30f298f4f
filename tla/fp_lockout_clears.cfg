SPECIFICATION OrderlySpec
CONSTANTS
    TimedThreshold = 2
    PermanentThreshold = 4
    ImplV2 = TRUE
    MaxTimers = 1
PROPERTIES
    LockoutClears
