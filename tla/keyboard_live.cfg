SPECIFICATION FairSpec
CONSTANTS
    Inputs <- MCFallback
    SysfsMayFail = TRUE
    WriteMayFail = FALSE
    ClientMayToggle = FALSE
    MayCrash = FALSE
INVARIANTS
    TouchOnlyWhileRegistered
PROPERTIES
    StaleDataClosesGate
    StopTerminates
CHECK_DEADLOCK FALSE
