SPECIFICATION Spec
CONSTANTS
    Inputs <- MCSleepy
    SysfsMayFail = FALSE
    WriteMayFail = FALSE
    ClientMayToggle = FALSE
    MayCrash = FALSE
INVARIANTS
    SleepRespected
CHECK_DEADLOCK FALSE
