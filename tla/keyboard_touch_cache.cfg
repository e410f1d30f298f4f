SPECIFICATION Spec
CONSTANTS
    Inputs <- MCGpioKeys
    SysfsMayFail = FALSE
    WriteMayFail = FALSE
    ClientMayToggle = FALSE
    MayCrash = FALSE
INVARIANTS
    TouchCacheTruthful
CHECK_DEADLOCK FALSE
