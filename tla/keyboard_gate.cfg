SPECIFICATION Spec
CONSTANTS
    Inputs <- MCEverything
    SysfsMayFail = FALSE
    WriteMayFail = FALSE
    ClientMayToggle = TRUE
    MayCrash = TRUE
INVARIANTS
    GateJustified
    GateOpensWhenAllowed
    ForcedClosed
PROPERTIES
    TouchAfterRegister
CHECK_DEADLOCK FALSE
