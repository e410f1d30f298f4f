SPECIFICATION Spec
CONSTANTS
    GsensorPeriod = 1
    VersionPeriod = 2
    WriteMayFail = TRUE
    Frames <- MCFrames
    RawCommands <- MCRawCommands
INVARIANTS
    IdentityAtMostOnce
    PaddingUnused
    RawFormsAgree
