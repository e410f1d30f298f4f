SPECIFICATION FairSpec
CONSTANTS
    Callbacks = {c1, c2}
    NoCallback = NoCallback
    Binders = {b1, b2}
    Reader = reader
    NoThread = NoThread
    MaxFrames = 2
INVARIANTS
    CopyIsCurrent
PROPERTIES
    ImplementsRegistry
    CallsReturn
