SPECIFICATION Spec
CONSTANTS
    Variants = {"aidl", "aidl2", "hidl"}
    Modules = 2
    MaxSessions = 3
    MaxRemains = 1
    Clients = {1, 2}
INVARIANTS
    VendorPropTruthful
    OneInstance
    ClosedOnce
    OneLateMessage
    ReplacedClientQuiet
