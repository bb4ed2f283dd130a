SPECIFICATION Spec
CONSTANTS
    Product = {p1}
    AccountsVanish = TRUE
    Drainer = {loop, manual}
    MaxRetry = 1
    DrainLimit = 2
    Order = {o1, o2}
    Secret = {1, 2}
    MaxGen = 1
    MaxCrashes = 0
    PlatformFails = TRUE
    DatabaseFails = {"remap"}
    MaxFaults = 0
INVARIANTS
    SoldOutItemIsOffline
PROPERTIES
    EmptyRelistIsLate
    FailuresRetried
SYMMETRY MCSymmetry
CHECK_DEADLOCK FALSE
