SPECIFICATION FairSpec
CONSTANTS
    Product = {p1}
    AccountsVanish = TRUE
    Drainer = {loop, manual}
    MaxRetry = 1
    DrainLimit = 1
    Order = {o1}
    Secret = {1}
    MaxGen = 0
    MaxCrashes = 1
    PlatformFails = TRUE
    DatabaseFails = {"lookup", "remap", "commit"}
    MaxFaults = 1
INVARIANTS
    TypeOK
PROPERTIES
    WaitingTasksSurvive
    TasksLeave
CHECK_DEADLOCK FALSE
