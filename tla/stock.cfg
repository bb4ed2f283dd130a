SPECIFICATION HistorySpec
CONSTANTS
    MCRows = 2
    SecretId <- MCSecretId
    Content = {c1, c2}
    Order = {o1, o2}
    Delivery = {d1, d2, d3}
    Import = {i1}
    Paths = {"hook", "plain"}
    MaxDeliveries = 3
    MaxImports = 1
    SendCallbackRaises = TRUE
    RedisFails = TRUE
    NoOrder = NoOrder
    NoContent = NoContent
    NoSecret = NoSecret
INVARIANTS
    SoldOnce
    UsageMatchesDeliveries
    LastSaleTakesItemOffline
PROPERTY
    ImplementsLedger
SYMMETRY MCSymmetry
CHECK_DEADLOCK FALSE
