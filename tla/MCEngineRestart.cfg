SPECIFICATION Spec
CONSTANTS
    Intents <- TwoIntents
    OrderOf <- TwoSmallExits
    AdoptedAs <- NoAdoption
    ControlPlane <- OnlyExits
    InitialPositions <- LongTwo
    InitialOrders <- NoOrders
    FirstOrderId = 1
    MaxKeys = 1
    Cancellable <- Nobody
    ReplaceQtys <- NoQtys
    MayReject = FALSE
    AsyncBroker = FALSE
    UniqueStamps = TRUE
    MaxCrashes = 2
    MaxFaults = 1
    MaxResends = 0
    MayLoseStateFile = TRUE
    FlagsMove = FALSE
INVARIANTS
    TypeOK
    NoDuplicatePlace
