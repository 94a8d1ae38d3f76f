SPECIFICATION Spec
CONSTANTS
    Intents <- ThreeIntents
    OrderOf <- ThreeSmallExits
    AdoptedAs <- ThirdAdopted
    ControlPlane <- OnlyExits
    InitialPositions <- LongThree
    InitialOrders <- OneHandOrder
    FirstOrderId = 1
    MaxKeys = 4
    Cancellable <- Nobody
    ReplaceQtys <- NoQtys
    MayReject = FALSE
    AsyncBroker = FALSE
    UniqueStamps = TRUE
    MaxCrashes = 1
    MaxFaults = 0
    MaxResends = 0
    MayLoseStateFile = FALSE
    FlagsMove = FALSE
PROPERTIES
    ImplementsLifecycle
