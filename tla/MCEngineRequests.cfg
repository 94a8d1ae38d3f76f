SPECIFICATION Spec
CONSTANTS
    Intents <- OneIntent
    OrderOf <- OneSmallExit
    AdoptedAs <- NoAdoption
    ControlPlane <- OnlyExits
    InitialPositions <- LongTwo
    InitialOrders <- NoOrders
    FirstOrderId = 1
    MaxKeys = 4
    Cancellable <- OneIntent
    ReplaceQtys <- Larger
    MayReject = TRUE
    AsyncBroker = TRUE
    UniqueStamps = TRUE
    MaxCrashes = 1
    MaxFaults = 1
    MaxResends = 1
    MayLoseStateFile = FALSE
    FlagsMove = FALSE
INVARIANTS
    PositionsOnlyShrink
    DoneIsFlat
    FillsNotOvercounted
PROPERTIES
    RecordedEndIsFinal
