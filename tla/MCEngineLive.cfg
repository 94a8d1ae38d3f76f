SPECIFICATION FairSpec
CONSTANTS
    Intents <- TwoIntents
    OrderOf <- TwoAndOneExits
    AdoptedAs <- NoAdoption
    ControlPlane <- OnlyExits
    InitialPositions <- LongThree
    InitialOrders <- NoOrders
    FirstOrderId = 1
    MaxKeys = 4
    Cancellable <- TwoIntents
    ReplaceQtys <- NoQtys
    MayReject = TRUE
    AsyncBroker = FALSE
    UniqueStamps = TRUE
    MaxCrashes = 0
    MaxFaults = 0
    MaxResends = 0
    MayLoseStateFile = FALSE
    FlagsMove = TRUE
INVARIANTS
    BooksAgree
    OrderIdsAreOwn
PROPERTIES
    ClosedOrderEndsTicket
    CancelWantedEndsTicket
