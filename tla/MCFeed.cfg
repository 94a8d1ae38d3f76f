SPECIFICATION FairSpec
CONSTANTS
    Qty = 2
    ResetsCursor = TRUE
    MaxSessions = 2
    MaxRuns = 2
INVARIANTS
    TypeOK
    FillsNotOvercounted
    EndedFillIsReal
PROPERTIES
    ClosedOrderEndsTicket
