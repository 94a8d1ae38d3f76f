SPECIFICATION Spec
CONSTANTS
    Qty = 2
    ResetsCursor = FALSE
    MaxSessions = 2
    MaxRuns = 2
INVARIANTS
    EndedFillIsReal
