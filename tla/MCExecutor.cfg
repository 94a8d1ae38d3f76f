SPECIFICATION Spec
CONSTANTS
    e1 = e1
    k1 = k1
    k2 = k2
    c1 = c1
    Executors = {e1}
    Keys = {k1, k2}
    Contracts = {c1}
    Plan <- MCThree
    Modes = {"EXIT_ONLY", "FULL"}
    AllowRetry = FALSE
    Reconcile = TRUE
    EmptyOk = TRUE
    MaxOrders = 0
    LateOrders = TRUE
    LateSnapshots = FALSE
    MaxRuns = 3
    MaxEdits = 1
    MaxSnapshots = 2
INVARIANTS TypeOK SubmittedOnce
PROPERTIES OpenOrdersBlock
CHECK_DEADLOCK FALSE
