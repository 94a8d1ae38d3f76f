SPECIFICATION SenderSpec
CONSTANTS
    s1 = s1
    k1 = k1
    k2 = k2
    k3 = k3
    Senders = {s1}
    Keys = {k1, k2, k3}
    Plans <- MCPlans
    RunModes = {"ALLOW_NEW_ENTRIES", "NO_TRADE"}
    Controls <- MCControls
    ExecModes = {"DRY_RUN", "FULL"}
    KLimit = 2
    RunLimit = 2
    OrderIdFloor = 2
    MaxCrashes = 1
    MaxEdits = 2
    MaxResets = 1
INVARIANTS SenderTypeOK SentAtMostOnce RunLimitUpToCrashes OrderIdsIncrease
