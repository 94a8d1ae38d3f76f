SPECIFICATION FairSpec
CONSTANTS
    s1 = s1
    s2 = s2
    k1 = k1
    k2 = k2
    Senders = {s1, s2}
    Keys = {k1, k2}
    Plans <- MCPlans
    RunModes = {"ALLOW_NEW_ENTRIES"}
    Controls <- MCControls
    ExecModes = {"FULL"}
    KLimit = 1
    RunLimit = 2
    OrderIdFloor = 1
    MaxCrashes = 1
    MaxEdits = 1
    MaxResets = 0
    StealStale = TRUE
    PidKnown = TRUE
    SerialStarts = TRUE
    Once = FALSE
    MaxKills = 1
INVARIANTS TypeOK OneLoopRuns RunningLoopOwnsLock OverlapOnlyAfterKill
PROPERTIES PlanWorkedOff
CHECK_DEADLOCK FALSE
