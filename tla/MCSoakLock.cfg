SPECIFICATION FairSpec
CONSTANTS
    Procs <- ThreeProcs
    MaxCrashes = 2
    MaxUnlinkFailures = 1
INVARIANTS
    TypeOK
    OneSoakRuns
    RunnerHoldsLock
PROPERTIES
    LeftLockIsTakenOver
