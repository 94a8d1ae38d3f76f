SPECIFICATION Spec
CONSTANTS
    Keys <- MCKeys
    MaxKeys = 2
    MaxAccepted = 5
INVARIANTS
    TypeOK
    ListSetAgree
    WindowExact
    NoRecount
