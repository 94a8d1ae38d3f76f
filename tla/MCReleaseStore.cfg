SPECIFICATION Spec
CONSTANTS
    KeepLast = 3
    KeepNewest = 3
    MaxBuilds = 4
    MaxPacks = 4
    MaxCrashes = 1
    MaxCleanings = 2
    MaxPins = 1
INVARIANTS TypeOK PairsBelongTogether ShippedHoldsWhatItDeclares PinnedStays
PROPERTIES LastGoodSurvives
CHECK_DEADLOCK FALSE
