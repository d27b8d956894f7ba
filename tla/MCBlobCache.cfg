SPECIFICATION LruSpec
CONSTANTS
    k1 = k1
    k2 = k2
    k3 = k3
    k4 = k4
    Keys <- MCKeys
    Data <- MCData
    Length <- MCLength
    bytesCap = 5
INVARIANTS
    TypeOK
    Mirror
    HeldWithinBudget
    NeverSpins
PROPERTIES
    EvictsLeastRecentlyUsed
