SPECIFICATION LruSpec
CONSTANTS
    k1 = k1
    k2 = k2
    k3 = k3
    k4 = k4
    tiny = tiny
    small = small
    medium = medium
    huge = huge
    Keys <- MCKeys
    Manifests <- MCManifests
    ApproxSize <- MCApproxSize
    Capacity = 3
    BytesCapacity = 5
INVARIANTS
    TypeOK
    Mirror
    BytesAccounted
    WithinBudget
PROPERTIES
    EvictsOnlyUnderPressure
    EvictsLeastRecentlyUsed
