SPECIFICATION Spec
CONSTANTS
    g1 = g1
    g2 = g2
    Gets = {g1, g2}
    Objects <- MCObjects
    Size <- MCSize
    Reported <- MCReported
    totalBytes = 4
    maxBlobBytes = 6
    ErrNotExist = ErrNotExist
    ErrStore = ErrStore
    None = None
INVARIANTS
    TypeOK
    CachesWholeSmallBlobs
    RacingAddsAccounted
PROPERTIES
    Transparent
