SPECIFICATION FairSpec
CONSTANTS
    r1 = r1
    r2 = r2
    ka = ka
    bad = bad
    ma = ma
    page = page
    feed = feed
    lost = lost
    builtin = builtin
    b1 = b1
    b2 = b2
    Requests = {r1, r2}
    Keys = {ka, bad}
    Manifests <- MCManifests
    ApproxSize <- MCApproxSize
    Object <- MCObject
    Capacity = 1
    BytesCapacity = 0
    ErrParse = ErrParse
    ErrNotExist = ErrNotExist
    ErrStore = ErrStore
    ErrContext = ErrContext
    None = None
    Blobs = {page, feed, lost}
    Stored = {page, feed}
    Length <- MCLength
    copyBufSize = 2
    defaultNotFoundBody = builtin
    Sized = {page}
    Buffers = {b1, b2}
INVARIANTS
    TypeOK
    OwnBytesOnly
    CompleteMeansWhole
    DeliveredBytesCounted
PROPERTIES
    EveryRequestAnswered
    HandlerEndsOnceClientLeaves
