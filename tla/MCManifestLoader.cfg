SPECIFICATION Spec
CONSTANTS
    r1 = r1
    r2 = r2
    r3 = r3
    ka = ka
    kb = kb
    bad = bad
    ma = ma
    mb = mb
    Requests = {r1, r2, r3}
    Keys = {ka, kb}
    Manifests <- MCManifests
    ApproxSize <- MCApproxSize
    Object <- MCObject
    Capacity = 1
    BytesCapacity = 0
    ErrParse = ErrParse
    ErrNotExist = ErrNotExist
    ErrStore = ErrStore
    ErrContext = ErrContext
    None = None
SYMMETRY RequestSymmetry
INVARIANTS
    TypeOK
    OneReadPerKey
    AnswersTrue
    AbsenceUncontradicted
    LeaderIsCurrent
    WaitersHaveALeader
