SPECIFICATION Spec
CONSTANTS
    w1 = w1
    w2 = w2
    s1 = s1
    Workers = {w1}
    Sites = {s1}
    TTL = 2
    Window = 1
    MaxSweep = 1
    MaxStall = 1
    MaxBytes = 1
    None = None
INVARIANT
    BytesRead
