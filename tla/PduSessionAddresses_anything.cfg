SPECIFICATION Spec
CONSTANTS
    k1 = k1
    k2 = k2
    k3 = k3
    Keys = {k1, k2}
    Static <- StaticOutside
    num = 2
    WordBits = 4
    MaxCreates = 3
    MaxReleases = 1
    Overlap = TRUE
    UpfAbsent = TRUE
    UpfRejects = TRUE
    InOrder = FALSE
CHECK_DEADLOCK FALSE
INVARIANT StaysInPool
