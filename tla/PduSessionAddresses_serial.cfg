SPECIFICATION Spec
CONSTANTS
    k1 = k1
    k2 = k2
    k3 = k3
    Keys = {k1, k2, k3}
    Static <- StaticBelow
    num = 1
    WordBits = 4
    MaxCreates = 3
    MaxReleases = 2
    Overlap = FALSE
    UpfAbsent = TRUE
    UpfRejects = FALSE
    InOrder = TRUE
CHECK_DEADLOCK FALSE
INVARIANT TypeOK
INVARIANT NoSharedAddress
 
