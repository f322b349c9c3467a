SPECIFICATION Spec
CONSTANTS
    s1 = s1
    s2 = s2
    ueAddress = ueAddress
    Sessions = {s1, s2}
    Addresses = {ueAddress}
    MaxTransactions = 6
    MaxLost = 0
    MaxUpsets = 0
INVARIANT ServedWhateverCameBefore
CHECK_DEADLOCK FALSE
