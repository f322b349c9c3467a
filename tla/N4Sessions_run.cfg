SPECIFICATION Spec
CONSTANTS
    s1 = s1
    s2 = s2
    ueAddress = ueAddress
    Sessions = {s1, s2}
    Addresses = {ueAddress}
    MaxTransactions = 9
    MaxLost = 1
    MaxUpsets = 1
INVARIANT TypeOK
INVARIANT NoForeignDelivery
INVARIANT ServedExactlyWhenActive
INVARIANT RulesAgree
PROPERTY ReleasedIsFreed
CHECK_DEADLOCK FALSE
