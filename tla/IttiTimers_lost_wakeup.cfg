SPECIFICATION FairSpec
CONSTANTS
    u1 = u1
    u2 = u2
    Users = {u1}
    Intervals = {1, 2}
    MaxNow = 3
    MaxSetups = 2
    IdModulus = 8
PROPERTY OtherTimersFire
CHECK_DEADLOCK FALSE
