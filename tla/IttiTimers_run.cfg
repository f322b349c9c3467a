SPECIFICATION FairSpec
CONSTANTS
    u1 = u1
    u2 = u2
    Users = {u1, u2}
    Intervals = {0, 1, 2}
    MaxNow = 3
    MaxSetups = 2
    IdModulus = 3
INVARIANT TypeOK
INVARIANT NoTimerEvaporates
INVARIANT CancelledBeforeDueNeverFires
INVARIANT FiresAtMostOnce
INVARIANT NeverFiresEarly
PROPERTY EveryTimerFires
CHECK_DEADLOCK FALSE
