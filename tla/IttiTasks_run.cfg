SPECIFICATION FairSpec
CONSTANTS
    NumTasks = 2
    MaxMessages = 3
    SignalDuringStartup = FALSE
INVARIANT TypeOK
INVARIANT NothingOvertakes
INVARIANT ExitMeansQuiet
PROPERTY QueuedIsHandled
PROPERTY SignalEndsEverything
CHECK_DEADLOCK FALSE
