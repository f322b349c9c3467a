SPECIFICATION Spec
CONSTANTS
    NumUes = 1
    MaxAmfId = 3
    MaxEvents = 3
INVARIANT TypeOK
INVARIANT AcceptedOnOneConnection
INVARIANT ImplicitTimeoutFindsContext
INVARIANT EndedConnectionForgotten
PROPERTY OldReleaseKeepsNew
PROPERTY RequestsAnswered
CHECK_DEADLOCK FALSE
