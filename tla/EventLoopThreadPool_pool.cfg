CONSTANTS
    NumThreads = 3
    MaxConns = 5
SPECIFICATION FairSpec
INVARIANTS
    ReturnedLoopsUsable
    NoNotificationLost
    Balanced
PROPERTIES
    StartReturns
    DestructorReturns
CHECK_DEADLOCK FALSE
