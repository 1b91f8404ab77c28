CONSTANTS
    MaxTasks = 3
    MaxEvents = 1
SPECIFICATION FairSpec
INVARIANTS
    OneResumePerSuspension
    ResumesAreDefined
    FramesOwned
    NoExceptionLost
PROPERTIES
    SpawnedIsFreed
CHECK_DEADLOCK FALSE
