CONSTANTS
    CheapPrepend = 1
    InitialSize = 3
    ExtraSize = 4
    MaxSize = 8
    MaxBytes = 7
SPECIFICATION Spec
INVARIANT NeverOverruns
CHECK_DEADLOCK FALSE
