CONSTANTS
    Conns = {c1}
    Users = {u1}
    Callers = {"base", "other"}
    MaxStarts = 2
    MaxCalls = 2
SPECIFICATION FairSpec
INVARIANTS
    RawFunctorsSafe
    NoDanglingChannel
    FreedIsDisconnected
    DestroyedOnce
PROPERTIES
    ClosedPeerIsFreed
CHECK_DEADLOCK FALSE
