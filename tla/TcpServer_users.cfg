CONSTANTS
    Conns = {c1}
    Users = {u1}
    Callers = {"base"}
    MaxStarts = 1
    MaxCalls = 1
SPECIFICATION Spec
INVARIANTS
    CallsAreThreadSafe
CHECK_DEADLOCK FALSE
