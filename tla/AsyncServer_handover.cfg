CONSTANTS
    MaxConns = 1
    MaxChunks <- OneMessage
    Acceptors = {a1}
SPECIFICATION Spec
INVARIANT BufferedSafely
CHECK_DEADLOCK FALSE
