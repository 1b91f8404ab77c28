CONSTANTS
    MaxConns = 1
    MaxChunks <- OneMessage
    Acceptors = {a1}
SPECIFICATION FairSpec
PROPERTY SendReturns
CHECK_DEADLOCK FALSE
