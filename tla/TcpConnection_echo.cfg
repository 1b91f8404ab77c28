CONSTANTS
    Clients = {t1}
    MsgLens = {1, 2}
    SendBuffer = 2
    ReadChunk = 2
    Echo = TRUE
    MaxIn = 2
    MaxCalls = 2
SPECIFICATION Spec
INVARIANT EchoesWhatItReads
CHECK_DEADLOCK FALSE
