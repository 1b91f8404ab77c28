CONSTANTS
    Clients = {t1, t2}
    MsgLens = {1, 3}
    SendBuffer = 2
    ReadChunk = 1
    Echo = FALSE
    MaxIn = 1
    MaxCalls = 3
SPECIFICATION FairSpec
INVARIANTS
    StreamIntact
    BufferedIffWatched
    ClosedIsSilent
PROPERTIES
    FinAfterFlush
    ShutdownCompletes
    PeerGoneReaped
CHECK_DEADLOCK FALSE
