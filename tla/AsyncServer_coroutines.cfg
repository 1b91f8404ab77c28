CONSTANTS
    MaxConns = 2
    MaxChunks <- FirstTalks
    Acceptors = {a1, a2}
SPECIFICATION FairSpec
INVARIANTS
    ChunksIntact
    OneResumePerRecv
    NoSpuriousEof
    ThrowNeedsTwoAcceptors
PROPERTIES
    AcceptsInOrder
    DataIsDelivered
    EveryConnectionHandled
CHECK_DEADLOCK FALSE
