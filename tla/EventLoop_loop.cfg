CONSTANTS
    LoopThread = loop
    Clients = {c1, c2}
    IoChannels = {io1, io2}
    Wakeup = wakeup
    PipeCapacity = 1
    EventListSize = 1
    MaxFunctors = 3
    MaxQuits = 1
    MaxSignals = 1
SPECIFICATION FairSpec
INVARIANTS
    TypeOK
    NoLostWakeup
    QuitUnblocksPoll
    FifoExactlyOnce
PROPERTIES
    ImplementsLoopQueue
    QueuedFunctorStarts
    WriterUnblocks
    QuitStopsLoop
    TimeoutServes
CHECK_DEADLOCK FALSE
