CONSTANTS
    Calls = {1, 2, 3}
    Kinds = {"begin", "block", "finish"}
    CmdCapacity = 1
    PacketCapacity = 1
    StreamCapacity = 1
    UpCapacity = 1
    DownCapacity = 1
    ReadTimeout = TRUE
    MayShutdown = FALSE
    MaxWaiting = 1
    MaxPackets = 0
    None = None
SPECIFICATION FairSpec
CONSTRAINT SubmittedInOrder
INVARIANTS
    FinishedInsertIsStored
    Delivery
PROPERTIES
    EveryCallReturns
CHECK_DEADLOCK FALSE
