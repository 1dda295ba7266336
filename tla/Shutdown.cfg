CONSTANTS
    Calls = {1, 2}
    Kinds = {"stream"}
    CmdCapacity = 1
    PacketCapacity = 1
    StreamCapacity = 1
    UpCapacity = 1
    DownCapacity = 1
    ReadTimeout = TRUE
    MayShutdown = TRUE
    MaxWaiting = 2
    MaxPackets = 1
    None = None
SPECIFICATION FairSpec
CONSTRAINT SubmittedInOrder
PROPERTIES
    EveryCallReturns
    ShutdownEnds
CHECK_DEADLOCK FALSE
