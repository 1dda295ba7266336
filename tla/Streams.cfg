CONSTANTS
    Calls = {c1, c2}
    Kinds = {"stream", "ping"}
    CmdCapacity = 1
    PacketCapacity = 1
    StreamCapacity = 1
    UpCapacity = 2
    DownCapacity = 1
    ReadTimeout = FALSE
    MayShutdown = FALSE
    MaxWaiting = 2
    MaxPackets = 3
    None = None
SPECIFICATION Spec
SYMMETRY CallSymmetry
INVARIANTS
    StreamIsFaithful
    Delivery
CHECK_DEADLOCK FALSE
