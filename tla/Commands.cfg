CONSTANTS
    Calls = {c1, c2}
    Kinds = {"ping", "query", "begin", "block", "oversize", "finish", "stream"}
    CmdCapacity = 1
    PacketCapacity = 1
    StreamCapacity = 1
    UpCapacity = 2
    DownCapacity = 1
    ReadTimeout = TRUE
    MayShutdown = TRUE
    MaxWaiting = 2
    MaxPackets = 1
    None = None
SPECIFICATION Spec
SYMMETRY CallSymmetry
INVARIANTS
    ReusableIsClean
    ReadsOwnResponse
    OwnAnswer
    RefusedIsUnsent
    IInv
CHECK_DEADLOCK FALSE
