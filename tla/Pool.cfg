CONSTANTS
    Calls = {1, 2}
    Conns = {1, 2}
    Kinds = {"query", "idempotent", "stream", "insert"}
    MaxSize = 1
    MaxAttempts = 2
    MaxHurried = 1
    None = None
SPECIFICATION FairSpec
CONSTRAINT KindsInOrder
ACTION_CONSTRAINT FirstFree
INVARIANTS NoLostSlot ConnectionsBounded NoWedge IInv
PROPERTIES KeepsPromise EveryCallSettles
CHECK_DEADLOCK FALSE
