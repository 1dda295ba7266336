SPECIFICATION Spec
CONSTANTS
    RowCap = 2
    Flavours = {"small", "huge"}
    CmdCapacity = 1
    MayCancel = FALSE
    MaxRows = 3
INVARIANTS
    AcceptedIsStored
CHECK_DEADLOCK FALSE
