SPECIFICATION Spec
CONSTANTS
    RowCap = 2
    Flavours = {"small", "big", "huge", "ragged"}
    CmdCapacity = 2
    MayCancel = TRUE
    MaxRows = 4
INVARIANTS
    EndIsExact
    InOrderOnce
    ReturnedIsSettled
    IInv
CHECK_DEADLOCK FALSE
