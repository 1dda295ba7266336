SPECIFICATION Spec
CONSTANTS
    MaxDepth = 4
    MaxRows = 8
    MaxColumns = 8
    MaxHeaderColumns = 8
    MaxRules = 2
    EndOfGranule = 64
    Bits <- MCBits
    Kilo = 18
    Mantissa <- MCMantissa
    MaxFloat32 = 65504
    Messages <- MCMessages
    Revisions <- MCRevisions
    Damages = {0, 1, 2, 3}
    MaxItems = 64
INVARIANTS RoundTrip ServerPacketIsRead ClientPacketIsUnderstood CutIsNoticed DamagedIsConsistent
    TypedReadIsExact CellsAreRowBinary JsonRowsAreExact FittingRowsAreTaken
CHECK_DEADLOCK FALSE
