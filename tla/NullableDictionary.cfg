SPECIFICATION Spec
CONSTANTS
    MaxDepth = 4
    MaxRows = 8
    MaxColumns = 8
    MaxHeaderColumns = 8
    MaxRules = 2
    EndOfGranule = 64
    Bits <- MCBits
    Kilo = 18
    Mantissa <- MCMantissa
    MaxFloat32 = 65504
    Messages <- MCNullableDictionary
    Revisions <- MCRevisions
    Damages = {0, 1, 2, 3}
    MaxItems = 64
INVARIANT OnlyNullReadsAsNull
CHECK_DEADLOCK FALSE
