SPECIFICATION CreateSpec
CONSTANTS
    N = 3
    Calls = {c1, c2}
    MinSlice = 2
    Timeouts = {0, 1, 3, 6, 8}
    Wrap = 4
    Delays = {0, 2, 3, 9}
INVARIANTS
    CreateTypeOK
    WithinBudget
    HealthyFound
