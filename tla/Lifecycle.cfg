CONSTANTS
    Handles = {h1, h2, h3}
    First = h1
    MaxQueued = 1
SPECIFICATION FairSpec
INVARIANTS
    LivesWithLastClone
    FirstCloseWaits
PROPERTIES
    Released
CHECK_DEADLOCK FALSE
