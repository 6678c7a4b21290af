SPECIFICATION Spec
CONSTANTS
    MaxVersion = 2
    MaxReqs = 3
    RandMayFail = TRUE
    Fallback = xxxxxxxx
    NoNonce = empty
    None = none
    xxxxxxxx = xxxxxxxx
    empty = empty
    none = none
PROPERTY TxRefinement
CHECK_DEADLOCK FALSE
