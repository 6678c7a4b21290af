SPECIFICATION Spec
CONSTANTS
    MaxVersion = 2
    MaxReqs = 3
    RandMayFail = FALSE
    Fallback = xxxxxxxx
    NoNonce = empty
    None = none
    xxxxxxxx = xxxxxxxx
    empty = empty
    none = none
INVARIANT TypeOK
INVARIANT NoSendOnClosed
PROPERTY TxRefinement
PROPERTY AdapterReturns
CHECK_DEADLOCK FALSE
