SPECIFICATION Spec
CONSTANTS
    MaxVersion = 2
    MaxReqs = 3
    RandMayFail = FALSE
    Fallback = xxxxxxxx
    NoNonce = empty
    None = none
    xxxxxxxx = xxxxxxxx
    empty = empty
    none = none
PROPERTY PumpsTerminate
CHECK_DEADLOCK FALSE
