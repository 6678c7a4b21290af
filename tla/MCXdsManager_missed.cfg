CONSTANTS
    a = a
    b = b
    v1 = v1
    v2 = v2
    s1 = s1
    s2 = s2
    NoRes = NoRes
    None = None
    Names <- MCNames
    Vals <- OneVal
    Streams <- OneStream
    NodeIds <- WithNodeId
    Subscriptions <- OneName
    MaxVersion = 2
    MaxReqs = 1
    ProducerCtxCancellable = TRUE
    PushMayTimeout = FALSE
    AddMayFail = FALSE
    ClientMayMisbehave = FALSE

SPECIFICATION Spec
PROPERTY Convergence
CHECK_DEADLOCK FALSE
