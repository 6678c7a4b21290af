CONSTANTS
    a = a
    b = b
    v1 = v1
    v2 = v2
    s1 = s1
    s2 = s2
    NoRes = NoRes
    None = None
    Names <- MCNames
    Vals <- OneVal
    Streams <- OneStream
    NodeIds <- WithNodeId
    Subscriptions <- WildcardOnly
    MaxVersion = 3
    MaxReqs = 2
    ProducerCtxCancellable = TRUE
    PushMayTimeout = FALSE
    AddMayFail = FALSE
    ClientMayMisbehave = FALSE

SPECIFICATION Spec
PROPERTY Convergence
CHECK_DEADLOCK FALSE
