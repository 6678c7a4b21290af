CONSTANTS
    a = a
    b = b
    v1 = v1
    v2 = v2
    s1 = s1
    s2 = s2
    NoRes = NoRes
    None = None
    Names <- MCNames
    Vals <- OneVal
    Streams <- OneStream
    NodeIds <- WithNodeId
    Subscriptions <- WildcardOnly
    MaxVersion = 2
    MaxReqs = 1
    ProducerCtxCancellable = FALSE
    PushMayTimeout = FALSE
    AddMayFail = FALSE
    ClientMayMisbehave = FALSE

SPECIFICATION Spec
PROPERTY LockEventuallyGranted
CHECK_DEADLOCK FALSE
