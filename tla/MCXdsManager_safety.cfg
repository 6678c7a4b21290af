CONSTANTS
    a = a
    b = b
    v1 = v1
    v2 = v2
    s1 = s1
    s2 = s2
    NoRes = NoRes
    None = None
    Names <- MCNames
    Vals <- MCVals
    Streams <- OneStream
    NodeIds <- WithNodeId
    Subscriptions <- WildcardOrOne
    MaxVersion = 2
    MaxReqs = 2
    ProducerCtxCancellable = TRUE
    PushMayTimeout = TRUE
    AddMayFail = FALSE
    ClientMayMisbehave = TRUE

SPECIFICATION Spec
INVARIANT TypeOK ResponseMatchesVersion
PROPERTY StoreRefinement
CHECK_DEADLOCK FALSE
