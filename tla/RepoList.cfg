CONSTANTS
    p = p
    q = q
    j = j
    k = k
    A = A
    B = B
    h1 = h1
    h2 = h2
    MaxLen = 3
    Buckets = {A, B}
    Names = {p, q, j, k}
    Rows = {0, 1}
    Headers = {h1, h2}
    NoBucket = NoBucket
    NoData = NoData
    NoEvent = NoEvent
    Limit = 2
    Inputs <- MCInputs
SPECIFICATION FairSpec
INVARIANTS
    TypeOK
    BatchExact
    Quiescent
    NoDuplicateDownload
PROPERTIES
    BatchPromise
    WriteOnce
    Completes
