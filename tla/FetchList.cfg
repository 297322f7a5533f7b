CONSTANTS
    p = p
    j = j
    k = k
    A = A
    B = B
    h1 = h1
    h2 = h2
    MaxLen = 3
    Buckets = {A, B}
    Names = {p, j, k}
    Rows = {0, 1}
    Headers = {h1, h2}
    NoBucket = NoBucket
    NoData = NoData
    NoEvent = NoEvent
    Limit = 2
    Inputs <- MCInputs
SPECIFICATION FairSpec
INVARIANTS
        Quiescent
PROPERTIES
    BatchPromise
    Completes
