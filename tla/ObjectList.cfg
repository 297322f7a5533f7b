SPECIFICATION Spec
CONSTANTS
  p = p
  j = j
  k = k
  A = A
  B = B
  h = h
  Buckets = {A, B}
  Names = {p, j, k}
  Rows = {0, 1}
  Headers = {h}
  NoBucket = NoBucket
  NoData = NoData
  NoEvent = NoEvent
  Missing = Missing
  Limit = 2
  maxObjectSize = 2
  MaxChunk = 2
  Inputs <- MCInputs
INVARIANTS
  MemoryBounded
PROPERTIES
  BatchPromise
  Completes
CHECK_DEADLOCK FALSE
