CONSTANTS
    s1 = s1
    s2 = s2
    a = a
    b = b
    x = x
    y = y
    z = z
    attestation = attestation
    Subjects = {s1, s2}
    Sources = {a, b}
    Ids = {x, y, z}
    Types = {attestation, tombstone}
    Tombstone = tombstone
    NoId = NoId
    Times = {1, 2, 3}
    NoTime = NoTime
    MaxQueryLimit = 3
    Uploads <- MCUploads
    Ingested <- MCIngested
    Requests <- MCRequests
    Limits <- MCLimits
SPECIFICATION Spec
INVARIANTS
    TypeOK
    ListIsExact
    LatestIsNewest
    SummariesAreExact
    StoredIsReadable
