SPECIFICATION MessageSpec
CONSTANTS
  raw = raw
  ephemeral = ephemeral
  lake = lake
  json = json
  blobbed = blobbed
  file = file
  h1 = h1
  h2 = h2
  NoBucket = NoBucket
  NoData = NoData
  NoEvent = NoEvent
  Buckets <- MCBuckets
  Names <- MCNames
  Rows <- MCRows
  Headers = {h1, h2}
  buckets <- MCOrder
  InitStore <- MCInitStore
  Inserts <- MCInserts
  MaxRows = 2
  Objects <- MCObjects
  Requests <- MCRequests
  Limits = {0, 2}
  Base64 <- MCBase64
  Events <- MCEvents
  MaxTrips = 3
INVARIANTS
  TypeOK
  TwoCallsPin
  PayloadsLeftOut
  SettlesAfterOneTrip
  KeepsWhatItCan
PROPERTIES
  StatusNamesCause
