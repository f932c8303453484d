SPECIFICATION ReadersSpec
CONSTANTS
  r1 = r1
  r2 = r2
  NumPieces = 3
  Readers = {r1, r2}
  Requests <- OneFile
  Calls <- SomeRanges
  Names <- SomeNames
  Sites <- SomeSites
  Asks <- SomeAsks
INVARIANTS
  NothingMissing
  SameSite
PROPERTIES
  RangesKept
  Served
  RequestsEnd
CHECK_DEADLOCK FALSE
