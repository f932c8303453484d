SPECIFICATION WireSpec
CONSTANTS
  b1 = b1
  b2 = b2
  w1 = w1
  w2 = w2
  p1 = p1
  p2 = p2
  x1 = x1
  Blocks = {b1, b2}
  AllowedFast = {b2}
  Owned = {b1}
  ReadsFail = TRUE
  Duplicates = TRUE
  MaxRequests = 2
  MaxQueue = 2
  Keys = {"key", "key19"}
  Setups <- SomeSetups
  Attempts = 2
  Splits = TRUE
  LongPads = TRUE
  Wires = {w1, w2}
  Kinds <- Casts
  Pieces = {p1, p2}
  Urls = {x1}
  FromFile = FALSE
  MaxHandshakes = 1
  MaxChecks = 2
INVARIANTS
  RequestsKept
  Agreed
  Fetched
PROPERTIES
  NoPieceWhileChoking
  Answered
  Connects
  Arrives
CHECK_DEADLOCK FALSE
