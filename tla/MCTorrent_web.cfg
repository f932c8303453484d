SPECIFICATION Spec
CONSTANTS
  p1 = p1
  w1 = w1
  w2 = w2
  s1 = s1
  NoPiece = NoPiece
  Pieces = {p1}
  Chunks <- TwoChunks
  Files <- TwoFiles
  Peers = {w1}
  WebSeeds = {s1}
  FastPeers = {w1}
  EarlyWires = TRUE
  PeerPipeline = 2
  WebPipeline = 2
  MaxId = 3
INVARIANTS
  FlushedIsFull
  LossIsExplained
PROPERTY Downloads
CHECK_DEADLOCK FALSE
