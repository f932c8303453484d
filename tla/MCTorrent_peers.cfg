SPECIFICATION FairSpec
CONSTANTS
  p1 = p1
  w1 = w1
  w2 = w2
  s1 = s1
  NoPiece = NoPiece
  Pieces = {p1}
  Chunks <- TwoChunks
  Files <- OneFile
  Peers = {w1, w2}
  WebSeeds = {}
  FastPeers = {}
  EarlyWires = FALSE
  PeerPipeline = 2
  WebPipeline = 1
  MaxId = 3
INVARIANTS
  TypeOK
  Agreement
  NoLostBlock
  OneRequestPerBlock
PROPERTY Completes
CHECK_DEADLOCK FALSE
