SPECIFICATION SwarmingSpec
CONSTANTS
  w1 = w1
  w2 = w2
  w3 = w3
  p1 = p1
  p2 = p2
  NoWire = NoWire
  a1 = a1
  a2 = a2
  Wires = {w1, w2}
  Pieces = {p1, p2}
  Timed = {w1}
  Ranked = {p1, p2}
  MaxCount = 3
  Casts <- SomeCasts
  Interval = 3
  MinInterval = 2
  MaxDelay = 1
  MaxPeers = 1
INVARIANTS
  PeersKnown
  RarityExact
  PeersExchanged
  SeedServes
PROPERTY SlotsServe
CHECK_DEADLOCK FALSE
