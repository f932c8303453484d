SPECIFICATION Spec
CONSTANTS
  s1 = s1
  s2 = s2
  p1 = p1
  p2 = p2
  a1 = a1
  h1 = h1
  h2 = h2
  None = None
  Sockets = {s1, s2}
  WsIds = {p1, p2}
  Addrs = {a1}
  InfoHashes = {h1}
  MaxSwarms = 2
  MaxPeers = 1
  Announces <- SomeAnnounces
  Receivers = {p1}
  Batch = 2
INVARIANT CountsAgree
PROPERTY PeersKept
SYMMETRY Sym
CHECK_DEADLOCK FALSE
