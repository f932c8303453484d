SPECIFICATION StartingSpec
CONSTANTS
  Torrents <- TwoTorrents
  Utp = FALSE
  Null = Null
  t1 = t1
  t2 = t2
  q1 = q1
  q2 = q2
  c1 = c1
  c2 = c2
  c3 = c3
  c4 = c4
  Ports = {q1, q2}
  Clients = {c1, c2, c3, c4}
  Setups <- SomeSetups
  MaxLive = 1
  None = None
INVARIANT Identified
PROPERTIES
  Quiet
  PortLearned
  Closes
CHECK_DEADLOCK FALSE
