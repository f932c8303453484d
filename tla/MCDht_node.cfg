SPECIFICATION Spec
CONSTANTS
  n1 = n1
  n2 = n2
  n3 = n3
  h1 = h1
  h2 = h2
  Scenes <- AllScenes
  Nodes = {n1, n2, n3}
  K = 2
  Hosts = {h1, h2}
  Ticks = 2
  MaxValues = 1
  MaxSeq = 2
  Other = Other
  None = None
PROPERTIES
  NodesKept
  Announced
CHECK_DEADLOCK FALSE
