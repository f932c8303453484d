SPECIFICATION Spec
CONSTANTS
  o1 = o1
  o2 = o2
  o3 = o3
  o4 = o4
  a1 = a1
  a2 = a2
  a3 = a3
  NoPeer = NoPeer
  Objects = {o1, o2, o3, o4}
  Known = {a1, a2}
  Remote = {a1}
  MaxConns = 1
  MaxRetries = 1
  MaxLength = 2
  Utp = TRUE
INVARIANTS
  ConnsCounted
  PeersAgree
  LeakIsExplained
SYMMETRY Sym
CHECK_DEADLOCK FALSE
