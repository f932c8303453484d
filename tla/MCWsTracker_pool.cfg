SPECIFICATION Spec
CONSTANTS
  t1 = t1
  t2 = t2
  k1 = k1
  k2 = k2
  o1 = o1
  o2 = o2
  None = None
  Trackers = {t1, t2}
  Socks = {k1, k2}
  Offers = {o1, o2}
  Want = 2
INVARIANT PoolServes
PROPERTY DestroyEnds
CHECK_DEADLOCK FALSE
