SPECIFICATION SmallSpec
CONSTANTS
  t1 = t1
  t2 = t2
  f1 = f1
  f2 = f2
  Tabs = {t1, t2}
  Fetches = {f1, f2}
INVARIANT PortsCounted
PROPERTY FetchEnds
CHECK_DEADLOCK FALSE
