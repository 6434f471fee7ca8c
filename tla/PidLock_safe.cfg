SPECIFICATION Spec
CONSTANTS
  a = a
  b = b
  c = c
  d = d
  Takers = {a, b, c, d}
  Hosts = {"here", "there"}
  HostOf <- MCHostOf
  None = None
SYMMETRY SameHost
INVARIANTS
  LockIsItsRuns
PROPERTY
  FirstOverlapIsUnread
CHECK_DEADLOCK FALSE
