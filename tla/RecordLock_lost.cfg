SPECIFICATION FairSpec
CONSTANTS
  a = a
  b = b
  c = c
  Writers = {a, b, c}
  Hosts = {"here"}
  HostOf <- OneHost
  None = None
INVARIANT NoLostUpdate
CHECK_DEADLOCK FALSE
