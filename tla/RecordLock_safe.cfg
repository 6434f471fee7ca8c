SPECIFICATION FairSpec
CONSTANTS
  a = a
  b = b
  c = c
  Writers = {a, b, c}
  Hosts = {"here", "there"}
  HostOf <- MCHostOf
  None = None
INVARIANTS
  ExclusiveUnlessStolen
PROPERTIES
  FirstTheftOfAnAbsentLock
  SerialSpec
  EveryWriterEnds
CHECK_DEADLOCK FALSE
