SPECIFICATION Spec
CONSTANTS
  p1 = p1
  p2 = p2
  m1 = m1
  m2 = m2
  Pulls <- MCPulls
  Mergers <- MCMergers
  MaxHeads = 3
  MaxEvents = 2
SYMMETRY Alike
CHECK_DEADLOCK FALSE
INVARIANTS LockFollowsTheMerge MergesOntoWhatItRead
PROPERTIES MergesWhatWasApproved
