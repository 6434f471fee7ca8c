SPECIFICATION FairSpec
CONSTANTS
  Findings = {f1, f2}
  MaxRounds = 2
  Metered = FALSE
  Budget = 0
  MaxStarts = 1
  MaxEvents = 1
  None = None
INVARIANTS
  RoundsNeverRunOut
PROPERTY EveryRunEnds
CHECK_DEADLOCK FALSE
