SPECIFICATION Spec
CONSTANTS
  Findings = {f1}
  MaxRounds = 1
  Metered = FALSE
  Budget = 0
  MaxStarts = 2
  MaxEvents = 0
  None = None
INVARIANT ApprovedWasJudged
CHECK_DEADLOCK FALSE
