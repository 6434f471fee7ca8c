SPECIFICATION Spec
CONSTANTS
  Findings = {f1}
  MaxRounds = 1
  Metered = TRUE
  Budget = 2
  MaxStarts = 2
  MaxEvents = 1
  None = None
INVARIANTS
  LimitsAreKept
  AttemptsAreNamedOnce
  RetainedDiffOnce
  FindingsAreOfTheBranch
PROPERTIES
  PublishedWasJudged
  RecordIsAppended
CHECK_DEADLOCK FALSE
