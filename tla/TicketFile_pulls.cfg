SPECIFICATION FairSpec
CONSTANTS
  Runs = {r1}
  Syncs = {s1}
  MaxPulls = 2
  EarlierRun = TRUE
  None = None
INVARIANTS MergedIsTrue ResumedOnEvidence
PROPERTIES MergeIsRecorded
CHECK_DEADLOCK FALSE
