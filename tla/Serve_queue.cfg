SPECIFICATION FairSpec
CONSTANTS
  a = a
  b = b
  Unknown = Unknown
  Keys <- MCKeys
  Rank <- MCRank
  PlansWritten <- MCPlans
  Capacity = 1
  MergeByLoop = TRUE
  MaxEvents = 1
CHECK_DEADLOCK FALSE
INVARIANTS ChildrenWithinCapacity
PROPERTIES DecisionsOverWhatTheyRead RelevelledOnceATip StartsAreClear NobodyWaitsForNothing
