SPECIFICATION FairSpec
CONSTANTS
  Commands = {"admit", "check"}
  Admissions = {"admit"}
  Exclusive = {"check"}
  RepoOf <- MCRepoOf
  KeyOf <- MCKeyOf
  Repos = {"repo"}
  MaxJobs = 3
  MaxLaunches = 2
  MaxFailures = 1
  None = "none"
INVARIANTS CommandsTakeTurns LiveJobsAreUnderWay
PROPERTIES StopIsKept OutcomesStand EveryCommandEnds
CHECK_DEADLOCK FALSE
