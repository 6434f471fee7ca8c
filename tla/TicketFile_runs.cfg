SPECIFICATION Spec
CONSTANTS
  Runs = {r1, r2}
  Syncs = {s1}
  MaxPulls = 1
  EarlierRun = FALSE
  None = None
SYMMETRY Symmetry
CONSTRAINT ErasedAlone
INVARIANTS HistoryIsALifecycle OpenerIsTrueWhereNothingWasLost OnlyAMovedTicketRefusesAResult ReopenIsTheShortestRoute
PROPERTY RefusalReturns
CHECK_DEADLOCK FALSE
