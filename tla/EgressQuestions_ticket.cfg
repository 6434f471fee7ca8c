SPECIFICATION FairSpec
CONSTANTS
  r1 = r1
  r2 = r2
  c1 = c1
  c2 = c2
  c3 = c3
  t1 = t1
  h1 = h1
  Tickets = {t1}
  Runs = {r1, r2}
  TicketOf <- OneTicket
  Calls = {c1, c2, c3}
  RunOf <- ThreeCalls
  Hosts = {h1, "odd"}
  Plain = {h1}
  Persons = {"p"}
  None = None
  MaxEvents = 1
INVARIANTS
  OneQuestionWaitedOn
  AnswersDecide
PROPERTIES
  SettledStands
  RefusalsAreRemembered
  EveryAskEnds
CHECK_DEADLOCK FALSE
