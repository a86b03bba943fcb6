SPECIFICATION Spec
CONSTANTS
  Calls = {c1}
  Budget = 2
  Grace = 1
  Slack = 3
  MaxHostCalls = 2
  CatchUp = 1
  MaxStalls = 5
  NoOutcome = NoOutcome
INVARIANTS
  TypeOK
  BudgetHonoured
  BilledForOwnTime
PROPERTIES
  EveryCallEnds
CHECK_DEADLOCK FALSE
