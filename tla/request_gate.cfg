CONSTANTS
  c1 = c1  c2 = c2
  Clients = {c1, c2}
  Limit = 2  Window = 3  PruneEvery = 2
  CspBudget = 1  CspWindow = 2  StreamMax = 1
  TicksPerSec = 2
  AuditMax = 2  MaxDay = 2
  MaxRequests = 4  MaxTime = 5  MaxFaults = 1
SPECIFICATION Spec
SYMMETRY ClientSymmetry
CHECK_DEADLOCK FALSE
INVARIANTS BudgetHolds DeniedIsOverBudget TiersAgree EntryAccounted
