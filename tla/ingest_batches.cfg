CONSTANTS
  w1 = w1  c1 = c1  c2 = c2
  Requests = {w1, c1, c2}
  KindOf <- MCKindOf
  Bodies <- MCBodies
  Vendors <- MCVendors
  MaxPushFaults = 2
SPECIFICATION PushFairSpec
INVARIANTS AuditMatchesRows AnsweredIsPublished
PROPERTIES BatchEnds
CHECK_DEADLOCK FALSE
