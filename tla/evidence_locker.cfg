SPECIFICATION Spec
CONSTANTS
  s1 = s1
  s2 = s2
  a1 = a1
  b1 = b1
  b2 = b2
  d1 = d1
  d2 = d2
  None = None
  Edited = Edited
  Servers <- TwoServers
  Alerts <- OneAlert
  Bundles <- TwoBundles
  Details <- TwoDetails
  MaxKey = 2
  MaxFaults = 2
SYMMETRY Symmetry
INVARIANTS VerifiedWasAccepted AnsweredVerifies
CHECK_DEADLOCK FALSE
