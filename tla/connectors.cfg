CONSTANTS
  h1 = h1  h2 = h2  h3 = h3  h4 = h4  k1 = k1  k2 = k2
  Handlers = {h1, h2, h3, h4}
  Connectors = {k1, k2}
  Platforms = {"cloudflare", "aws", "webhook", "syslog"}
  MaxFaults = 1
SPECIFICATION Spec
INVARIANTS AuditTellsAll ToldKeyIsCurrent
PROPERTIES DeletedStaysDeleted
SYMMETRY HandlerSymmetry
CHECK_DEADLOCK FALSE
