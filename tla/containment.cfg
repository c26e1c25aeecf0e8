CONSTANTS
  a1 = a1  a10 = a10  a2 = a2  host = host
  Addresses = {a1, a10, a2}
  HostIds = {host}
  PartOf <- MCPartOf
  TtlSecs = {0, 1, 3}
  DefaultTtl <- MCDefaultTtl
  MaxTtl = 2  MaxCommands = 3  MaxTime = 3  MaxNftFaults = 1
SPECIFICATION TtlFairSpec
INVARIANTS ContainedWhileTtl
PROPERTIES ExpiredIsReleased
CHECK_DEADLOCK FALSE
