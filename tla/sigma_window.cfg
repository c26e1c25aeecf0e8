SPECIFICATION Spec
CONSTANTS
  w1 = w1
  w2 = w2
  Workers <- TwoWorkers
  NumRules = 2
  Count <- RuleCount
  Timeframe <- RuleTimeframe
  CooldownSec <- RuleCooldown
  MaxEvent = 3
  MaxClock = 1
  MaxFaults = 1
INVARIANTS FiresOnlyOnBurst DebouncedUnlessRaced RecordedBurstFires
CHECK_DEADLOCK FALSE
SYMMETRY WorkerSymmetry
