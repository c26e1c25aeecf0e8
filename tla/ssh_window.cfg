SPECIFICATION Spec
CONSTANTS
  w1 = w1
  w2 = w2
  Workers <- TwoWorkers
  Threshold = 2
  Window = 1
  CooldownSetting = 3
  Skew = 1
  MaxEvent = 4
  MaxClock = 6
  MaxFaults = 1
INVARIANTS FiresOnlyOnBurst BurstFires Debounced
CHECK_DEADLOCK FALSE
SYMMETRY WorkerSymmetry
