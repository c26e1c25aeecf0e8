SPECIFICATION FairSpec
CONSTANTS
  MaxEvent = 3
  MaxDial = 2
  NumDetectors = 2
  Fires <- MCFires
  Acts <- MCActs
  SigmaMatch <- MCSigmaMatch
  StreamMax = 1
  BatchMax = 2
  MaxFaults = 2
INVARIANTS AlertedOnce AckedIsEvaluated StoredIsAccounted
PROPERTIES EntryIsSettled
CHECK_DEADLOCK FALSE
