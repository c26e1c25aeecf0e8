SPECIFICATION FairSpec
CONSTANTS
  k1 = k1
  MaxAlert = 2
  Toml <- TwoBackends
  SeverityOf <- MCSeverityOf
  TagsOf <- MCTagsOf
  Codes = {200, 404, 503}
  Kinds <- OneKind
  KindOf <- MCKindOf
  QueueMax = 1
  PollLimit = 2
  DrainLimit = 1
  SemLimit = 1
  Enabled = TRUE
  Seconds = {0}
  MaxFaults = 1
INVARIANTS NoDoubleFire EveryAttemptRecorded Accounted
PROPERTIES NoPostAfterVerdict QueuedIsSettled
CHECK_DEADLOCK FALSE
