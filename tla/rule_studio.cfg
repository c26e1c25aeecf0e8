CONSTANTS
  r1 = r1  r2 = r2  w1 = w1  w2 = w2
  Processes = {w1, w2}
  Ids = {r1}
  Bodies <- MCBodies
  HandWritten <- MCHandWritten
  SampleEvents <- MCEvents
  MaxRequests = 3
  MaxFileFaults = 1
SPECIFICATION StudioSpec
INVARIANTS WholeFiles AcceptedCompiles AnswerIsOwn MatchIsReference
SYMMETRY WorkerSymmetry
CHECK_DEADLOCK FALSE
