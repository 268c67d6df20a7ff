SPECIFICATION FairSpec
CONSTANTS
  r1 = r1
  r2 = r2
  r3 = r3
  Results = {r1, r2, r3}
  Committed = {r3}
  Holdable = {r2}
  LogBytes <- SomeLogs
  MaxBatch = 2
  FlushLogBytes = 2
  BufferedLogBytes = 1
  Capacity = 4
  MaxLeaving = 2
INVARIANTS FinalizerSound
PROPERTIES DrainEnds ResultsHandled
CHECK_DEADLOCK FALSE
