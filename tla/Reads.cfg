SPECIFICATION MCSpec
CONSTANTS
  w1 = w1  w2 = w2  a1 = a1  a2 = a2  o1 = o1  o2 = o2  o3 = o3  p1 = p1  p2 = p2  k1 = k1  k2 = k2
  Worker = {w1, w2}
  Order = {o1}
  Dated = {o1}
  MaxRuns = 2
  MaxVersion = 1
  MaxClock = 0
  MaxBatches = 2
  MaxFaults = 1
  NoWorker = NoWorker  NoRun = NoRun  NoCapture = NoCapture
  NoCaller = NoCaller  None = None  Empty = Empty
SYMMETRY Alike
INVARIANTS
  CapturesAreProven
  RefreshIsProven
  SyncedIsEarned
  PauseIsExplained
  CheckpointCovers
  CompleteMeansAll
CHECK_DEADLOCK FALSE
