SPECIFICATION MCSpec
CONSTANTS
  w1 = w1  w2 = w2  s1 = s1  c1 = c1  r1 = r1  r2 = r2  r3 = r3  A = A
  m1 = m1  m2 = m2  n1 = n1  n2 = n2
  i1 = i1  o1 = o1  t1 = t1  byHand = byHand  a1 = a1
  daemon = daemon  dashboard = dashboard  v0 = v0  v1 = v1
  None = None  Bad = Bad
  Worker = {w1, w2}
  Shop = {s1}
  Checkpoint = {c1}
  Date = {0}
  Day = 3
  Lease = 1
  Policies <- Offsets
  LocalTimes = {0, 1}
  FirstTime <- FromMidnight
  Token = {1, 2, 3, 4, 5, 6}
  Horizon = 4
  MaxEdits = 1
  FaultKinds = {"crash", "session", "statement"}
  MaxFaults = 1
  NoToken = 0  NoWorker = NoWorker  NoRun = NoRun
INVARIANTS
  ReconciledIsWhole
  VerdictIsEarned
PROPERTIES
  RetryOnSchedule
  
  ReadingEnds
  LandedIsRecovered
CHECK_DEADLOCK FALSE
