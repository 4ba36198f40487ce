SPECIFICATION MCSpec
SYMMETRY Workers
CONSTANTS
  w1 = w1  w2 = w2  s1 = s1  c1 = c1  c2 = c2
  u1 = u1  u2 = u2  b1 = b1  p1 = p1  p2 = p2  None = None
  Worker = {w1, w2}
  Shop = {s1}
  Checkpoint = {c1, c2}
  Date = {0}
  Day = 10
  Lease = 2
  Policies <- Offsets
  LocalTimes = {0, 5}
  FirstTime <- Times
  Token = {1, 2, 3, 4, 5, 6}
  Horizon = 7
  MaxEdits = 0
  FaultKinds = {"crash", "session", "statement"}
  MaxFaults = 1
  NoToken = 0  NoWorker = NoWorker  NoRun = NoRun
INVARIANTS
  RowsAgree
  ProfileExclusive
  OneAtATime
  AnswersAreTrue
PROPERTIES
  LostClaimIsPowerless
  ImplementsContract
