SPECIFICATION FairSpec
CONSTANTS
  c1 = c1
  Worker = {w1}
  Shop = {s1}
  Checkpoint = {c1}
  Date = {0}
  Day = 3
  Lease = 2
  Policies <- Single
  LocalTimes = {0, 1}
  FirstTime <- FromMidnight
  Token = {1, 2, 3, 4, 5, 6}
  Horizon = 4
  MaxEdits = 1
  FaultKinds = {"crash"}
  MaxFaults = 1
  NoToken = 0  NoWorker = NoWorker  NoRun = NoRun
PROPERTIES
  NeverOwnedIndefinitely
