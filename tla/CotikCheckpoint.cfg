SPECIFICATION Spec
CONSTANTS
  p1 = p1
  Caller = {c1}
  Order = {o1}
  CotikShop = {p1}
  Home <- AllAtHome
  PageSize = 1
  Overlap = 1
  Skew = 0
  MaxClock = 3
  MaxFaults = 0
  NoCaller = NoCaller  None = None
PROPERTIES
  CheckpointAdvances
CHECK_DEADLOCK FALSE
