SPECIFICATION Spec
ACTION_CONSTRAINT AccountSyncs
CONSTANTS
  p1 = p1
  Caller = {c1}
  Order = {o1, o2, o3}
  CotikShop = {p1}
  Home <- AllAtHome
  PageSize = 1
  Overlap = 1
  Skew = 1
  MaxClock = 4
  MaxFaults = 0
  NoCaller = NoCaller  None = None
INVARIANTS
  OverlapAbsorbs
CHECK_DEADLOCK FALSE
