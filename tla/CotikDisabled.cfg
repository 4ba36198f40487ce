SPECIFICATION Spec
CONSTANTS
  Proc = {p1}
  Account = {1, 2}
  Order = {o1}
  Linked = {1}
  Odd = {}
  PageSize = 1
  Overlap = 1
  MaxPages = 2
  MaxClock = 2
  MaxSyncs = 3
  MaxFaults = 1
  None = None
PROPERTIES
  DisabledStaysDisabled
CHECK_DEADLOCK FALSE
