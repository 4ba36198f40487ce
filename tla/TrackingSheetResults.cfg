SPECIFICATION Spec
CONSTANTS
  o1 = o1  s1 = s1  t1 = t1  t2 = t2
  Caller = {c1}
  Row = {r1, r2}
  Cell <- Cells
  Proven = {s1}
  MaxActs = 1
  None = None
PROPERTIES
  BlankCellsOnly
