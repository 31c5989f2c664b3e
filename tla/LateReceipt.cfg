SPECIFICATION HSpec
CONSTANTS
  d1 = d1
  d2 = d2
  d3 = d3
  r1 = r1
  r2 = r2
  Deeds = {d1, d2, d3}
  Receipts = {r1, r2}
  Goal = 3
  SCALE = 2
  MinWrapDuration = 2
  Graces = {1}
  Amounts = {2}
  MaxIntakes = 2
  MaxTime = 2
SYMMETRY Symmetry
CHECK_DEADLOCK FALSE
INVARIANTS
  ResidueIsDust
