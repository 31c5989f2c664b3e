SPECIFICATION Spec
CONSTANTS
  a1 = a1
  a2 = a2
  p1 = p1
  p2 = p2
  p3 = p3
  r1 = r1
  r2 = r2
  d1 = d1
  d2 = d2
  Configs <- Covered
  Supply = 6
  MaxTime = 2
  Pools = {p1}
  Stakes = {1}
  Assets = {a1, a2}
  Receipts = {r1}
  Listings <- Small
  Payments = {1}
  Revenues = {}
  Disputes = {d1}
SYMMETRY Symmetry
CHECK_DEADLOCK FALSE
PROPERTIES
  ApprovalsVoided
