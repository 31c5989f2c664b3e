SPECIFICATION FairSpec
CONSTANTS
  a1 = a1
  a2 = a2
  p1 = p1
  p2 = p2
  p3 = p3
  r1 = r1
  r2 = r2
  d1 = d1
  d2 = d2
  Configs <- OneConfig
  Supply = 7
  MaxTime = 3
  Pools = {p1, p2}
  Stakes = {1}
  Assets = {a1}
  Receipts = {r1}
  Listings <- Staged
  Payments = {2}
  Revenues = {}
  Disputes = {d1}
CHECK_DEADLOCK FALSE
PROPERTIES
  FreezeEnds
