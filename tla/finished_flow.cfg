SPECIFICATION Spec
CONSTANTS
  r1 = r1
  l1 = l1
  l2 = l2
  t1 = t1
  t2 = t2
  Run = {r1}
  Lot = {l1, l2}
  RunOf <- OneRun
  Tranche = {t1, t2}
  LotOf <- FromFirst
  Check = {c1}
  Deviation = {d1}
  Person = {p1, p2}
  MaxQuantity = 2
  Location = {x1, x2}
  WriteOff = {w1, w2}
INVARIANTS
  TypeOK
  QuarantineEquation
  GoodsAccounted
  StockAccounted
PROPERTIES
  DecidedOnCurrent
SYMMETRY KeySymmetry
CHECK_DEADLOCK FALSE
