SPECIFICATION ControlledSpec
CONSTANTS
  b1 = b1
  q1 = q1
  l1 = l1
  Batch = {b1}
  Requirement = {q1}
  Lot = {l1}
  BatchOf <- OneBatch
  LotsFor <- EveryLot
  Opening <- TwoUnits
  Tolerance <- NoTolerance
  ReserveKey = {r1, r2}
  WeighKey = {w1, w2, w3}
  ConsumeKey = {u1}
  ReleaseKey = {s1}
  ReturnKey = {}
  ReconcileKey = {c1}
  MaxQuantity = 2
  MaxBalance = 2
INVARIANT
  CompletedVarianceReviewed
SYMMETRY KeySymmetry
CHECK_DEADLOCK FALSE
