SPECIFICATION Spec
CONSTANTS
  b1 = b1
  q1 = q1
  l1 = l1
  Batch = {b1}
  Requirement = {q1}
  Lot = {l1}
  BatchOf <- OneBatch
  LotsFor <- EveryLot
  Opening <- TwoUnits
  Tolerance <- NoTolerance
  ReserveKey = {r1, r2}
  WeighKey = {w1, w2}
  ConsumeKey = {u1, u2}
  ReleaseKey = {s1}
  ReturnKey = {t1}
  ReconcileKey = {c1}
  MaxQuantity = 2
  MaxBalance = 1
INVARIANTS
  TypeOK
  ReservationEquation
  AllocationFollowsReservation
  LedgerMatchesRecords
  ClosedBatchHoldsNoStock
  BalanceNeverNegative
PROPERTIES
  ClosedReservationFrozen
  SettledVarianceFixed
  KeepsStockPromises
SYMMETRY KeySymmetry
CHECK_DEADLOCK FALSE
