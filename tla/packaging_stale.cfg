SPECIFICATION Spec
CONSTANTS
  o1 = o1
  p1 = p1
  p2 = p2
  q1 = q1
  q2 = q2
  l1 = l1
  Output = {o1}
  Tolerances <- ExactTolerance
  MaxQuantity = 2
  Run = {p1, p2}
  OutputOf <- EveryOutput
  Planned <- TwoAndOne
  Requirement = {q1, q2}
  RunOf <- Owner
  Needed <- NeedsOne
  Allowance <- NeedsOne
  Lot = {l1}
  LotsFor <- EveryLot
  Opening <- Received
  ReserveKey = {k1, k2}
  MaxBalance = 2
INVARIANT
  CompletedRunReconciled
CHECK_DEADLOCK FALSE
