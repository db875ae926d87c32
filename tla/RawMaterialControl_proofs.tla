--------------------- MODULE RawMaterialControl_proofs ---------------------
(***************************************************************************)
(* Theorems about RawMaterialControl for any batches, lots, keys and       *)
(* bounds.  The inductive invariant is the type invariant with the         *)
(* reservation equation, the agreement of allocations and reservations,    *)
(* and the rule that a batch that ended holds no stock.                    *)
(***************************************************************************)
EXTENDS RawMaterialControl, SumTheorems, TLAPS

-----------------------------------------------------------------------------
(* Tables *)

\* Inserting a row keeps a table a table, whatever its rows are.
LEMMA InsertTyped ==
  ASSUME NEW f, NEW k, NEW v, NEW K, NEW S,
         f \in [DOMAIN f -> S], DOMAIN f \subseteq K, k \in K, v \in S
  PROVE  /\ DOMAIN Insert(f, k, v) = DOMAIN f \cup {k}
         /\ DOMAIN Insert(f, k, v) \subseteq K
         /\ Insert(f, k, v) \in [DOMAIN Insert(f, k, v) -> S]
BY DEF Insert

\* Inserting a row under a new key leaves the other rows alone.
LEMMA InsertRows ==
  ASSUME NEW f, NEW k, NEW v, k \notin DOMAIN f
  PROVE  /\ DOMAIN Insert(f, k, v) = DOMAIN f \cup {k}
         /\ Insert(f, k, v)[k] = v
         /\ \A x \in DOMAIN f : Insert(f, k, v)[x] = f[x]
BY DEF Insert

-----------------------------------------------------------------------------
(* Type correctness *)

\* What each command writes into a reservation is a reservation again.
LEMMA ReleasedTyped ==
  ASSUME NEW row \in ReservationRow, NEW n \in Quantity, n <= row.remaining
  PROVE  Released(row, n) \in ReservationRow
<1> DEFINE left == row.remaining - n
<1>1. left \in Nat /\ row.released + n \in Nat /\ row.revision + 1 \in Nat
  BY QuantityAssumption DEF ReservationRow, Quantity
<1>2. row.allocation \in AllocationStatus
  BY DEF ReservationRow
<1> HIDE DEF left
<1>3. Released(row, n) =
        [row EXCEPT !.released = row.released + n, !.remaining = left,
                    !.revision = row.revision + 1,
                    !.status = IF left = 0 THEN "released" ELSE "partially_consumed",
                    !.allocation = IF left = 0 THEN "released" ELSE row.allocation]
  BY DEF Released, left
<1> QED
  BY <1>1, <1>2, <1>3 DEF ReservationRow, OpenStatus, ClosedStatus, AllocationStatus

LEMMA ConsumedTyped ==
  ASSUME NEW row \in ReservationRow, NEW productive \in Nat, NEW waste \in Nat,
         productive + waste <= row.remaining
  PROVE  Consumed(row, productive, waste) \in ReservationRow
<1> DEFINE left == row.remaining - (productive + waste)
           status == IF left = 0 THEN "consumed" ELSE "partially_consumed"
<1>1. /\ left \in Nat
      /\ row.consumed + productive \in Nat
      /\ row.wasted + waste \in Nat
      /\ row.revision + 1 \in Nat
  BY DEF ReservationRow
<1>2. status \in OpenStatus \cup ClosedStatus /\ status \in AllocationStatus
  BY DEF OpenStatus, ClosedStatus, AllocationStatus
<1> HIDE DEF left, status
<1>3. Consumed(row, productive, waste) =
        [row EXCEPT !.consumed = row.consumed + productive, !.wasted = row.wasted + waste,
                    !.remaining = left, !.status = status, !.allocation = status,
                    !.revision = row.revision + 1]
  BY DEF Consumed, left, status
<1> QED
  BY <1>1, <1>2, <1>3 DEF ReservationRow

LEMMA ReturnedStagedTyped ==
  ASSUME NEW row \in ReservationRow, NEW n \in Quantity, n <= row.remaining
  PROVE  ReturnedStaged(row, n) \in ReservationRow
<1> DEFINE left == row.remaining - n
           used == row.consumed + row.wasted > 0
           status == IF left = 0 THEN "released"
                     ELSE IF used THEN "partially_consumed" ELSE "active"
           allocation == IF left = 0 THEN "released"
                         ELSE IF used THEN "partially_consumed" ELSE "reserved"
<1>1. /\ left \in Nat
      /\ row.released + n \in Nat
      /\ row.staged + n \in Nat
      /\ row.revision + 1 \in Nat
  BY QuantityAssumption DEF ReservationRow, Quantity
<1>2. status \in OpenStatus \cup ClosedStatus /\ allocation \in AllocationStatus
  BY DEF OpenStatus, ClosedStatus, AllocationStatus
<1> HIDE DEF left, used, status, allocation
<1>3. ReturnedStaged(row, n) =
        [row EXCEPT !.released = row.released + n, !.staged = row.staged + n,
                    !.remaining = left, !.revision = row.revision + 1,
                    !.status = status, !.allocation = allocation]
  BY DEF ReturnedStaged, left, used, status, allocation
<1> QED
  BY <1>1, <1>2, <1>3 DEF ReservationRow

LEMMA CancelledTyped ==
  ASSUME NEW row \in ReservationRow
  PROVE  Cancelled(row) \in ReservationRow
<1> DEFINE allocation == IF row.allocation \in {"reserved", "partially_consumed"}
                         THEN "cancelled" ELSE row.allocation
<1>1. row.released + row.remaining \in Nat /\ row.revision + 1 \in Nat /\ 0 \in Nat
  BY DEF ReservationRow
<1>2. allocation \in AllocationStatus /\ "cancelled" \in OpenStatus \cup ClosedStatus
  BY DEF ReservationRow, AllocationStatus, ClosedStatus
<1> HIDE DEF allocation
<1>3. Cancelled(row) =
        [row EXCEPT !.released = row.released + row.remaining, !.remaining = 0,
                    !.status = "cancelled", !.revision = row.revision + 1,
                    !.allocation = allocation]
  BY DEF Cancelled, allocation
<1> QED
  BY <1>1, <1>2, <1>3 DEF ReservationRow

LEMMA InitTyped == Init => TypeOK
<1> SUFFICES ASSUME Init PROVE TypeOK
  OBVIOUS
<1> USE RequirementAssumption, QuantityAssumption
<1>1. batch \in [Batch -> BatchRow]
  BY DEF Init, BatchRow, BatchStatus
<1>2. lot \in [Lot -> LotRow]
  BY DEF Init
<1>3. ledger \in [Lot -> LedgerRow]
  BY DEF Init, LedgerRow
<1>4. /\ reservation \in [DOMAIN reservation -> ReservationRow]
      /\ DOMAIN reservation \subseteq ReserveKey
      /\ weighing \in [DOMAIN weighing -> WeighingRow]
      /\ DOMAIN weighing \subseteq WeighKey
      /\ use \in [DOMAIN use -> UseRow]
      /\ DOMAIN use \subseteq ConsumeKey
  BY DEF Init
<1>5. recorded \subseteq Key
  BY DEF Init
<1>6. reconciliation \in [Requirement -> ReconciliationRow]
  BY DEF Init, ReconciliationRow
<1> QED
  BY <1>1, <1>2, <1>3, <1>4, <1>5, <1>6 DEF TypeOK

LEMMA StepTyped == TypeOK /\ [Next]_vars => TypeOK'
<1> SUFFICES ASSUME TypeOK, [Next]_vars PROVE TypeOK'
  OBVIOUS
<1> USE RequirementAssumption, QuantityAssumption
<1>1. ASSUME NEW k \in ReserveKey, NEW q \in Requirement, NEW l \in Lot,
             NEW n \in Quantity, NEW expected, Reserve(k, q, l, n, expected)
      PROVE  TypeOK'
  <2> DEFINE row == [requirement |-> q, lot |-> l, reserved |-> n, remaining |-> n,
        consumed |-> 0, wasted |-> 0, released |-> 0, staged |-> 0,
        status |-> "active", allocation |-> "reserved", revision |-> 1]
  <2>1. row \in ReservationRow
    BY QuantityAssumption DEF ReservationRow, OpenStatus, ClosedStatus, AllocationStatus, Quantity
  <2>2. reservation' = Insert(reservation, k, row)
    BY <1>1 DEF Reserve
  <2> HIDE DEF row
  <2>3. /\ reservation' \in [DOMAIN reservation' -> ReservationRow]
        /\ DOMAIN reservation' \subseteq ReserveKey
    BY <2>1, <2>2, InsertTyped DEF TypeOK
  <2>4. batch' \in [Batch -> BatchRow]
    BY <1>1 DEF Reserve, TypeOK, BatchRow
  <2> QED
    BY <1>1, <2>3, <2>4 DEF Reserve, TypeOK
<1>2. ASSUME NEW k \in ReleaseKey, NEW r \in DOMAIN reservation, NEW n \in Quantity,
             NEW expected, Release(k, r, n, expected)
      PROVE  TypeOK'
  <2>1. reservation' \in [DOMAIN reservation -> ReservationRow]
    BY <1>2, ReleasedTyped DEF Release, Holds, TypeOK
  <2>2. recorded' \subseteq Key
    BY <1>2 DEF Release, TypeOK, Key
  <2> QED
    BY <1>2, <2>1, <2>2 DEF Release, TypeOK
<1>3. ASSUME NEW k \in WeighKey, NEW r \in DOMAIN reservation, NEW kind \in {"planned", "actual"},
             NEW n \in Nat,
             weighing' = Insert(weighing, k, [reservation |-> r, kind |-> kind, quantity |-> n]),
             UNCHANGED <<batch, lot, ledger, reservation, use, recorded, reconciliation>>
      PROVE  TypeOK'
  <2> DEFINE row == [reservation |-> r, kind |-> kind, quantity |-> n]
  <2>1. row \in WeighingRow
    BY DEF TypeOK, WeighingRow
  <2> HIDE DEF row
  <2>2. /\ weighing' \in [DOMAIN weighing' -> WeighingRow]
        /\ DOMAIN weighing' \subseteq WeighKey
    <3>1. weighing' = Insert(weighing, k, row)
      BY <1>3 DEF row
    <3> QED
      BY <2>1, <3>1, InsertTyped DEF TypeOK
  <2> QED
    BY <1>3, <2>2 DEF TypeOK
<1>4. ASSUME NEW k \in WeighKey, NEW r \in DOMAIN reservation, NEW expected,
             PlanWeighing(k, r, expected)
      PROVE  TypeOK'
  BY <1>3, <1>4 DEF PlanWeighing
<1>5. ASSUME NEW k \in WeighKey, NEW r \in DOMAIN reservation, NEW n \in Quantity,
             NEW expected, Weigh(k, r, n, expected)
      PROVE  TypeOK'
  BY <1>3, <1>5 DEF Weigh, Quantity
<1>6. ASSUME NEW k \in ConsumeKey, NEW r \in DOMAIN reservation, NEW w \in WeighKey,
             NEW productive \in 0 .. MaxQuantity, NEW waste \in 0 .. MaxQuantity,
             NEW expected, Consume(k, r, w, productive, waste, expected)
      PROVE  TypeOK'
  <2>1. ledger' \in [Lot -> LedgerRow]
    <3>1. Moved(productive, waste) \in Int
      BY DEF Moved
    <3>2. reservation[r].lot \in Lot
      BY DEF TypeOK, ReservationRow
    <3>3. ledger' = [ledger EXCEPT ![reservation[r].lot].controlled = @ - Moved(productive, waste)]
      BY <1>6 DEF Consume
    <3> QED
      BY <3>1, <3>2, <3>3 DEF TypeOK, LedgerRow
  <2> DEFINE row == [reservation |-> r, weighing |-> w, productive |-> productive,
                     waste |-> waste, returned |-> 0]
  <2>2. row \in UseRow
    BY DEF UseRow, TypeOK
  <2>3. use' = Insert(use, k, row)
    BY <1>6 DEF Consume
  <2> HIDE DEF row
  <2>4. use' \in [DOMAIN use' -> UseRow] /\ DOMAIN use' \subseteq ConsumeKey
    BY <2>2, <2>3, InsertTyped DEF TypeOK
  <2>5. reservation' \in [DOMAIN reservation -> ReservationRow]
    <3>1. reservation[r] \in ReservationRow /\ productive \in Nat /\ waste \in Nat
      BY DEF TypeOK
    <3>2. productive + waste <= reservation[r].remaining
      BY <1>6 DEF Consume, Holds
    <3>3. Consumed(reservation[r], productive, waste) \in ReservationRow
      BY <3>1, <3>2, ConsumedTyped
    <3> QED
      BY <1>6, <3>3 DEF Consume, TypeOK
  <2> QED
    BY <1>6, <2>1, <2>4, <2>5 DEF Consume, TypeOK
<1>7. ASSUME NEW k \in ReturnKey, NEW r \in DOMAIN reservation, NEW w \in WeighKey,
             NEW n \in Quantity, NEW expected, ReturnStaged(k, r, w, n, expected)
      PROVE  TypeOK'
  <2>1. reservation' \in [DOMAIN reservation -> ReservationRow]
    BY <1>7, ReturnedStagedTyped DEF ReturnStaged, Holds, TypeOK
  <2>2. recorded' \subseteq Key
    BY <1>7 DEF ReturnStaged, TypeOK, Key
  <2> QED
    BY <1>7, <2>1, <2>2 DEF ReturnStaged, TypeOK
<1>8. ASSUME NEW k \in ReturnKey, NEW r \in DOMAIN reservation, NEW u \in ConsumeKey,
             NEW n \in Quantity, NEW expected, ReturnConsumed(k, r, u, n, expected)
      PROVE  TypeOK'
  <2>1. ledger' \in [Lot -> LedgerRow]
    BY <1>8 DEF ReturnConsumed, TypeOK, LedgerRow, ReservationRow, Quantity
  <2>2. use' \in [DOMAIN use -> UseRow]
    BY <1>8 DEF ReturnConsumed, TypeOK, UseRow, Quantity
  <2>3. recorded' \subseteq Key
    BY <1>8 DEF ReturnConsumed, TypeOK, Key
  <2> QED
    BY <1>8, <2>1, <2>2, <2>3 DEF ReturnConsumed, TypeOK
<1>9. ASSUME NEW k \in ReconcileKey, NEW q \in Requirement, NEW reason,
             Reconcile(k, q, reason)
      PROVE  TypeOK'
  <2>1. reconciliation' \in [Requirement -> ReconciliationRow]
    BY <1>9 DEF Reconcile, TypeOK, ReconciliationRow, Exceeds
  <2>2. recorded' \subseteq Key
    BY <1>9 DEF Reconcile, TypeOK, Key
  <2> QED
    BY <1>9, <2>1, <2>2 DEF Reconcile, TypeOK
<1>10. ASSUME NEW b \in Batch, NEW to, Transition(b, to)
       PROVE  batch' \in [Batch -> BatchRow]
  BY <1>10 DEF Transition, productionTransitions, TypeOK, BatchRow, BatchStatus
<1>11. ASSUME NEW b \in Batch, RecordYield(b)
       PROVE  TypeOK'
  BY <1>11 DEF RecordYield, TypeOK, BatchRow
<1>12. ASSUME NEW b \in Batch, NEW to, Advance(b, to)
       PROVE  TypeOK'
  BY <1>10, <1>12 DEF Advance, TypeOK
<1>13. ASSUME NEW b \in Batch, Complete(b)
       PROVE  TypeOK'
  BY <1>10, <1>13 DEF Complete, TypeOK
<1>14. ASSUME NEW b \in Batch, Abort(b)
       PROVE  TypeOK'
  <2>1. reservation' \in [DOMAIN reservation -> ReservationRow]
    BY <1>14, CancelledTyped DEF Abort, TypeOK
  <2>2. DOMAIN reservation' = DOMAIN reservation
    BY <1>14 DEF Abort
  <2>3. batch' \in [Batch -> BatchRow]
    BY <1>10, <1>14 DEF Abort
  <2> QED
    BY <1>14, <2>1, <2>2, <2>3 DEF Abort, TypeOK
<1>15. ASSUME NEW b \in Batch, NEW l \in Lot, NEW n \in Quantity, CommitUnreserved(b, l, n)
       PROVE  TypeOK'
  <2>1. n \in Int
    BY QuantityAssumption DEF Quantity
  <2>2. ledger' \in [Lot -> LedgerRow]
    <3>1. ledger' = [ledger EXCEPT ![l].other = @ - n]
      BY <1>15 DEF CommitUnreserved
    <3> QED
      BY <2>1, <3>1 DEF TypeOK, LedgerRow
  <2> QED
    BY <1>15, <2>2 DEF CommitUnreserved, TypeOK
<1>16. ASSUME NEW l \in Lot, NEW change \in -MaxQuantity .. MaxQuantity,
              AppendMovement(l, change)
       PROVE  TypeOK'
  BY <1>16 DEF AppendMovement, TypeOK, LedgerRow
<1>17. ASSUME NEW l \in Lot, NEW active \in BOOLEAN, SetLotActive(l, active)
       PROVE  TypeOK'
  BY <1>17 DEF SetLotActive, TypeOK, LotRow
<1>18. ASSUME NEW l \in Lot, LapseRelease(l)
       PROVE  TypeOK'
  BY <1>18 DEF LapseRelease, TypeOK, LotRow
<1>19. CASE UNCHANGED vars
  BY <1>19 DEF vars, TypeOK
<1> QED
  BY <1>1, <1>2, <1>4, <1>5, <1>6, <1>7, <1>8, <1>9, <1>11, <1>12, <1>13, <1>14,
     <1>15, <1>16, <1>17, <1>18, <1>19
  DEF Next, ControlledNext, MaterialCommand, Lifecycle, LotChange, Unreserved

\* Every row the commands, the lifecycle of batches and the movements write is
\* a row of its table.
THEOREM TypeCorrect == Spec => []TypeOK
<1>1. Init => TypeOK
  BY InitTyped
<1>2. TypeOK /\ [Next]_vars => TypeOK'
  BY StepTyped
<1> QED
  BY <1>1, <1>2, PTL DEF Spec

-----------------------------------------------------------------------------
(* Reservations and their allocations *)

\* One row of ReservationEquation and AllocationFollowsReservation.
RowOK(row) ==
  /\ row.reserved = row.consumed + row.wasted + row.released + row.remaining
  /\ row.staged <= row.released
  /\ row.remaining = 0 <=> row.status \in ClosedStatus
  /\ IF row.status \in ClosedStatus
     THEN row.allocation = row.status
     ELSE row.allocation \in {"reserved", "partially_consumed"}

RowsOK == \A r \in DOMAIN reservation : RowOK(reservation[r])

\* The steps by what they do to batches and reservations.
LEMMA StepCases ==
  ASSUME [Next]_vars
  PROVE  \/ \E k \in ReserveKey, q \in Requirement, l \in Lot, n \in Quantity :
              \E expected : Reserve(k, q, l, n, expected)
         \/ \E r \in DOMAIN reservation : \E expected :
              \/ \E k \in ReleaseKey, n \in Quantity : Release(k, r, n, expected)
              \/ \E k \in ConsumeKey, w \in WeighKey, productive, waste \in 0 .. MaxQuantity :
                   Consume(k, r, w, productive, waste, expected)
              \/ \E k \in ReturnKey, w \in WeighKey, n \in Quantity :
                   ReturnStaged(k, r, w, n, expected)
         \/ \E b \in Batch : \/ RecordYield(b)
                             \/ \E to : Advance(b, to)
                             \/ Complete(b)
                             \/ Abort(b)
         \/ UNCHANGED <<batch, reservation>>
<1>1. ASSUME NEW k, NEW r, NEW expected, PlanWeighing(k, r, expected)
      PROVE  UNCHANGED <<batch, reservation>>
  BY <1>1 DEF PlanWeighing
<1>2. ASSUME NEW k, NEW r, NEW n, NEW expected, Weigh(k, r, n, expected)
      PROVE  UNCHANGED <<batch, reservation>>
  BY <1>2 DEF Weigh
<1>3. ASSUME NEW k, NEW r, NEW u, NEW n, NEW expected, ReturnConsumed(k, r, u, n, expected)
      PROVE  UNCHANGED <<batch, reservation>>
  BY <1>3 DEF ReturnConsumed
<1>4. ASSUME NEW k, NEW q, NEW reason, Reconcile(k, q, reason)
      PROVE  UNCHANGED <<batch, reservation>>
  BY <1>4 DEF Reconcile
<1>5. ASSUME LotChange
      PROVE  UNCHANGED <<batch, reservation>>
  BY <1>5 DEF LotChange, SetLotActive, LapseRelease
<1>6. ASSUME Unreserved
      PROVE  UNCHANGED <<batch, reservation>>
  BY <1>6 DEF Unreserved, CommitUnreserved, AppendMovement
<1>7. CASE UNCHANGED vars
  BY <1>7 DEF vars
<1>8. CASE MaterialCommand
  BY <1>1, <1>2, <1>3, <1>4, <1>8 DEF MaterialCommand
<1>9. CASE Lifecycle
  BY <1>9 DEF Lifecycle
<1> QED
  BY <1>5, <1>6, <1>7, <1>8, <1>9 DEF Next, ControlledNext

LEMMA RowsOKMeaning ==
  RowsOK <=> ReservationEquation /\ AllocationFollowsReservation
BY DEF RowsOK, RowOK, ReservationEquation, AllocationFollowsReservation

\* Each way of writing a reservation keeps the equation and the agreement.
LEMMA ReleasedOK ==
  ASSUME NEW row \in ReservationRow, NEW n \in Quantity, n <= row.remaining, RowOK(row)
  PROVE  RowOK(Released(row, n))
<1>1. n \in Nat /\ n > 0
  BY QuantityAssumption DEF Quantity
<1>2. row.status \notin ClosedStatus
  BY <1>1 DEF RowOK, ReservationRow
<1>3. CASE row.remaining - n = 0
  BY <1>1, <1>2, <1>3 DEF RowOK, ReservationRow, Released, ClosedStatus
<1>4. CASE row.remaining - n # 0
  BY <1>1, <1>2, <1>4 DEF RowOK, ReservationRow, Released, ClosedStatus
<1> QED
  BY <1>3, <1>4

LEMMA ConsumedOK ==
  ASSUME NEW row \in ReservationRow, NEW productive \in Nat, NEW waste \in Nat,
         productive + waste <= row.remaining, RowOK(row)
  PROVE  RowOK(Consumed(row, productive, waste))
<1>1. CASE row.remaining - (productive + waste) = 0
  BY <1>1 DEF RowOK, ReservationRow, Consumed, ClosedStatus
<1>2. CASE row.remaining - (productive + waste) # 0
  BY <1>2 DEF RowOK, ReservationRow, Consumed, ClosedStatus
<1> QED
  BY <1>1, <1>2

LEMMA ReturnedStagedOK ==
  ASSUME NEW row \in ReservationRow, NEW n \in Quantity, n <= row.remaining, RowOK(row)
  PROVE  RowOK(ReturnedStaged(row, n))
<1>1. n \in Nat /\ n > 0
  BY QuantityAssumption DEF Quantity
<1>2. CASE row.remaining - n = 0
  BY <1>1, <1>2 DEF RowOK, ReservationRow, ReturnedStaged, ClosedStatus
<1>3. CASE row.remaining - n # 0
  BY <1>1, <1>3 DEF RowOK, ReservationRow, ReturnedStaged, ClosedStatus
<1> QED
  BY <1>2, <1>3

LEMMA CancelledOK ==
  ASSUME NEW row \in ReservationRow, row.status \in OpenStatus, RowOK(row)
  PROVE  RowOK(Cancelled(row))
<1>1. row.allocation \in {"reserved", "partially_consumed"}
  BY DEF RowOK, OpenStatus, ClosedStatus
<1> QED
  BY <1>1 DEF RowOK, ReservationRow, Cancelled, ClosedStatus

\* The commands that write one reservation, and what they leave of it.
LEMMA WrittenRows ==
  ASSUME TypeOK, RowsOK, NEW r \in DOMAIN reservation, NEW row, RowOK(row),
         reservation' = [reservation EXCEPT ![r] = row]
  PROVE  RowsOK'
BY DEF RowsOK, TypeOK, RowOK

LEMMA StepRowsOK == TypeOK /\ RowsOK /\ [Next]_vars => RowsOK'
<1> SUFFICES ASSUME TypeOK, RowsOK, [Next]_vars PROVE RowsOK'
  OBVIOUS
<1>0. ASSUME NEW r \in DOMAIN reservation
      PROVE  reservation[r] \in ReservationRow /\ RowOK(reservation[r])
  BY DEF TypeOK, RowsOK
<1>1. ASSUME NEW k \in ReserveKey, NEW q \in Requirement, NEW l \in Lot,
             NEW n \in Quantity, NEW expected, Reserve(k, q, l, n, expected)
      PROVE  RowsOK'
  <2> DEFINE row == [requirement |-> q, lot |-> l, reserved |-> n, remaining |-> n,
        consumed |-> 0, wasted |-> 0, released |-> 0, staged |-> 0,
        status |-> "active", allocation |-> "reserved", revision |-> 1]
  <2>1. RowOK(row)
    BY QuantityAssumption DEF RowOK, ClosedStatus, Quantity
  <2>2. reservation' = Insert(reservation, k, row) /\ k \notin DOMAIN reservation
    BY <1>1 DEF Reserve
  <2> HIDE DEF row
  <2>3. /\ DOMAIN reservation' = DOMAIN reservation \cup {k}
        /\ reservation'[k] = row
        /\ \A x \in DOMAIN reservation : reservation'[x] = reservation[x]
    BY <2>2, InsertRows
  <2> QED
    BY <1>0, <2>1, <2>3 DEF RowsOK
<1>2. ASSUME NEW k \in ReleaseKey, NEW r \in DOMAIN reservation, NEW n \in Quantity,
             NEW expected, Release(k, r, n, expected)
      PROVE  RowsOK'
  BY <1>0, <1>2, ReleasedOK, WrittenRows DEF Release, Holds
<1>3. ASSUME NEW k \in ConsumeKey, NEW r \in DOMAIN reservation, NEW w \in WeighKey,
             NEW productive \in 0 .. MaxQuantity, NEW waste \in 0 .. MaxQuantity,
             NEW expected, Consume(k, r, w, productive, waste, expected)
      PROVE  RowsOK'
  <2>1. productive \in Nat /\ waste \in Nat
    OBVIOUS
  <2>2. productive + waste <= reservation[r].remaining
    BY <1>3 DEF Consume, Holds
  <2>3. reservation' = [reservation EXCEPT ![r] = Consumed(reservation[r], productive, waste)]
    BY <1>3 DEF Consume
  <2>4. RowOK(Consumed(reservation[r], productive, waste))
    BY <1>0, <2>1, <2>2, ConsumedOK
  <2> QED
    BY <2>3, <2>4, WrittenRows
<1>4. ASSUME NEW k \in ReturnKey, NEW r \in DOMAIN reservation, NEW w \in WeighKey,
             NEW n \in Quantity, NEW expected, ReturnStaged(k, r, w, n, expected)
      PROVE  RowsOK'
  BY <1>0, <1>4, ReturnedStagedOK, WrittenRows DEF ReturnStaged, Holds
<1>5. ASSUME NEW b \in Batch, Abort(b)
      PROVE  RowsOK'
  BY <1>0, <1>5, CancelledOK DEF Abort, OpenReservations, RowsOK
<1>6. CASE UNCHANGED reservation
  BY <1>6 DEF RowsOK
<1>7. ASSUME NEW b, NEW to, RecordYield(b) \/ Advance(b, to) \/ Complete(b)
      PROVE  UNCHANGED reservation
  BY <1>7 DEF RecordYield, Advance, Complete
<1> QED
  BY <1>1, <1>2, <1>3, <1>4, <1>5, <1>6, <1>7, StepCases

-----------------------------------------------------------------------------
(* Batches that ended *)

Ended == {"Completed", "Aborted", "Archived"}

LEMMA StepClosedBatch ==
  TypeOK /\ RowsOK /\ ClosedBatchHoldsNoStock /\ [Next]_vars => ClosedBatchHoldsNoStock'
<1> SUFFICES ASSUME TypeOK, RowsOK, ClosedBatchHoldsNoStock, [Next]_vars
             PROVE  ClosedBatchHoldsNoStock'
  OBVIOUS
<1>0. ASSUME NEW r \in DOMAIN reservation
      PROVE  /\ reservation[r] \in ReservationRow
             /\ RowOK(reservation[r])
             /\ BatchOf[reservation[r].requirement] \in Batch
  BY RequirementAssumption DEF TypeOK, RowsOK, ReservationRow
<1>1. ASSUME NEW k \in ReserveKey, NEW q \in Requirement, NEW l \in Lot,
             NEW n \in Quantity, NEW expected, Reserve(k, q, l, n, expected)
      PROVE  ClosedBatchHoldsNoStock'
  <2> DEFINE row == [requirement |-> q, lot |-> l, reserved |-> n, remaining |-> n,
        consumed |-> 0, wasted |-> 0, released |-> 0, staged |-> 0,
        status |-> "active", allocation |-> "reserved", revision |-> 1]
  <2>1. \A b \in Batch : batch'[b].status = batch[b].status
    BY <1>1, RequirementAssumption DEF Reserve, TypeOK, BatchRow
  <2>2. reservation' = Insert(reservation, k, row) /\ k \notin DOMAIN reservation
    BY <1>1 DEF Reserve
  <2>3. row.requirement = q
    OBVIOUS
  <2>4. batch[BatchOf[q]].status \notin Ended /\ BatchOf[q] \in Batch
    BY <1>1, RequirementAssumption DEF Reserve, Workable, Ended
  <2> HIDE DEF row
  <2>5. /\ DOMAIN reservation' = DOMAIN reservation \cup {k}
        /\ reservation'[k] = row
        /\ \A x \in DOMAIN reservation : reservation'[x] = reservation[x]
    BY <2>2 DEF Insert
  <2> QED
    BY <1>0, <2>1, <2>3, <2>4, <2>5 DEF ClosedBatchHoldsNoStock, Ended
<1>2. ASSUME NEW r \in DOMAIN reservation, NEW row, UNCHANGED batch,
             reservation' = [reservation EXCEPT ![r] = row],
             row.requirement = reservation[r].requirement,
             reservation[r].remaining # 0
      PROVE  ClosedBatchHoldsNoStock'
  BY <1>2 DEF ClosedBatchHoldsNoStock, TypeOK
<1>3. ASSUME NEW k \in ReleaseKey, NEW r \in DOMAIN reservation, NEW n \in Quantity,
             NEW expected, Release(k, r, n, expected)
      PROVE  ClosedBatchHoldsNoStock'
  <2>1. reservation[r].remaining # 0
    BY <1>0, <1>3, QuantityAssumption DEF Release, Holds, Quantity, ReservationRow
  <2>2. Released(reservation[r], n).requirement = reservation[r].requirement
    BY <1>0 DEF Released, ReservationRow
  <2> QED
    BY <1>2, <1>3, <2>1, <2>2 DEF Release
<1>4. ASSUME NEW k \in ConsumeKey, NEW r \in DOMAIN reservation, NEW w \in WeighKey,
             NEW productive \in 0 .. MaxQuantity, NEW waste \in 0 .. MaxQuantity,
             NEW expected, Consume(k, r, w, productive, waste, expected)
      PROVE  ClosedBatchHoldsNoStock'
  <2>1. reservation[r].remaining # 0
    <3>1. productive + waste > 0 /\ productive + waste <= reservation[r].remaining
      BY <1>4 DEF Consume, Holds
    <3> QED
      BY <3>1
  <2>2. Consumed(reservation[r], productive, waste).requirement = reservation[r].requirement
    BY <1>0 DEF Consumed, ReservationRow
  <2> QED
    BY <1>2, <1>4, <2>1, <2>2 DEF Consume
<1>5. ASSUME NEW k \in ReturnKey, NEW r \in DOMAIN reservation, NEW w \in WeighKey,
             NEW n \in Quantity, NEW expected, ReturnStaged(k, r, w, n, expected)
      PROVE  ClosedBatchHoldsNoStock'
  <2>1. reservation[r].remaining # 0
    BY <1>0, <1>5, QuantityAssumption DEF ReturnStaged, Holds, Quantity, ReservationRow
  <2>2. ReturnedStaged(reservation[r], n).requirement = reservation[r].requirement
    BY <1>0 DEF ReturnedStaged, ReservationRow
  <2> QED
    BY <1>2, <1>5, <2>1, <2>2 DEF ReturnStaged
<1>6. ASSUME NEW b \in Batch, NEW to, Transition(b, to)
      PROVE  /\ \A c \in Batch \ {b} : batch'[c] = batch[c]
             /\ batch'[b].status = to
  BY <1>6 DEF Transition, TypeOK, BatchRow
<1>7. ASSUME NEW b \in Batch, RecordYield(b)
      PROVE  ClosedBatchHoldsNoStock'
  <2>1. \A c \in Batch : batch'[c].status = batch[c].status
    BY <1>7 DEF RecordYield, TypeOK, BatchRow
  <2> QED
    BY <1>0, <1>7, <2>1 DEF RecordYield, ClosedBatchHoldsNoStock
<1>8. ASSUME NEW b \in Batch, NEW to, Advance(b, to)
      PROVE  ClosedBatchHoldsNoStock'
  <2>1. to \in Ended => batch[b].status \in Ended
    BY <1>8 DEF Advance, Transition, productionTransitions, Ended
  <2> QED
    BY <1>0, <1>6, <1>8, <2>1 DEF Advance, ClosedBatchHoldsNoStock, Ended
<1>9. ASSUME NEW b \in Batch, Complete(b)
      PROVE  ClosedBatchHoldsNoStock'
  <2>1. \A r \in DOMAIN reservation :
          BatchOf[reservation[r].requirement] = b => reservation[r].remaining = 0
    BY <1>0, <1>9
    DEF Complete, CompletionReady, OpenReservations, BatchReservations, RowOK,
        ReservationRow, OpenStatus, ClosedStatus
  <2> QED
    BY <1>0, <1>6, <1>9, <2>1 DEF Complete, ClosedBatchHoldsNoStock
<1>10. ASSUME NEW b \in Batch, Abort(b)
       PROVE  ClosedBatchHoldsNoStock'
  <2>1. ASSUME NEW row \in ReservationRow
        PROVE  Cancelled(row).remaining = 0 /\ Cancelled(row).requirement = row.requirement
    BY DEF Cancelled, ReservationRow
  <2>2. \A r \in DOMAIN reservation :
          /\ reservation'[r].requirement = reservation[r].requirement
          /\ reservation[r].remaining = 0 => reservation'[r].remaining = 0
          /\ BatchOf[reservation[r].requirement] = b => reservation'[r].remaining = 0
    BY <1>0, <1>10, <2>1
    DEF Abort, OpenReservations, BatchReservations, RowOK, ReservationRow, OpenStatus,
        ClosedStatus
  <2>3. DOMAIN reservation' = DOMAIN reservation
    BY <1>10 DEF Abort
  <2> QED
    BY <1>0, <1>6, <1>10, <2>2, <2>3 DEF Abort, ClosedBatchHoldsNoStock
<1>11. CASE UNCHANGED <<batch, reservation>>
  BY <1>11 DEF ClosedBatchHoldsNoStock
<1> QED
  BY <1>1, <1>3, <1>4, <1>5, <1>7, <1>8, <1>9, <1>10, <1>11, StepCases

-----------------------------------------------------------------------------
(* The inductive invariant and what follows from it *)

IInv == TypeOK /\ RowsOK /\ ClosedBatchHoldsNoStock

LEMMA InvariantHolds == Spec => []IInv
<1>1. Init => IInv
  BY InitTyped DEF Init, IInv, RowsOK, ClosedBatchHoldsNoStock
<1>2. IInv /\ [Next]_vars => IInv'
  BY StepTyped, StepRowsOK, StepClosedBatch DEF IInv
<1> QED
  BY <1>1, <1>2, PTL DEF Spec

\* Whatever is consumed, wasted, released, returned from staging or cancelled,
\* and in whatever order, the parts of every reservation add up.
THEOREM ReservationsAddUp == Spec => []ReservationEquation
<1>1. IInv => ReservationEquation
  BY RowsOKMeaning DEF IInv
<1> QED
  BY <1>1, InvariantHolds, PTL

\* The allocation and the reservation of a row end together and alike.
THEOREM AllocationsAgree == Spec => []AllocationFollowsReservation
<1>1. IInv => AllocationFollowsReservation
  BY RowsOKMeaning DEF IInv
<1> QED
  BY <1>1, InvariantHolds, PTL

\* No batch that was completed, aborted or archived holds stock back.
THEOREM EndedBatchesHoldNothing == Spec => []ClosedBatchHoldsNoStock
<1>1. IInv => ClosedBatchHoldsNoStock
  BY DEF IInv
<1> QED
  BY <1>1, InvariantHolds, PTL

\* What a step may not do to a closed reservation.
ClosedStay ==
  \A r \in DOMAIN reservation :
    reservation[r].status \in ClosedStatus => reservation'[r] = reservation[r]

LEMMA StepClosedStay ==
  ASSUME TypeOK, RowsOK, [Next]_vars
  PROVE  ClosedStay
<1>0. ASSUME NEW r \in DOMAIN reservation
      PROVE  /\ reservation[r] \in ReservationRow
             /\ reservation[r].status \in ClosedStatus => reservation[r].remaining = 0
             /\ reservation[r].status \in ClosedStatus => reservation[r].status \notin OpenStatus
  BY DEF TypeOK, RowsOK, RowOK, OpenStatus, ClosedStatus
<1>1. ASSUME NEW k \in ReserveKey, NEW q \in Requirement, NEW l \in Lot,
             NEW n \in Quantity, NEW expected, Reserve(k, q, l, n, expected)
      PROVE  ClosedStay
  <2> DEFINE row == [requirement |-> q, lot |-> l, reserved |-> n, remaining |-> n,
        consumed |-> 0, wasted |-> 0, released |-> 0, staged |-> 0,
        status |-> "active", allocation |-> "reserved", revision |-> 1]
  <2>1. reservation' = Insert(reservation, k, row) /\ k \notin DOMAIN reservation
    BY <1>1 DEF Reserve
  <2> HIDE DEF row
  <2> QED
    BY <2>1 DEF Insert, ClosedStay
<1>2. ASSUME NEW k \in ReleaseKey, NEW r \in DOMAIN reservation, NEW n \in Quantity,
             NEW expected, Release(k, r, n, expected)
      PROVE  ClosedStay
  <2>1. reservation[r].status \notin ClosedStatus
    BY <1>0, <1>2, QuantityAssumption DEF Release, Holds, Quantity, ReservationRow
  <2> QED
    BY <1>2, <2>1 DEF Release, ClosedStay
<1>3. ASSUME NEW k \in ConsumeKey, NEW r \in DOMAIN reservation, NEW w \in WeighKey,
             NEW productive \in 0 .. MaxQuantity, NEW waste \in 0 .. MaxQuantity,
             NEW expected, Consume(k, r, w, productive, waste, expected)
      PROVE  ClosedStay
  <2>1. reservation[r].status \notin ClosedStatus
    BY <1>0, <1>3 DEF Consume, Holds
  <2> QED
    BY <1>3, <2>1 DEF Consume, ClosedStay
<1>4. ASSUME NEW k \in ReturnKey, NEW r \in DOMAIN reservation, NEW w \in WeighKey,
             NEW n \in Quantity, NEW expected, ReturnStaged(k, r, w, n, expected)
      PROVE  ClosedStay
  <2>1. reservation[r].status \notin ClosedStatus
    BY <1>0, <1>4 DEF ReturnStaged, Holds
  <2> QED
    BY <1>4, <2>1 DEF ReturnStaged, ClosedStay
<1>5. ASSUME NEW b \in Batch, Abort(b)
      PROVE  ClosedStay
  BY <1>0, <1>5 DEF Abort, OpenReservations, ClosedStay
<1>6. CASE UNCHANGED reservation
  BY <1>6 DEF ClosedStay
<1>7. ASSUME NEW b, NEW to, RecordYield(b) \/ Advance(b, to) \/ Complete(b)
      PROVE  UNCHANGED reservation
  BY <1>7 DEF RecordYield, Advance, Complete
<1> QED
  BY <1>1, <1>2, <1>3, <1>4, <1>5, <1>6, <1>7, StepCases

\* A closed reservation is never written again.
THEOREM ClosedReservationsStay == Spec => ClosedReservationFrozen
<1>1. IInv /\ [Next]_vars => ClosedStay
  BY StepClosedStay DEF IInv
<1>2. [][ClosedStay]_vars <=> ClosedReservationFrozen
  BY DEF ClosedReservationFrozen, ClosedStay
<1> QED
  BY <1>1, <1>2, InvariantHolds, PTL DEF Spec

-----------------------------------------------------------------------------
(* The movement balance *)

\* Only five actions move stock; each looks at the balance it moves.
LEMMA StepBalance == TypeOK /\ BalanceNeverNegative /\ [Next]_vars => BalanceNeverNegative'
<1> SUFFICES ASSUME TypeOK, BalanceNeverNegative, [Next]_vars
             PROVE  BalanceNeverNegative'
  OBVIOUS
<1>0. ASSUME NEW l \in Lot
      PROVE  ledger[l].controlled \in Int /\ ledger[l].other \in Int /\ Balance(l) >= 0
  BY DEF TypeOK, LedgerRow, BalanceNeverNegative
<1>1. ASSUME NEW k, NEW r \in DOMAIN reservation, NEW w,
             NEW productive \in 0 .. MaxQuantity, NEW waste \in 0 .. MaxQuantity,
             NEW expected, Consume(k, r, w, productive, waste, expected)
      PROVE  BalanceNeverNegative'
  <2> DEFINE total == productive + waste
             l == reservation[r].lot
  <2>1. l \in Lot /\ total \in Nat
    BY DEF TypeOK, ReservationRow
  <2>2. total <= Balance(l)
    BY <1>1 DEF Consume, Covers
  <2>3. ledger' = [ledger EXCEPT ![l].controlled = @ - total]
    BY <1>1 DEF Consume, Moved
  <2> HIDE DEF total, l
  <2> QED
    BY <1>0, <2>1, <2>2, <2>3 DEF BalanceNeverNegative, Balance, TypeOK, LedgerRow
<1>2. ASSUME NEW k, NEW r \in DOMAIN reservation, NEW u, NEW n \in Quantity, NEW expected,
             ReturnConsumed(k, r, u, n, expected)
      PROVE  BalanceNeverNegative'
  <2> DEFINE l == reservation[r].lot
  <2>1. l \in Lot /\ n \in Nat
    BY QuantityAssumption DEF TypeOK, ReservationRow, Quantity
  <2>2. ledger' = [ledger EXCEPT ![l].controlled = @ + n]
    BY <1>2 DEF ReturnConsumed
  <2> HIDE DEF l
  <2> QED
    BY <1>0, <2>1, <2>2 DEF BalanceNeverNegative, Balance, TypeOK, LedgerRow
<1>3. ASSUME NEW b, NEW l \in Lot, NEW n \in Quantity, CommitUnreserved(b, l, n)
      PROVE  BalanceNeverNegative'
  <2>1. n \in Nat /\ n <= Balance(l)
    <3>1. n \in Nat
      BY QuantityAssumption DEF Quantity
    <3>2. Covers(l, n)
      BY <1>3 DEF CommitUnreserved
    <3> QED
      BY <3>1, <3>2 DEF Covers
  <2>2. ledger' = [ledger EXCEPT ![l].other = @ - n]
    BY <1>3 DEF CommitUnreserved
  <2> QED
    BY <1>0, <2>1, <2>2 DEF BalanceNeverNegative, Balance, TypeOK, LedgerRow
<1>4. ASSUME NEW l \in Lot, NEW change \in -MaxQuantity .. MaxQuantity,
             AppendMovement(l, change)
      PROVE  BalanceNeverNegative'
  <2>1. change \in Int /\ Balance(l) + change >= 0
    BY <1>4, QuantityAssumption DEF AppendMovement
  <2>2. ledger' = [ledger EXCEPT ![l].other = @ + change]
    BY <1>4 DEF AppendMovement
  <2> QED
    BY <1>0, <2>1, <2>2 DEF BalanceNeverNegative, Balance, TypeOK, LedgerRow
<1>5. CASE UNCHANGED ledger
  BY <1>5 DEF BalanceNeverNegative, Balance
<1>6. ASSUME NEW k, NEW q, NEW l, NEW n, NEW expected, Reserve(k, q, l, n, expected)
      PROVE  UNCHANGED ledger
  BY <1>6 DEF Reserve
<1>7. ASSUME NEW k, NEW r, NEW n, NEW expected, Release(k, r, n, expected)
      PROVE  UNCHANGED ledger
  BY <1>7 DEF Release
<1>8. ASSUME NEW k, NEW r, NEW n, NEW expected,
             PlanWeighing(k, r, expected) \/ Weigh(k, r, n, expected)
      PROVE  UNCHANGED ledger
  BY <1>8 DEF PlanWeighing, Weigh
<1>9. ASSUME NEW k, NEW r, NEW w, NEW n, NEW expected, ReturnStaged(k, r, w, n, expected)
      PROVE  UNCHANGED ledger
  BY <1>9 DEF ReturnStaged
<1>10. ASSUME NEW k, NEW q, NEW reason, Reconcile(k, q, reason)
       PROVE  UNCHANGED ledger
  BY <1>10 DEF Reconcile
<1>11. ASSUME Lifecycle \/ LotChange \/ UNCHANGED vars
       PROVE  UNCHANGED ledger
  BY <1>11
  DEF Lifecycle, LotChange, RecordYield, Advance, Complete, Abort, SetLotActive,
      LapseRelease, vars
<1>12. CASE MaterialCommand
  BY <1>1, <1>2, <1>5, <1>6, <1>7, <1>8, <1>9, <1>10, <1>12 DEF MaterialCommand
<1>13. CASE Unreserved
  BY <1>3, <1>4, <1>13 DEF Unreserved
<1> QED
  BY <1>5, <1>11, <1>12, <1>13 DEF Next, ControlledNext

\* No lot is drawn below zero, by the controlled commands and the movements
\* that ignore reservations together.
THEOREM BalancesStayNatural == Spec => []BalanceNeverNegative
<1>1. Init => BalanceNeverNegative
  BY QuantityAssumption DEF Init, BalanceNeverNegative, Balance
<1>2. TypeOK /\ BalanceNeverNegative /\ [Next]_vars => BalanceNeverNegative'
  BY StepBalance
<1> QED
  BY <1>1, <1>2, TypeCorrect, PTL DEF Spec

-----------------------------------------------------------------------------
(* Sums over the rows of a lot *)

LEMMA SumsTyped ==
  TypeOK =>
    /\ IsFiniteSet(DOMAIN reservation) /\ IsFiniteSet(DOMAIN weighing)
    /\ IsFiniteSet(DOMAIN use)
    /\ \A r \in DOMAIN reservation : Left[r] \in Nat /\ Staged[r] \in Nat /\ Drawn[r] \in Nat
    /\ \A w \in DOMAIN weighing : Weighed[w] \in Nat
    /\ \A u \in DOMAIN use : Used[u] \in Nat /\ Moves[u] \in Int
<1> SUFFICES ASSUME TypeOK
             PROVE  /\ IsFiniteSet(DOMAIN reservation) /\ IsFiniteSet(DOMAIN weighing)
                    /\ IsFiniteSet(DOMAIN use)
                    /\ \A r \in DOMAIN reservation :
                         Left[r] \in Nat /\ Staged[r] \in Nat /\ Drawn[r] \in Nat
                    /\ \A w \in DOMAIN weighing : Weighed[w] \in Nat
                    /\ \A u \in DOMAIN use : Used[u] \in Nat /\ Moves[u] \in Int
  OBVIOUS
<1>1. /\ IsFiniteSet(DOMAIN reservation) /\ IsFiniteSet(DOMAIN weighing)
      /\ IsFiniteSet(DOMAIN use)
  BY KeyAssumption, FS_Subset DEF TypeOK
<1>2. ASSUME NEW r \in DOMAIN reservation
      PROVE  Left[r] \in Nat /\ Staged[r] \in Nat /\ Drawn[r] \in Nat
  BY DEF TypeOK, ReservationRow, Left, Staged, Drawn
<1>3. ASSUME NEW w \in DOMAIN weighing
      PROVE  Weighed[w] \in Nat
  BY DEF TypeOK, WeighingRow, Weighed
<1>4. ASSUME NEW u \in DOMAIN use
      PROVE  Used[u] \in Nat /\ Moves[u] \in Int
  BY DEF TypeOK, UseRow, Used, Moves
<1> QED BY <1>1, <1>2, <1>3, <1>4

LEMMA SumsTypedNext ==
  ASSUME TypeOK'
  PROVE  /\ \A r \in DOMAIN reservation' : Left'[r] \in Nat /\ Drawn'[r] \in Nat
         /\ \A u \in DOMAIN use' : Used'[u] \in Nat /\ Moves'[u] \in Int
<1>1. ASSUME NEW r \in DOMAIN reservation'
      PROVE  Left'[r] \in Nat /\ Drawn'[r] \in Nat
  BY DEF TypeOK, ReservationRow, Left, Drawn
<1>2. ASSUME NEW u \in DOMAIN use'
      PROVE  Used'[u] \in Nat /\ Moves'[u] \in Int
  BY DEF TypeOK, UseRow, Used, Moves
<1> QED BY <1>1, <1>2

-----------------------------------------------------------------------------
(* The ledger and the records *)

\* Weighings and uses name reservations that exist, and no use is returned
\* beyond what it drew.
WeighingsLinked ==
  \A w \in DOMAIN weighing : weighing[w].reservation \in DOMAIN reservation
UsesLinked ==
  \A u \in DOMAIN use :
    use[u].reservation \in DOMAIN reservation /\ use[u].returned <= use[u].productive
Linked == WeighingsLinked /\ UsesLinked

\* What a command that draws nothing leaves of a reservation.
SameDraw(old, new) ==
  /\ new.requirement = old.requirement
  /\ new.lot = old.lot
  /\ new.consumed = old.consumed
  /\ new.wasted = old.wasted

LEMMA WrittenFields ==
  ASSUME NEW row \in ReservationRow, NEW n
  PROVE  /\ SameDraw(row, Released(row, n))
         /\ SameDraw(row, ReturnedStaged(row, n))
         /\ SameDraw(row, Cancelled(row))
BY DEF SameDraw, Released, ReturnedStaged, Cancelled, ReservationRow

LEMMA ConsumedFields ==
  ASSUME NEW row \in ReservationRow, NEW productive \in Nat, NEW waste \in Nat
  PROVE  LET new == Consumed(row, productive, waste) IN
         /\ new.requirement = row.requirement
         /\ new.lot = row.lot
         /\ new.consumed = row.consumed + productive
         /\ new.wasted = row.wasted + waste
BY DEF Consumed, ReservationRow

\* A step that draws nothing and brings nothing back.
Quiet ==
  /\ use' = use
  /\ DOMAIN reservation' = DOMAIN reservation
  /\ \A r \in DOMAIN reservation : SameDraw(reservation[r], reservation'[r])
  /\ \A l \in Lot : ledger'[l].controlled = ledger[l].controlled

LEMMA LedgerCases ==
  ASSUME TypeOK, [Next]_vars
  PROVE  \/ \E k \in ReserveKey, q \in Requirement, l \in Lot, n \in Quantity :
              \E expected : Reserve(k, q, l, n, expected)
         \/ \E r \in DOMAIN reservation : \E expected :
              \/ \E k \in ConsumeKey, w \in WeighKey, productive, waste \in 0 .. MaxQuantity :
                   Consume(k, r, w, productive, waste, expected)
              \/ \E k \in ReturnKey, u \in ConsumeKey, n \in Quantity :
                   ReturnConsumed(k, r, u, n, expected)
         \/ Quiet
<1>0. \A r \in DOMAIN reservation :
        reservation[r] \in ReservationRow /\ SameDraw(reservation[r], reservation[r])
  BY DEF TypeOK, SameDraw
<1>1. ASSUME NEW k, NEW r \in DOMAIN reservation, NEW n, NEW expected,
             Release(k, r, n, expected)
      PROVE  Quiet
  <2>1. SameDraw(reservation[r], Released(reservation[r], n))
    BY <1>0, WrittenFields
  <2> QED BY <1>0, <1>1, <2>1 DEF Release, Quiet
<1>2. ASSUME NEW k, NEW r \in DOMAIN reservation, NEW w, NEW n, NEW expected,
             ReturnStaged(k, r, w, n, expected)
      PROVE  Quiet
  <2>1. SameDraw(reservation[r], ReturnedStaged(reservation[r], n))
    BY <1>0, WrittenFields
  <2> QED BY <1>0, <1>2, <2>1 DEF ReturnStaged, Quiet
<1>3. ASSUME NEW b, Abort(b)
      PROVE  Quiet
  <2>1. \A r \in DOMAIN reservation : SameDraw(reservation[r], Cancelled(reservation[r]))
    BY <1>0, WrittenFields
  <2> QED BY <1>0, <1>3, <2>1 DEF Abort, Quiet
<1>4. ASSUME UNCHANGED <<ledger, reservation, use>>
      PROVE  Quiet
  BY <1>0, <1>4 DEF Quiet
<1>5. ASSUME NEW l \in Lot, NEW change, UNCHANGED <<reservation, use>>,
             ledger' = [ledger EXCEPT ![l].other = @ + change]
             \/ ledger' = [ledger EXCEPT ![l].other = @ - change]
      PROVE  Quiet
  <2>1. \A m \in Lot : ledger'[m].controlled = ledger[m].controlled
    BY <1>5 DEF TypeOK, LedgerRow
  <2> QED BY <1>0, <1>5, <2>1 DEF Quiet
<1>6. ASSUME Unreserved
      PROVE  Quiet
  <2>1. ASSUME NEW l \in Lot, NEW b, NEW n, CommitUnreserved(b, l, n)
        PROVE  Quiet
    BY <1>5, <2>1 DEF CommitUnreserved
  <2>2. ASSUME NEW l \in Lot, NEW change, AppendMovement(l, change)
        PROVE  Quiet
    BY <1>5, <2>2 DEF AppendMovement
  <2> QED BY <1>6, <2>1, <2>2 DEF Unreserved
<1>7. ASSUME LotChange
      PROVE  Quiet
  BY <1>4, <1>7 DEF LotChange, SetLotActive, LapseRelease
<1>8. CASE UNCHANGED vars
  BY <1>4, <1>8 DEF vars
<1>9. CASE Lifecycle
  BY <1>3, <1>4, <1>9 DEF Lifecycle, RecordYield, Advance, Complete
<1>10. ASSUME NEW k, NEW r, NEW n, NEW expected,
              PlanWeighing(k, r, expected) \/ Weigh(k, r, n, expected)
       PROVE  Quiet
  BY <1>4, <1>10 DEF PlanWeighing, Weigh
<1>11. ASSUME NEW k, NEW q, NEW reason, Reconcile(k, q, reason)
       PROVE  Quiet
  BY <1>4, <1>11 DEF Reconcile
<1>12. CASE MaterialCommand
  BY <1>1, <1>2, <1>10, <1>11, <1>12 DEF MaterialCommand
<1> QED
  BY <1>6, <1>7, <1>8, <1>9, <1>12 DEF Next, ControlledNext

\* What a new reservation does to the tables.
ReserveEffect(k, q, l, n) ==
  /\ k \notin DOMAIN reservation
  /\ DOMAIN reservation' = DOMAIN reservation \cup {k}
  /\ \A r \in DOMAIN reservation : reservation'[r] = reservation[r]
  /\ reservation'[k].requirement = q /\ reservation'[k].lot = l
  /\ reservation'[k].remaining = n /\ reservation'[k].staged = 0
  /\ reservation'[k].consumed = 0 /\ reservation'[k].wasted = 0
  /\ UNCHANGED <<lot, ledger, weighing, use, recorded, reconciliation>>

LEMMA ReserveTables ==
  ASSUME NEW k, NEW q, NEW l, NEW n, NEW expected, Reserve(k, q, l, n, expected)
  PROVE  ReserveEffect(k, q, l, n)
<1> DEFINE row == [requirement |-> q, lot |-> l, reserved |-> n, remaining |-> n,
      consumed |-> 0, wasted |-> 0, released |-> 0, staged |-> 0,
      status |-> "active", allocation |-> "reserved", revision |-> 1]
<1>1. reservation' = Insert(reservation, k, row) /\ k \notin DOMAIN reservation
  BY DEF Reserve
<1>2. /\ row.requirement = q /\ row.lot = l /\ row.remaining = n
      /\ row.staged = 0 /\ row.consumed = 0 /\ row.wasted = 0
  OBVIOUS
<1> HIDE DEF row
<1>3. /\ DOMAIN reservation' = DOMAIN reservation \cup {k}
      /\ reservation'[k] = row
      /\ \A x \in DOMAIN reservation : reservation'[x] = reservation[x]
  BY <1>1 DEF Insert
<1> QED BY <1>1, <1>2, <1>3 DEF Reserve, ReserveEffect

\* What a consumption does to the tables.
ConsumeEffect(k, r, productive, waste) ==
  /\ productive \in Nat /\ waste \in Nat /\ productive + waste > 0
  /\ DOMAIN reservation' = DOMAIN reservation
  /\ \A x \in DOMAIN reservation \ {r} : reservation'[x] = reservation[x]
  /\ reservation'[r].requirement = reservation[r].requirement
  /\ reservation'[r].lot = reservation[r].lot
  /\ reservation'[r].consumed = reservation[r].consumed + productive
  /\ reservation'[r].wasted = reservation[r].wasted + waste
  /\ reservation'[r].remaining = reservation[r].remaining - (productive + waste)
  /\ k \notin DOMAIN use
  /\ DOMAIN use' = DOMAIN use \cup {k}
  /\ \A u \in DOMAIN use : use'[u] = use[u]
  /\ use'[k].reservation = r /\ use'[k].returned = 0
  /\ use'[k].productive = productive /\ use'[k].waste = waste
  /\ reservation[r].lot \in Lot
  /\ \A l \in Lot \ {reservation[r].lot} : ledger'[l] = ledger[l]
  /\ ledger'[reservation[r].lot].other = ledger[reservation[r].lot].other
  /\ ledger'[reservation[r].lot].controlled
       = ledger[reservation[r].lot].controlled - (productive + waste)

LEMMA ConsumeTables ==
  ASSUME TypeOK, NEW k, NEW r \in DOMAIN reservation, NEW w,
         NEW productive \in 0 .. MaxQuantity, NEW waste \in 0 .. MaxQuantity,
         NEW expected, Consume(k, r, w, productive, waste, expected)
  PROVE  ConsumeEffect(k, r, productive, waste)
<1> DEFINE old == reservation[r]
           new == Consumed(old, productive, waste)
           row == [reservation |-> r, weighing |-> w, productive |-> productive,
                   waste |-> waste, returned |-> 0]
<1>1. productive \in Nat /\ waste \in Nat /\ productive + waste > 0 /\ k \notin DOMAIN use
  <2>1. productive \in Nat /\ waste \in Nat
    OBVIOUS
  <2>2. productive + waste > 0 /\ k \notin DOMAIN use
    BY DEF Consume
  <2> QED BY <2>1, <2>2
<1>2. old \in ReservationRow /\ old.lot \in Lot
  BY DEF TypeOK, ReservationRow
<1>3. /\ new.requirement = old.requirement
      /\ new.lot = old.lot
      /\ new.consumed = old.consumed + productive
      /\ new.wasted = old.wasted + waste
  <2> HIDE DEF old
  <2> QED BY <1>1, <1>2, ConsumedFields
<1>4. new.remaining = old.remaining - (productive + waste)
  <2> HIDE DEF old
  <2> QED BY <1>2 DEF Consumed, ReservationRow
<1>5. reservation' = [reservation EXCEPT ![r] = new]
  BY DEF Consume
<1>6. use' = Insert(use, k, row)
  BY DEF Consume
<1>7. row.reservation = r /\ row.returned = 0 /\ row.productive = productive /\ row.waste = waste
  OBVIOUS
<1>8. ledger' = [ledger EXCEPT ![old.lot].controlled = @ - (productive + waste)]
  BY DEF Consume, Moved
<1> HIDE DEF new, row
<1>9. /\ DOMAIN use' = DOMAIN use \cup {k}
      /\ use'[k] = row
      /\ \A u \in DOMAIN use : use'[u] = use[u]
  BY <1>1, <1>6 DEF Insert
<1>10. /\ DOMAIN reservation' = DOMAIN reservation
       /\ reservation'[r] = new
       /\ \A x \in DOMAIN reservation \ {r} : reservation'[x] = reservation[x]
  BY <1>5 DEF TypeOK
<1>11. /\ \A l \in Lot \ {old.lot} : ledger'[l] = ledger[l]
       /\ ledger'[old.lot].other = ledger[old.lot].other
       /\ ledger'[old.lot].controlled = ledger[old.lot].controlled - (productive + waste)
  <2> HIDE DEF old
  <2> QED BY <1>2, <1>8 DEF TypeOK, LedgerRow
<1> QED BY <1>1, <1>2, <1>3, <1>4, <1>7, <1>9, <1>10, <1>11 DEF ConsumeEffect

\* What a physical return does to the tables.
ReturnEffect(r, u, n) ==
  /\ n \in Nat /\ n > 0
  /\ u \in DOMAIN use /\ use[u].reservation = r
  /\ DOMAIN use' = DOMAIN use
  /\ \A x \in DOMAIN use \ {u} : use'[x] = use[x]
  /\ use'[u].reservation = r /\ use'[u].productive = use[u].productive
  /\ use'[u].waste = use[u].waste
  /\ use'[u].returned = use[u].returned + n
  /\ use[u].returned + n <= use[u].productive
  /\ UNCHANGED <<reservation, weighing>>
  /\ reservation[r].lot \in Lot
  /\ \A l \in Lot \ {reservation[r].lot} : ledger'[l] = ledger[l]
  /\ ledger'[reservation[r].lot].other = ledger[reservation[r].lot].other
  /\ ledger'[reservation[r].lot].controlled
       = ledger[reservation[r].lot].controlled + n

LEMMA ReturnTables ==
  ASSUME TypeOK, NEW k, NEW r \in DOMAIN reservation, NEW u, NEW n \in Quantity,
         NEW expected, ReturnConsumed(k, r, u, n, expected)
  PROVE  ReturnEffect(r, u, n)
<1> DEFINE l == reservation[r].lot
<1>1. n \in Nat /\ n > 0
  BY QuantityAssumption DEF Quantity
<1>2. u \in DOMAIN use /\ use[u].reservation = r /\ UNCHANGED <<reservation, weighing>>
  BY DEF ReturnConsumed
<1>3. use[u] \in UseRow /\ l \in Lot
  BY <1>2 DEF TypeOK, ReservationRow
<1>4. use[u].returned + n <= use[u].productive
  BY <1>1, <1>3 DEF ReturnConsumed, Returnable, UseRow
<1>5. use' = [use EXCEPT ![u].returned = @ + n]
  BY DEF ReturnConsumed
<1>6. ledger' = [ledger EXCEPT ![l].controlled = @ + n]
  BY DEF ReturnConsumed
<1> HIDE DEF l
<1>7. /\ \A m \in Lot \ {l} : ledger'[m] = ledger[m]
      /\ ledger'[l].other = ledger[l].other
      /\ ledger'[l].controlled = ledger[l].controlled + n
  BY <1>3, <1>6 DEF TypeOK, LedgerRow
<1>8. /\ DOMAIN use' = DOMAIN use
      /\ \A x \in DOMAIN use \ {u} : use'[x] = use[x]
      /\ use'[u].reservation = use[u].reservation /\ use'[u].productive = use[u].productive
      /\ use'[u].waste = use[u].waste
      /\ use'[u].returned = use[u].returned + n
  BY <1>2, <1>3, <1>5 DEF TypeOK, UseRow
<1> QED BY <1>1, <1>2, <1>3, <1>4, <1>7, <1>8 DEF l, ReturnEffect

\* Weighings are only added, each of a reservation that is open.
LEMMA WeighingCases ==
  ASSUME [Next]_vars
  PROVE  \/ \E k \in WeighKey, r \in DOMAIN reservation, kind \in {"planned", "actual"},
               n \in Nat :
              /\ k \notin DOMAIN weighing
              /\ reservation[r].status \in OpenStatus
              /\ weighing' = Insert(weighing, k, [reservation |-> r, kind |-> kind,
                                                  quantity |-> n])
              /\ UNCHANGED <<reservation, use>>
         \/ UNCHANGED weighing
<1> DEFINE Added ==
             \E k \in WeighKey, r \in DOMAIN reservation, kind \in {"planned", "actual"},
                n \in Nat :
               /\ k \notin DOMAIN weighing
               /\ reservation[r].status \in OpenStatus
               /\ weighing' = Insert(weighing, k, [reservation |-> r, kind |-> kind,
                                                   quantity |-> n])
               /\ UNCHANGED <<reservation, use>>
<1>1. ASSUME NEW k \in WeighKey, NEW r \in DOMAIN reservation, NEW n \in Quantity, NEW expected,
             Weigh(k, r, n, expected)
      PROVE  Added
  <2>1. n \in Nat
    BY QuantityAssumption DEF Quantity
  <2> QED BY <1>1, <2>1 DEF Weigh, Weighable
<1>2. ASSUME NEW k \in WeighKey, NEW r \in DOMAIN reservation, NEW expected,
             PlanWeighing(k, r, expected)
      PROVE  Added
  BY <1>2 DEF PlanWeighing, Weighable
<1> HIDE DEF Added
<1>3. ASSUME NEW k, NEW q, NEW l, NEW n, NEW expected, Reserve(k, q, l, n, expected)
      PROVE  UNCHANGED weighing
  BY <1>3 DEF Reserve
<1>4. ASSUME NEW k, NEW r, NEW n, NEW expected, Release(k, r, n, expected)
      PROVE  UNCHANGED weighing
  BY <1>4 DEF Release
<1>5. ASSUME NEW k, NEW r, NEW w, NEW productive, NEW waste, NEW expected,
             Consume(k, r, w, productive, waste, expected)
      PROVE  UNCHANGED weighing
  BY <1>5 DEF Consume
<1>6. ASSUME NEW k, NEW r, NEW w, NEW n, NEW expected, ReturnStaged(k, r, w, n, expected)
      PROVE  UNCHANGED weighing
  BY <1>6 DEF ReturnStaged
<1>7. ASSUME NEW k, NEW r, NEW u, NEW n, NEW expected, ReturnConsumed(k, r, u, n, expected)
      PROVE  UNCHANGED weighing
  BY <1>7 DEF ReturnConsumed
<1>8. ASSUME NEW k, NEW q, NEW reason, Reconcile(k, q, reason)
      PROVE  UNCHANGED weighing
  BY <1>8 DEF Reconcile
<1>9. ASSUME MaterialCommand
      PROVE  Added \/ UNCHANGED weighing
  BY <1>1, <1>2, <1>3, <1>4, <1>5, <1>6, <1>7, <1>8, <1>9 DEF MaterialCommand
<1>10. ASSUME Lifecycle \/ LotChange \/ Unreserved \/ UNCHANGED vars
       PROVE  UNCHANGED weighing
  BY <1>10
  DEF Lifecycle, LotChange, Unreserved, RecordYield, Advance, Complete, Abort, SetLotActive,
      LapseRelease, CommitUnreserved, AppendMovement, vars
<1>11. Added \/ UNCHANGED weighing
  BY <1>9, <1>10 DEF Next, ControlledNext
<1> QED BY <1>11 DEF Added

LEMMA StepLinked ==
  ASSUME TypeOK, Linked, [Next]_vars
  PROVE  Linked' /\ DOMAIN reservation \subseteq DOMAIN reservation'
<1> DEFINE Grows == DOMAIN reservation \subseteq DOMAIN reservation'
<1>1. Grows /\ UsesLinked'
  <2>1. ASSUME NEW k, NEW q, NEW l, NEW n, NEW expected, Reserve(k, q, l, n, expected)
        PROVE  Grows /\ UsesLinked'
    BY <2>1, ReserveTables DEF ReserveEffect, Linked, UsesLinked
  <2>2. ASSUME NEW k, NEW r \in DOMAIN reservation, NEW w,
               NEW productive \in 0 .. MaxQuantity, NEW waste \in 0 .. MaxQuantity,
               NEW expected, Consume(k, r, w, productive, waste, expected)
        PROVE  Grows /\ UsesLinked'
    <3>1. ConsumeEffect(k, r, productive, waste)
      BY <2>2, ConsumeTables, Zenon
    <3> QED BY <3>1 DEF ConsumeEffect, Linked, UsesLinked
  <2>3. ASSUME NEW k, NEW r \in DOMAIN reservation, NEW u, NEW n \in Quantity, NEW expected,
               ReturnConsumed(k, r, u, n, expected)
        PROVE  Grows /\ UsesLinked'
    <3>1. ReturnEffect(r, u, n)
      BY <2>3, ReturnTables, Zenon
    <3> QED BY <3>1 DEF ReturnEffect, Linked, UsesLinked
  <2>4. CASE Quiet
    BY <2>4 DEF Quiet, Linked, UsesLinked
  <2> HIDE DEF Grows
  <2> QED BY <2>1, <2>2, <2>3, <2>4, LedgerCases
<1>2. WeighingsLinked'
  <2>1. CASE UNCHANGED weighing
    BY <1>1, <2>1 DEF Linked, WeighingsLinked
  <2>2. ASSUME NEW k, NEW r \in DOMAIN reservation, NEW kind, NEW n,
               k \notin DOMAIN weighing, UNCHANGED reservation,
               weighing' = Insert(weighing, k, [reservation |-> r, kind |-> kind, quantity |-> n])
        PROVE  WeighingsLinked'
    <3> DEFINE row == [reservation |-> r, kind |-> kind, quantity |-> n]
    <3>1. row.reservation = r
      OBVIOUS
    <3>2. weighing' = Insert(weighing, k, row)
      BY <2>2
    <3> HIDE DEF row
    <3> QED BY <2>2, <3>1, <3>2 DEF Insert, Linked, WeighingsLinked
  <2> QED BY <2>1, <2>2, WeighingCases
<1> QED BY <1>1, <1>2 DEF Linked

\* One lot of LedgerMatchesRecords, without the bound on returns.
RecordsAgree(l) ==
  /\ ledger[l].controlled = SumFunctionOnSet(Moves, UsesOn(l))
  /\ SumFunctionOnSet(Used, UsesOn(l)) = SumFunctionOnSet(Drawn, HeldOn(l))

LEMMA StepRecords ==
  ASSUME TypeOK, TypeOK', Linked, [Next]_vars, NEW l \in Lot, RecordsAgree(l)
  PROVE  RecordsAgree(l)'
<1> DEFINE U == UsesOn(l)
           H == HeldOn(l)
<1>1. /\ IsFiniteSet(U) /\ IsFiniteSet(H)
      /\ U \subseteq DOMAIN use /\ H \subseteq DOMAIN reservation
  BY SumsTyped, FS_Subset DEF UsesOn, HeldOn
<1>2. /\ \A u \in DOMAIN use : Used[u] \in Int /\ Moves[u] \in Int
      /\ \A r \in DOMAIN reservation : Drawn[r] \in Int
  BY SumsTyped
<1>3. /\ \A u \in DOMAIN use' : Used'[u] \in Int /\ Moves'[u] \in Int
      /\ \A r \in DOMAIN reservation' : Drawn'[r] \in Int
  BY SumsTypedNext
<1>4. /\ SumFunctionOnSet(Moves, U) \in Int
      /\ SumFunctionOnSet(Used, U) \in Int
      /\ SumFunctionOnSet(Drawn, H) \in Int
  BY <1>1, <1>2, SumInt
<1>5. ASSUME NEW k, NEW q, NEW m, NEW n, NEW expected, Reserve(k, q, m, n, expected)
      PROVE  RecordsAgree(l)'
  <2>1. ReserveEffect(k, q, m, n)
    BY <1>5, ReserveTables
  <2>2. Used' = Used /\ Moves' = Moves /\ ledger' = ledger
    BY <2>1 DEF ReserveEffect, Used, Moves
  <2>3. UsesOn(l)' = U
    BY <2>1 DEF ReserveEffect, UsesOn, Linked, UsesLinked
  <2>4. Drawn'[k] = 0 /\ \A r \in H : Drawn'[r] = Drawn[r]
    BY <2>1 DEF ReserveEffect, Drawn, HeldOn
  <2>5. k \notin H /\ HeldOn(l)' = IF m = l THEN H \cup {k} ELSE H
    BY <2>1 DEF ReserveEffect, HeldOn
  <2> HIDE DEF U, H
  <2>6. SumFunctionOnSet(Drawn', H) = SumFunctionOnSet(Drawn, H)
    BY <1>1, <1>2, <2>4, SumSame
  <2>7. SumFunctionOnSet(Drawn', H \cup {k}) = SumFunctionOnSet(Drawn, H) + Drawn'[k]
    <3>1. Drawn'[k] \in Int /\ k \notin H
      BY <2>4, <2>5
    <3>2. IsFiniteSet(H) /\ \A r \in H : Drawn[r] \in Int /\ Drawn'[r] = Drawn[r]
      BY <1>1, <1>2, <2>4
    <3> QED BY <3>1, <3>2, SumGrow
  <2>8. SumFunctionOnSet(Drawn, HeldOn(l))' = SumFunctionOnSet(Drawn, H)
    BY <1>4, <2>4, <2>5, <2>6, <2>7
  <2> QED BY <2>2, <2>3, <2>8 DEF RecordsAgree, U, H
<1>6. ASSUME NEW k, NEW r \in DOMAIN reservation, NEW w,
             NEW productive \in 0 .. MaxQuantity, NEW waste \in 0 .. MaxQuantity,
             NEW expected, Consume(k, r, w, productive, waste, expected)
      PROVE  RecordsAgree(l)'
  <2> DEFINE m == reservation[r].lot
             total == productive + waste
  <2>1. ConsumeEffect(k, r, productive, waste)
    BY <1>6, ConsumeTables, Zenon
  <2>2. total \in Int /\ m \in Lot
    BY <2>1 DEF ConsumeEffect
  <2>3. /\ k \notin U /\ Used'[k] = total /\ Moves'[k] = -total
        /\ \A u \in U : Used'[u] = Used[u] /\ Moves'[u] = Moves[u]
    <3>1. /\ \A u \in DOMAIN use' : Used'[u] = use'[u].productive + use'[u].waste
          /\ \A u \in DOMAIN use' : Moves'[u] = use'[u].returned - use'[u].productive - use'[u].waste
          /\ \A u \in DOMAIN use : Used[u] = use[u].productive + use[u].waste
          /\ \A u \in DOMAIN use : Moves[u] = use[u].returned - use[u].productive - use[u].waste
      BY DEF Used, Moves
    <3> QED BY <1>1, <2>1, <3>1 DEF ConsumeEffect
  <2>4. UsesOn(l)' = IF m = l THEN U \cup {k} ELSE U
    BY <2>1 DEF ConsumeEffect, UsesOn, Linked, UsesLinked
  <2>5. /\ HeldOn(l)' = H
        /\ r \in H <=> m = l
    BY <2>1 DEF ConsumeEffect, HeldOn
  <2>6. Drawn'[r] - Drawn[r] = total /\ \A x \in H \ {r} : Drawn'[x] = Drawn[x]
    <3>1. /\ \A x \in DOMAIN reservation' :
               Drawn'[x] = reservation'[x].consumed + reservation'[x].wasted
          /\ \A x \in DOMAIN reservation :
               Drawn[x] = reservation[x].consumed + reservation[x].wasted
      BY DEF Drawn
    <3>2. reservation[r].consumed \in Int /\ reservation[r].wasted \in Int
      BY DEF TypeOK, ReservationRow
    <3> QED BY <1>1, <2>1, <3>1, <3>2 DEF ConsumeEffect
  <2>7. ledger'[l].controlled = ledger[l].controlled + (IF m = l THEN -total ELSE 0)
    <3>1. ledger[l].controlled \in Int
      BY DEF TypeOK, LedgerRow
    <3> QED BY <2>1, <2>2, <3>1 DEF ConsumeEffect
  <2>8. \A x \in H : Drawn'[x] \in Int
    BY <1>1, <1>3, <2>1 DEF ConsumeEffect
  <2> HIDE DEF U, H, m, total
  <2>9. SumFunctionOnSet(Drawn', H) = SumFunctionOnSet(Drawn, H) + (IF m = l THEN total ELSE 0)
    <3>1. SumFunctionOnSet(Drawn', H)
            = SumFunctionOnSet(Drawn, H) + (IF r \in H THEN Drawn'[r] - Drawn[r] ELSE 0)
      BY <1>1, <1>2, <2>6, <2>8, SumChange
    <3> QED BY <2>5, <2>6, <3>1
  <2>10. /\ SumFunctionOnSet(Used', U \cup {k}) = SumFunctionOnSet(Used, U) + total
         /\ SumFunctionOnSet(Moves', U \cup {k}) = SumFunctionOnSet(Moves, U) + (-total)
         /\ SumFunctionOnSet(Used', U) = SumFunctionOnSet(Used, U)
         /\ SumFunctionOnSet(Moves', U) = SumFunctionOnSet(Moves, U)
    <3>1. SumFunctionOnSet(Used', U \cup {k}) = SumFunctionOnSet(Used, U) + Used'[k]
      <4>1. Used'[k] \in Int /\ k \notin U
        BY <2>2, <2>3
      <4>2. IsFiniteSet(U) /\ \A u \in U : Used[u] \in Int /\ Used'[u] = Used[u]
        BY <1>1, <1>2, <2>3
      <4> QED BY <4>1, <4>2, SumGrow
    <3>2. SumFunctionOnSet(Moves', U \cup {k}) = SumFunctionOnSet(Moves, U) + Moves'[k]
      <4>1. Moves'[k] \in Int /\ k \notin U
        BY <2>2, <2>3
      <4>2. IsFiniteSet(U) /\ \A u \in U : Moves[u] \in Int /\ Moves'[u] = Moves[u]
        BY <1>1, <1>2, <2>3
      <4> QED BY <4>1, <4>2, SumGrow
    <3>3. SumFunctionOnSet(Used', U) = SumFunctionOnSet(Used, U)
          /\ SumFunctionOnSet(Moves', U) = SumFunctionOnSet(Moves, U)
      BY <1>1, <1>2, <2>3, SumSame
    <3> QED BY <2>3, <3>1, <3>2, <3>3
  <2>11. SumFunctionOnSet(Used, UsesOn(l))'
           = SumFunctionOnSet(Used, U) + (IF m = l THEN total ELSE 0)
    BY <1>4, <2>2, <2>4, <2>10
  <2>12. SumFunctionOnSet(Moves, UsesOn(l))'
           = SumFunctionOnSet(Moves, U) + (IF m = l THEN -total ELSE 0)
    BY <1>4, <2>2, <2>4, <2>10
  <2>13. SumFunctionOnSet(Drawn, HeldOn(l))'
           = SumFunctionOnSet(Drawn, H) + (IF m = l THEN total ELSE 0)
    BY <2>5, <2>9
  <2> QED BY <2>7, <2>11, <2>12, <2>13 DEF RecordsAgree, U, H
<1>7. ASSUME NEW k, NEW r \in DOMAIN reservation, NEW u, NEW n \in Quantity, NEW expected,
             ReturnConsumed(k, r, u, n, expected)
      PROVE  RecordsAgree(l)'
  <2> DEFINE m == reservation[r].lot
  <2>1. ReturnEffect(r, u, n)
    BY <1>7, ReturnTables, Zenon
  <2>2. /\ UsesOn(l)' = U /\ HeldOn(l)' = H /\ Drawn' = Drawn
        /\ u \in U <=> m = l
    BY <2>1 DEF ReturnEffect, UsesOn, HeldOn, Drawn
  <2>3. /\ \A x \in U : Used'[x] = Used[x]
        /\ \A x \in U \ {u} : Moves'[x] = Moves[x]
        /\ Moves'[u] - Moves[u] = n
    <3>1. /\ \A x \in DOMAIN use' : Used'[x] = use'[x].productive + use'[x].waste
          /\ \A x \in DOMAIN use' : Moves'[x] = use'[x].returned - use'[x].productive - use'[x].waste
          /\ \A x \in DOMAIN use : Used[x] = use[x].productive + use[x].waste
          /\ \A x \in DOMAIN use : Moves[x] = use[x].returned - use[x].productive - use[x].waste
      BY DEF Used, Moves
    <3>2. u \in DOMAIN use
      BY <2>1 DEF ReturnEffect
    <3>3. use[u].productive \in Int /\ use[u].waste \in Int /\ use[u].returned \in Int
      BY <3>2 DEF TypeOK, UseRow
    <3> QED BY <1>1, <2>1, <3>1, <3>2, <3>3 DEF ReturnEffect
  <2>4. ledger'[l].controlled = ledger[l].controlled + (IF m = l THEN n ELSE 0)
    <3>1. ledger[l].controlled \in Int
      BY DEF TypeOK, LedgerRow
    <3> QED BY <2>1, <3>1 DEF ReturnEffect
  <2>5. \A x \in U : Moves'[x] \in Int
    BY <1>1, <1>3, <2>1 DEF ReturnEffect
  <2> HIDE DEF U, H, m
  <2>6. SumFunctionOnSet(Used', U) = SumFunctionOnSet(Used, U)
    BY <1>1, <1>2, <2>3, SumSame
  <2>7. SumFunctionOnSet(Moves', U)
          = SumFunctionOnSet(Moves, U) + (IF u \in U THEN Moves'[u] - Moves[u] ELSE 0)
    BY <1>1, <1>2, <2>3, <2>5, SumChange
  <2>8. SumFunctionOnSet(Moves', U) = SumFunctionOnSet(Moves, U) + (IF m = l THEN n ELSE 0)
    BY <2>2, <2>3, <2>7
  <2> QED BY <2>2, <2>4, <2>6, <2>8 DEF RecordsAgree, U, H
<1>8. CASE Quiet
  <2>1. UsesOn(l)' = U /\ HeldOn(l)' = H
    BY <1>8 DEF Quiet, SameDraw, UsesOn, HeldOn, Linked, UsesLinked
  <2>2. Used' = Used /\ Moves' = Moves /\ ledger'[l].controlled = ledger[l].controlled
    BY <1>8 DEF Quiet, Used, Moves
  <2>3. \A r \in H : Drawn'[r] = Drawn[r]
    BY <1>1, <1>8 DEF Quiet, SameDraw, Drawn
  <2> HIDE DEF U, H
  <2>4. SumFunctionOnSet(Drawn', H) = SumFunctionOnSet(Drawn, H)
    BY <1>1, <1>2, <2>3, SumSame
  <2> QED BY <2>1, <2>2, <2>4 DEF RecordsAgree, U, H
<1> QED BY <1>5, <1>6, <1>7, <1>8, LedgerCases

LedgerInv == TypeOK /\ Linked /\ \A l \in Lot : RecordsAgree(l)

LEMMA LedgerInvHolds == Spec => []LedgerInv
<1>1. Init => LedgerInv
  <2> SUFFICES ASSUME Init PROVE LedgerInv
    OBVIOUS
  <2>1. Linked
    BY DEF Init, Linked, WeighingsLinked, UsesLinked
  <2>2. ASSUME NEW l \in Lot
        PROVE  RecordsAgree(l)
    <3>1. UsesOn(l) = {} /\ HeldOn(l) = {} /\ ledger[l].controlled = 0
      BY DEF Init, UsesOn, HeldOn
    <3> QED BY <3>1, SumEmpty DEF RecordsAgree
  <2> QED BY <2>1, <2>2, InitTyped DEF LedgerInv
<1>2. LedgerInv /\ [Next]_vars => LedgerInv'
  BY StepTyped, StepLinked, StepRecords DEF LedgerInv
<1> QED BY <1>1, <1>2, PTL DEF Spec

\* The controlled movements of every lot, the rows of consumption, waste and
\* return and the counters of its reservations agree, however many commands of
\* however many batches wrote them, and never bring back more than was drawn.
THEOREM LedgerAgrees == Spec => []LedgerMatchesRecords
<1>1. LedgerInv => LedgerMatchesRecords
  <2> SUFFICES ASSUME LedgerInv, NEW l \in Lot
               PROVE  RecordsAgree(l) /\ ledger[l].controlled <= 0
    BY DEF LedgerMatchesRecords, RecordsAgree
  <2> DEFINE U == UsesOn(l)
             zero == [u \in U |-> 0]
  <2>1. IsFiniteSet(U)
    BY SumsTyped, FS_Subset DEF LedgerInv, UsesOn
  <2>2. \A u \in U : Moves[u] \in Int /\ Moves[u] <= 0
    BY DEF LedgerInv, TypeOK, UseRow, Linked, UsesLinked, UsesOn, Moves
  <2>3. \A u \in U : zero[u] = 0
    OBVIOUS
  <2> HIDE DEF U, zero
  <2>4. SumFunctionOnSet(zero, U) = 0
    BY <2>1, <2>3, SumZero
  <2>5. SumFunctionOnSet(Moves, U) <= SumFunctionOnSet(zero, U)
    BY <2>1, <2>2, <2>3, SumMonotone
  <2> QED BY <2>4, <2>5 DEF LedgerInv, RecordsAgree, U
<1> QED BY <1>1, LedgerInvHolds, PTL

-----------------------------------------------------------------------------
(* A settled variance *)

\* A step that writes no weighing of a requirement, no use of it and no
\* reservation of it leaves its unexplained variance alone: the commands that
\* could change it need an open reservation.
LEMMA StepVariance ==
  ASSUME TypeOK, TypeOK', RowsOK, Linked, [Next]_vars, NEW q \in Requirement,
         Remaining(q) = 0, ReservationsOf(q)' = ReservationsOf(q)
  PROVE  Unexplained(q)' = Unexplained(q)
<1> DEFINE R == ReservationsOf(q)
           W == WeighingsOf(q, "actual")
           U == UsesOf(q)
<1>1. /\ IsFiniteSet(R) /\ IsFiniteSet(W) /\ IsFiniteSet(U)
      /\ R \subseteq DOMAIN reservation /\ W \subseteq DOMAIN weighing /\ U \subseteq DOMAIN use
  BY SumsTyped, FS_Subset DEF ReservationsOf, WeighingsOf, UsesOf
<1>2. /\ \A r \in R : Left[r] \in Nat /\ Staged[r] \in Int
      /\ \A w \in W : Weighed[w] \in Int
      /\ \A u \in U : Used[u] \in Int
  BY <1>1, SumsTyped
<1>3. ASSUME NEW r \in R
      PROVE  reservation[r].remaining = 0 /\ reservation[r].status \in ClosedStatus
  <2>1. Left[r] <= SumFunctionOnSet(Left, R)
    <3> HIDE DEF R
    <3> QED BY <1>1, <1>2, SumNat
  <2>2. Left[r] = 0
    BY <1>2, <2>1 DEF Remaining
  <2> QED BY <1>1, <2>2 DEF Left, RowsOK, RowOK
<1>4. \A r \in R : reservation'[r] = reservation[r]
  BY <1>1, <1>3, StepClosedStay DEF ClosedStay
<1>5. DOMAIN reservation \subseteq DOMAIN reservation'
  BY StepLinked
<1>6. \A r \in DOMAIN reservation :
        reservation'[r].requirement = q <=> reservation[r].requirement = q
  BY <1>4, <1>5 DEF ReservationsOf
<1>7. SumFunctionOnSet(Staged, ReservationsOf(q))' = SumFunctionOnSet(Staged, R)
  <2>1. \A r \in R : Staged'[r] = Staged[r]
    BY <1>1, <1>4, <1>5 DEF Staged
  <2>2. ReservationsOf(q)' = R
    OBVIOUS
  <2> HIDE DEF R
  <2>3. SumFunctionOnSet(Staged', R) = SumFunctionOnSet(Staged, R)
    BY <1>1, <1>2, <2>1, SumSame
  <2> QED BY <2>2, <2>3
<1>8. WeighingsOf(q, "actual")' = W /\ \A w \in W : Weighed'[w] = Weighed[w]
  <2>1. CASE UNCHANGED weighing
    BY <1>1, <1>6, <2>1 DEF WeighingsOf, Weighed, Linked, WeighingsLinked
  <2>2. ASSUME NEW k, NEW r \in DOMAIN reservation, NEW kind, NEW n,
               k \notin DOMAIN weighing, reservation[r].status \in OpenStatus,
               weighing' = Insert(weighing, k, [reservation |-> r, kind |-> kind, quantity |-> n]),
               UNCHANGED reservation
        PROVE  WeighingsOf(q, "actual")' = W /\ \A w \in W : Weighed'[w] = Weighed[w]
    <3> DEFINE row == [reservation |-> r, kind |-> kind, quantity |-> n]
    <3>1. row.reservation = r
      OBVIOUS
    <3>2. weighing' = Insert(weighing, k, row)
      BY <2>2
    <3>3. reservation[r].requirement # q
      BY <1>3, <2>2 DEF ReservationsOf, OpenStatus, ClosedStatus
    <3> HIDE DEF row
    <3>4. /\ DOMAIN weighing' = DOMAIN weighing \cup {k}
          /\ weighing'[k] = row
          /\ \A w \in DOMAIN weighing : weighing'[w] = weighing[w]
      BY <2>2, <3>2 DEF Insert
    <3> QED BY <1>1, <2>2, <3>1, <3>3, <3>4 DEF WeighingsOf, Weighed
  <2> QED BY <2>1, <2>2, WeighingCases
<1>9. UsesOf(q)' = U /\ \A u \in U : Used'[u] = Used[u]
  <2>1. ASSUME NEW k, NEW p, NEW l, NEW n, NEW expected, Reserve(k, p, l, n, expected)
        PROVE  UsesOf(q)' = U /\ \A u \in U : Used'[u] = Used[u]
    <3>1. use' = use
      BY <2>1 DEF Reserve
    <3> QED BY <1>1, <1>6, <3>1 DEF UsesOf, Used, Linked, UsesLinked
  <2>2. ASSUME NEW k, NEW r \in DOMAIN reservation, NEW w,
               NEW productive \in 0 .. MaxQuantity, NEW waste \in 0 .. MaxQuantity,
               NEW expected, Consume(k, r, w, productive, waste, expected)
        PROVE  UsesOf(q)' = U /\ \A u \in U : Used'[u] = Used[u]
    <3>1. ConsumeEffect(k, r, productive, waste)
      BY <2>2, ConsumeTables, Zenon
    <3>2. reservation[r].status \in OpenStatus
      BY <2>2 DEF Consume
    <3>3. reservation[r].requirement # q
      BY <1>3, <3>2 DEF ReservationsOf, OpenStatus, ClosedStatus
    <3>4. UsesOf(q)' = U
      BY <1>6, <3>1, <3>3 DEF ConsumeEffect, UsesOf, Linked, UsesLinked
    <3>5. \A u \in U : Used'[u] = Used[u]
      BY <1>1, <3>1 DEF ConsumeEffect, Used
    <3> QED BY <3>4, <3>5
  <2>3. ASSUME NEW k, NEW r \in DOMAIN reservation, NEW u, NEW n \in Quantity, NEW expected,
               ReturnConsumed(k, r, u, n, expected)
        PROVE  UsesOf(q)' = U /\ \A x \in U : Used'[x] = Used[x]
    <3>1. ReturnEffect(r, u, n)
      BY <2>3, ReturnTables, Zenon
    <3>2. UsesOf(q)' = U
      BY <3>1 DEF ReturnEffect, UsesOf
    <3>3. \A x \in DOMAIN use :
            /\ x \in DOMAIN use'
            /\ use'[x].productive = use[x].productive /\ use'[x].waste = use[x].waste
      BY <3>1 DEF ReturnEffect
    <3>4. \A x \in U : Used'[x] = Used[x]
      BY <1>1, <3>3 DEF Used
    <3> QED BY <3>2, <3>4
  <2>4. CASE Quiet
    BY <1>1, <1>6, <2>4 DEF Quiet, UsesOf, Used, Linked, UsesLinked
  <2> QED BY <2>1, <2>2, <2>3, <2>4, LedgerCases
<1>10. SumFunctionOnSet(Weighed, WeighingsOf(q, "actual"))' = SumFunctionOnSet(Weighed, W)
  <2> HIDE DEF W
  <2>1. SumFunctionOnSet(Weighed', W) = SumFunctionOnSet(Weighed, W)
    BY <1>1, <1>2, <1>8, SumSame
  <2> QED BY <1>8, <2>1
<1>11. SumFunctionOnSet(Used, UsesOf(q))' = SumFunctionOnSet(Used, U)
  <2> HIDE DEF U
  <2>1. SumFunctionOnSet(Used', U) = SumFunctionOnSet(Used, U)
    BY <1>1, <1>2, <1>9, SumSame
  <2> QED BY <1>9, <2>1
<1> QED BY <1>7, <1>10, <1>11 DEF Unexplained

\* The unexplained variance of a requirement that holds no stock changes only
\* when something new is reserved for it, so a reconciliation stays true.
THEOREM SettledVarianceStays == Spec => SettledVarianceFixed
<1>1. TypeOK /\ TypeOK' /\ RowsOK /\ Linked /\ [Next]_vars
        => [\A q \in Requirement :
              Remaining(q) = 0 /\ ReservationsOf(q)' = ReservationsOf(q)
                => Unexplained(q)' = Unexplained(q)]_vars
  BY StepVariance
<1>2. IInv => TypeOK /\ RowsOK
  BY DEF IInv
<1>3. LedgerInv => Linked
  BY DEF LedgerInv
<1> QED BY <1>1, <1>2, <1>3, InvariantHolds, LedgerInvHolds, PTL DEF Spec, SettledVarianceFixed

-----------------------------------------------------------------------------
(* Reservations as promises, the ledger as stock *)

LEMMA PromisedTyped ==
  ASSUME TypeOK, NEW l \in Lot
  PROVE  /\ IsFiniteSet(HeldOn(l)) /\ HeldOn(l) \subseteq DOMAIN reservation
         /\ \A r \in HeldOn(l) : Left[r] \in Nat
         /\ Promised(l) \in Nat
<1>1. IsFiniteSet(HeldOn(l)) /\ HeldOn(l) \subseteq DOMAIN reservation
  BY SumsTyped, FS_Subset DEF HeldOn
<1>2. \A r \in HeldOn(l) : Left[r] \in Nat
  BY <1>1, SumsTyped
<1>3. Promised(l) \in Nat
  BY <1>1, <1>2, SumNat DEF Promised
<1> QED BY <1>1, <1>2, <1>3

\* What a reservation may be made of: the stock of the lot less its promises,
\* closed reservations having none.
LEMMA AvailableMeaning ==
  ASSUME TypeOK, RowsOK, NEW l \in Lot, NEW n \in Nat, n > 0, n <= Available(l)
  PROVE  Promised(l) + n <= Balance(l)
<1> DEFINE H == HeldOn(l)
           O == {r \in OpenReservations(DOMAIN reservation) : reservation[r].lot = l}
<1>1. O \in SUBSET H
  BY DEF OpenReservations, HeldOn
<1>2. \A r \in H \ O : Left[r] = 0
  BY DEF HeldOn, OpenReservations, Left, RowsOK, RowOK, TypeOK, ReservationRow
<1>3. IsFiniteSet(H) /\ \A r \in H : Left[r] \in Int
  BY PromisedTyped
<1>4. ReservedOn(l) = SumFunctionOnSet(Left, O) /\ Promised(l) = SumFunctionOnSet(Left, H)
  BY DEF ReservedOn, Promised
<1> HIDE DEF O, H
<1>5. Promised(l) = ReservedOn(l)
  <2>1. \A r \in O : Left[r] \in Int /\ Left[r] = Left[r]
    BY <1>1, <1>3
  <2>2. SumFunctionOnSet(Left, H) = SumFunctionOnSet(Left, O)
    BY <1>1, <1>2, <1>3, <2>1, SumRestrict
  <2> QED BY <1>4, <2>2
<1>6. Promised(l) \in Nat /\ Balance(l) \in Int
  BY PromisedTyped DEF Balance, TypeOK, LedgerRow
<1> DEFINE rest == Balance(l) - Promised(l)
<1>7. Available(l) = Max({0, rest})
  BY <1>5 DEF Available
<1>8. rest \in Int
  BY <1>6
<1> HIDE DEF rest
<1>9. Max({0, rest}) \in {0, rest}
  <2>1. CASE rest >= 0
    <3>1. rest \in {0, rest} /\ \A y \in {0, rest} : rest >= y
      BY <1>8, <2>1
    <3> QED BY <3>1 DEF Max
  <2>2. CASE ~(rest >= 0)
    <3>1. 0 \in {0, rest} /\ \A y \in {0, rest} : 0 >= y
      BY <1>8, <2>2
    <3> QED BY <3>1 DEF Max
  <2> QED BY <2>1, <2>2
<1>10. n <= rest
  BY <1>7, <1>8, <1>9
<1> QED BY <1>6, <1>10 DEF rest

\* A step that only gives promises up.
GivesUp ==
  /\ ledger' = ledger
  /\ DOMAIN reservation' = DOMAIN reservation
  /\ \A r \in DOMAIN reservation :
       /\ reservation'[r].lot = reservation[r].lot
       /\ reservation'[r].remaining <= reservation[r].remaining

LEMMA GivenUp ==
  ASSUME TypeOK, TypeOK', GivesUp, NEW l \in Lot
  PROVE  Promised(l)' <= Promised(l)
<1> DEFINE H == HeldOn(l)
<1>1. IsFiniteSet(H) /\ \A r \in H : Left[r] \in Int
  BY PromisedTyped
<1>2. HeldOn(l)' = H
  BY DEF GivesUp, HeldOn
<1>3. \A r \in H : Left'[r] \in Int /\ Left'[r] <= Left[r]
  BY DEF GivesUp, Left, HeldOn, TypeOK, ReservationRow
<1> HIDE DEF H
<1>4. SumFunctionOnSet(Left', H) <= SumFunctionOnSet(Left, H)
  BY <1>1, <1>3, SumMonotone
<1> QED BY <1>2, <1>4 DEF Promised, H

\* A step that moves stock of one lot, promises aside.
MovesStock(l) ==
  /\ UNCHANGED reservation
  /\ \A m \in Lot \ {l} : ledger'[m] = ledger[m]

\* One that brings stock of a lot back.
BringsBack(l) == MovesStock(l) /\ Balance(l)' >= Balance(l)

LEMMA ControlledCases ==
  ASSUME TypeOK, TypeOK', [ControlledNext]_vars
  PROVE  \/ \E k \in ReserveKey, q \in Requirement, l \in Lot, n \in Quantity :
              \E expected : Reserve(k, q, l, n, expected)
         \/ \E r \in DOMAIN reservation, k \in ConsumeKey, w \in WeighKey :
              \E productive, waste \in 0 .. MaxQuantity : \E expected :
                Consume(k, r, w, productive, waste, expected)
         \/ \E l \in Lot : BringsBack(l)
         \/ GivesUp
<1>0. \A r \in DOMAIN reservation : reservation[r].remaining \in Nat
  BY DEF TypeOK, ReservationRow
<1>1. ASSUME NEW r \in DOMAIN reservation, NEW row, UNCHANGED ledger,
             reservation' = [reservation EXCEPT ![r] = row],
             row.lot = reservation[r].lot, row.remaining <= reservation[r].remaining
      PROVE  GivesUp
  BY <1>0, <1>1 DEF GivesUp
<1>2. ASSUME NEW r \in DOMAIN reservation, NEW k, NEW n \in Quantity, NEW expected,
             Release(k, r, n, expected)
      PROVE  GivesUp
  <2> DEFINE row == Released(reservation[r], n)
  <2>1. reservation[r] \in ReservationRow /\ n \in Nat
    BY QuantityAssumption DEF TypeOK, Quantity
  <2>2. row.lot = reservation[r].lot /\ row.remaining <= reservation[r].remaining
    BY <2>1 DEF Released, ReservationRow
  <2>3. ledger' = ledger /\ reservation' = [reservation EXCEPT ![r] = row]
    BY <1>2 DEF Release
  <2> HIDE DEF row
  <2> QED BY <1>1, <2>2, <2>3
<1>3. ASSUME NEW r \in DOMAIN reservation, NEW k, NEW w, NEW n \in Quantity, NEW expected,
             ReturnStaged(k, r, w, n, expected)
      PROVE  GivesUp
  <2> DEFINE row == ReturnedStaged(reservation[r], n)
  <2>1. reservation[r] \in ReservationRow /\ n \in Nat
    BY QuantityAssumption DEF TypeOK, Quantity
  <2>2. row.lot = reservation[r].lot /\ row.remaining <= reservation[r].remaining
    BY <2>1 DEF ReturnedStaged, ReservationRow
  <2>3. ledger' = ledger /\ reservation' = [reservation EXCEPT ![r] = row]
    BY <1>3 DEF ReturnStaged
  <2> HIDE DEF row
  <2> QED BY <1>1, <2>2, <2>3
<1>4. ASSUME NEW b, Abort(b)
      PROVE  GivesUp
  <2>1. \A r \in DOMAIN reservation :
          /\ Cancelled(reservation[r]).lot = reservation[r].lot
          /\ Cancelled(reservation[r]).remaining = 0
    BY DEF Cancelled, TypeOK, ReservationRow
  <2> QED BY <1>0, <1>4, <2>1 DEF Abort, GivesUp
<1>5. ASSUME UNCHANGED <<ledger, reservation>>
      PROVE  GivesUp
  BY <1>0, <1>5 DEF GivesUp
<1>6. ASSUME NEW k, NEW r \in DOMAIN reservation, NEW u, NEW n \in Quantity, NEW expected,
             ReturnConsumed(k, r, u, n, expected)
      PROVE  \E l \in Lot : BringsBack(l)
  <2>1. ReturnEffect(r, u, n)
    BY <1>6, ReturnTables, Zenon
  <2>2. \A l \in Lot : ledger[l].controlled \in Int /\ ledger[l].other \in Int
    BY DEF TypeOK, LedgerRow
  <2> QED BY <2>1, <2>2 DEF ReturnEffect, MovesStock, BringsBack, Balance
<1>7. CASE UNCHANGED vars
  BY <1>5, <1>7 DEF vars
<1>8. CASE Lifecycle
  BY <1>4, <1>5, <1>8 DEF Lifecycle, RecordYield, Advance, Complete
<1>9. ASSUME NEW k, NEW r, NEW n, NEW expected,
             PlanWeighing(k, r, expected) \/ Weigh(k, r, n, expected)
      PROVE  GivesUp
  BY <1>5, <1>9 DEF PlanWeighing, Weigh
<1>10. ASSUME NEW k, NEW q, NEW reason, Reconcile(k, q, reason)
       PROVE  GivesUp
  BY <1>5, <1>10 DEF Reconcile
<1>11. CASE MaterialCommand
  BY <1>2, <1>3, <1>6, <1>9, <1>10, <1>11 DEF MaterialCommand
<1> QED
  BY <1>7, <1>8, <1>11 DEF ControlledNext

LEMMA StockCases ==
  ASSUME TypeOK, TypeOK', [Next]_vars
  PROVE  \/ \E k \in ReserveKey, q \in Requirement, l \in Lot, n \in Quantity :
              \E expected : Reserve(k, q, l, n, expected)
         \/ \E r \in DOMAIN reservation, k \in ConsumeKey, w \in WeighKey :
              \E productive, waste \in 0 .. MaxQuantity : \E expected :
                Consume(k, r, w, productive, waste, expected)
         \/ \E l \in Lot : MovesStock(l)
         \/ GivesUp
<1>1. CASE [ControlledNext]_vars
  BY <1>1, ControlledCases DEF BringsBack
<1>2. ASSUME Unreserved
      PROVE  \E l \in Lot : MovesStock(l)
  <2>1. ASSUME NEW l \in Lot, NEW b, NEW n, CommitUnreserved(b, l, n)
        PROVE  MovesStock(l)
    BY <2>1 DEF CommitUnreserved, MovesStock, TypeOK
  <2>2. ASSUME NEW l \in Lot, NEW change, AppendMovement(l, change)
        PROVE  MovesStock(l)
    BY <2>2 DEF AppendMovement, MovesStock, TypeOK
  <2> QED BY <1>2, <2>1, <2>2 DEF Unreserved
<1>3. ASSUME LotChange
      PROVE  GivesUp
  <2>1. ledger' = ledger /\ reservation' = reservation
    BY <1>3 DEF LotChange, SetLotActive, LapseRelease
  <2>2. \A r \in DOMAIN reservation : reservation[r].remaining \in Nat
    BY DEF TypeOK, ReservationRow
  <2> QED BY <2>1, <2>2 DEF GivesUp
<1> QED
  BY <1>1, <1>2, <1>3 DEF Next

LEMMA ReservePromises ==
  ASSUME TypeOK, NEW k, NEW q, NEW l \in Lot, NEW n \in Nat, ReserveEffect(k, q, l, n),
         NEW m \in Lot
  PROVE  Promised(m)' = Promised(m) + (IF m = l THEN n ELSE 0)
<1> DEFINE H == HeldOn(m)
<1>1. IsFiniteSet(H) /\ H \subseteq DOMAIN reservation /\ \A r \in H : Left[r] \in Int
  BY PromisedTyped
<1>2. k \notin H /\ HeldOn(m)' = IF m = l THEN H \cup {k} ELSE H
  BY DEF ReserveEffect, HeldOn
<1>3. Left'[k] = n /\ \A r \in H : Left'[r] = Left[r]
  BY DEF ReserveEffect, Left, HeldOn
<1>4. Promised(m) \in Int
  BY PromisedTyped
<1> HIDE DEF H
<1>5. \A r \in H : Left[r] \in Int /\ Left'[r] = Left[r]
  BY <1>1, <1>3
<1>6. SumFunctionOnSet(Left', H \cup {k}) = SumFunctionOnSet(Left, H) + Left'[k]
  <2>1. Left'[k] \in Int /\ k \notin H
    BY <1>2, <1>3
  <2> QED BY <1>1, <1>5, <2>1, SumGrow
<1>7. SumFunctionOnSet(Left', H) = SumFunctionOnSet(Left, H)
  BY <1>1, <1>5, SumSame
<1>8. Promised(m) = SumFunctionOnSet(Left, H) /\ Promised(m)' = SumFunctionOnSet(Left', HeldOn(m)')
  BY DEF Promised, H
<1> QED BY <1>2, <1>3, <1>4, <1>6, <1>7, <1>8

LEMMA ConsumePromises ==
  ASSUME TypeOK, TypeOK', NEW k, NEW r \in DOMAIN reservation, NEW productive, NEW waste,
         ConsumeEffect(k, r, productive, waste), NEW m \in Lot
  PROVE  Promised(m)' = Promised(m) - (IF m = reservation[r].lot THEN productive + waste ELSE 0)
<1> DEFINE H == HeldOn(m)
           total == productive + waste
<1>1. IsFiniteSet(H) /\ \A x \in H : Left[x] \in Int
  BY PromisedTyped
<1>2. /\ HeldOn(m)' = H
      /\ r \in H <=> m = reservation[r].lot
  BY DEF ConsumeEffect, HeldOn
<1>3. \A x \in DOMAIN reservation :
        Left[x] = reservation[x].remaining /\ Left'[x] = reservation'[x].remaining
  BY DEF ConsumeEffect, Left
<1>4. reservation[r].remaining \in Int /\ total \in Int
  BY DEF TypeOK, ReservationRow, ConsumeEffect
<1>5. /\ Left'[r] - Left[r] = -total
      /\ \A x \in H \ {r} : Left'[x] = Left[x]
  BY <1>3, <1>4 DEF ConsumeEffect, HeldOn
<1>6. \A x \in H : Left'[x] \in Int
  BY SumsTypedNext DEF ConsumeEffect, HeldOn
<1>7. Promised(m) \in Int
  BY PromisedTyped
<1> HIDE DEF H, total
<1>8. SumFunctionOnSet(Left', H)
        = SumFunctionOnSet(Left, H) + (IF r \in H THEN Left'[r] - Left[r] ELSE 0)
  BY <1>1, <1>5, <1>6, SumChange
<1>9. Promised(m) = SumFunctionOnSet(Left, H) /\ Promised(m)' = SumFunctionOnSet(Left', HeldOn(m)')
  BY DEF Promised, H
<1>10. Promised(m)' = Promised(m) - (IF m = reservation[r].lot THEN total ELSE 0)
  BY <1>2, <1>4, <1>5, <1>7, <1>8, <1>9
<1> QED BY <1>10 DEF total

\* A reservation promises what is there, and moves no stock.
LEMMA ReserveCovered ==
  ASSUME TypeOK, RowsOK, NEW k, NEW q, NEW l \in Lot, NEW n \in Quantity, NEW expected,
         Reserve(k, q, l, n, expected)
  PROVE  /\ n \in Nat /\ n > 0 /\ Promised(l) + n <= Balance(l)
         /\ \A m \in Lot : /\ Promised(m)' = Promised(m) + (IF m = l THEN n ELSE 0)
                           /\ Balance(m)' = Balance(m)
<1>1. ReserveEffect(k, q, l, n)
  BY ReserveTables
<1>2. n \in Nat /\ n > 0 /\ n <= Available(l)
  BY QuantityAssumption DEF Reserve, Quantity
<1>3. Promised(l) + n <= Balance(l)
  BY <1>2, AvailableMeaning
<1>4. \A m \in Lot : Promised(m)' = Promised(m) + (IF m = l THEN n ELSE 0)
  <2>1. n \in Nat
    BY <1>2
  <2> QED BY <1>1, <2>1, ReservePromises
<1>5. \A m \in Lot : Balance(m)' = Balance(m)
  BY <1>1 DEF ReserveEffect, Balance
<1> QED BY <1>2, <1>3, <1>4, <1>5

\* A consumption takes as much from the lot as from what is promised of it.
LEMMA ConsumeTaken ==
  ASSUME TypeOK, TypeOK', NEW k, NEW r \in DOMAIN reservation, NEW w,
         NEW productive \in 0 .. MaxQuantity, NEW waste \in 0 .. MaxQuantity,
         NEW expected, Consume(k, r, w, productive, waste, expected)
  PROVE  \E l \in Lot, total \in Nat :
           /\ total > 0
           /\ \A m \in Lot : /\ Promised(m)' = Promised(m) - (IF m = l THEN total ELSE 0)
                             /\ Balance(m)' = Balance(m) - (IF m = l THEN total ELSE 0)
<1> DEFINE l == reservation[r].lot
           total == productive + waste
<1>1. ConsumeEffect(k, r, productive, waste)
  BY ConsumeTables, Zenon
<1>2. l \in Lot /\ total \in Nat /\ total > 0
  BY <1>1 DEF ConsumeEffect
<1>3. \A m \in Lot : Promised(m)' = Promised(m) - (IF m = l THEN total ELSE 0)
  BY <1>1, ConsumePromises
<1>4. \A m \in Lot : Balance(m)' = Balance(m) - (IF m = l THEN total ELSE 0)
  <2>1. \A m \in Lot : ledger[m].controlled \in Int /\ ledger[m].other \in Int
    BY DEF TypeOK, LedgerRow
  <2> QED BY <1>1, <1>2, <2>1 DEF ConsumeEffect, Balance
<1> HIDE DEF l, total
<1> QED BY <1>2, <1>3, <1>4

-----------------------------------------------------------------------------
(* The refinement: every step is one StockPromise allows *)

LEMMA StepStock ==
  ASSUME TypeOK, TypeOK', RowsOK, BalanceNeverNegative', [Next]_vars
  PROVE  [Stock!Next]_Stock!vars
<1> DEFINE stock == [l \in Lot |-> Balance(l)]
           promised == [l \in Lot |-> Promised(l)]
<1>1. \A l \in Lot : /\ stock[l] = Balance(l) /\ stock'[l] = Balance(l)'
                     /\ promised[l] = Promised(l) /\ promised'[l] = Promised(l)'
  OBVIOUS
<1>2. \A l \in Lot : /\ Promised(l) \in Int /\ Promised(l)' \in Int
                     /\ Balance(l) \in Int /\ Balance(l)' \in Int /\ Balance(l)' >= 0
  <2>1. \A l \in Lot : Promised(l) \in Int
    BY PromisedTyped
  <2>2. \A l \in Lot : Promised(l)' \in Int
    <3>1. ASSUME NEW l \in Lot
          PROVE  Promised(l)' \in Int
      <4> DEFINE H == HeldOn(l)'
      <4>1. H \subseteq DOMAIN reservation' /\ IsFiniteSet(H)
        BY KeyAssumption, FS_Subset DEF HeldOn, TypeOK
      <4>2. \A r \in H : Left'[r] \in Int
        BY <4>1, SumsTypedNext
      <4>3. Promised(l)' = SumFunctionOnSet(Left', H)
        BY DEF Promised
      <4> HIDE DEF H
      <4> QED BY <4>1, <4>2, <4>3, SumInt
    <3> QED BY <3>1
  <2>3. \A l \in Lot : Balance(l) \in Int /\ Balance(l)' \in Int /\ Balance(l)' >= 0
    BY DEF TypeOK, LedgerRow, Balance, BalanceNeverNegative
  <2> QED BY <2>1, <2>2, <2>3
<1> HIDE DEF stock, promised
<1>3. ASSUME NEW k, NEW q, NEW l \in Lot, NEW n \in Quantity, NEW expected,
             Reserve(k, q, l, n, expected)
      PROVE  Stock!Next
  <2>1. /\ n \in Nat /\ n > 0 /\ Promised(l) + n <= Balance(l)
        /\ \A m \in Lot : /\ Promised(m)' = Promised(m) + (IF m = l THEN n ELSE 0)
                          /\ Balance(m)' = Balance(m)
    BY <1>3, ReserveCovered
  <2>2. promised'[l] > promised[l] /\ promised'[l] <= stock[l]
    BY <1>1, <1>2, <2>1
  <2>3. \A m \in Lot \ {l} : promised'[m] = promised[m]
    BY <1>1, <1>2, <2>1
  <2>4. \A m \in Lot : stock'[m] = stock[m]
    BY <1>1, <2>1
  <2> QED BY <2>2, <2>3, <2>4 DEF Stock!Next, Stock!MakePromises, stock, promised
<1>4. ASSUME NEW k, NEW r \in DOMAIN reservation, NEW w,
             NEW productive \in 0 .. MaxQuantity, NEW waste \in 0 .. MaxQuantity,
             NEW expected, Consume(k, r, w, productive, waste, expected)
      PROVE  Stock!Next
  <2>1. PICK l \in Lot, total \in Nat :
          /\ total > 0
          /\ \A m \in Lot : /\ Promised(m)' = Promised(m) - (IF m = l THEN total ELSE 0)
                            /\ Balance(m)' = Balance(m) - (IF m = l THEN total ELSE 0)
    BY <1>4, ConsumeTaken, Zenon
  <2>2. stock'[l] < stock[l] /\ stock'[l] >= 0 /\ promised[l] - promised'[l] = stock[l] - stock'[l]
    BY <1>1, <1>2, <2>1
  <2>3. \A m \in Lot \ {l} : stock'[m] = stock[m] /\ promised'[m] = promised[m]
    BY <1>1, <1>2, <2>1
  <2> QED BY <2>2, <2>3 DEF Stock!Next, Stock!UsePromise, Stock!OthersKept, stock, promised
<1>5. ASSUME NEW l \in Lot, MovesStock(l)
      PROVE  Stock!Next
  <2>1. \A m \in Lot : Promised(m)' = Promised(m)
    BY <1>5 DEF MovesStock, Promised, Left, HeldOn
  <2>2. \A m \in Lot \ {l} : Balance(m)' = Balance(m)
    BY <1>5 DEF MovesStock, Balance
  <2>3. stock'[l] >= 0 /\ promised'[l] = promised[l]
    BY <1>1, <1>2, <2>1
  <2>4. \A m \in Lot \ {l} : stock'[m] = stock[m] /\ promised'[m] = promised[m]
    BY <1>1, <2>1, <2>2
  <2> QED BY <2>3, <2>4 DEF Stock!Next, Stock!Move, Stock!OthersKept, stock, promised
<1>6. CASE GivesUp
  <2>1. \A m \in Lot : Promised(m)' <= Promised(m)
    BY <1>6, GivenUp
  <2>2. \A m \in Lot : Balance(m)' = Balance(m)
    BY <1>6 DEF GivesUp, Balance
  <2>3. \A m \in Lot : stock'[m] = stock[m]
    BY <1>1, <2>2
  <2>4. \A m \in Lot : promised'[m] <= promised[m]
    BY <1>1, <2>1
  <2> QED BY <2>3, <2>4 DEF Stock!Next, Stock!GiveUp, stock, promised
<1> QED BY <1>3, <1>4, <1>5, <1>6, StockCases

\* Every step of batches, commands, legacy commitments and manual movements is
\* one StockPromise allows: a promise is covered when it is made, stock leaves
\* with the promise it was held under, and only an unreserved movement can
\* leave a promise without its stock.
THEOREM StockPromisesKept == Spec => KeepsStockPromises
<1>1. Init => Stock!Init
  <2> SUFFICES ASSUME Init, NEW l \in Lot
               PROVE  Balance(l) >= 0 /\ Promised(l) = 0
    BY DEF Stock!Init
  <2>1. Balance(l) >= 0
    BY QuantityAssumption DEF Init, Balance
  <2>2. HeldOn(l) = {}
    BY DEF Init, HeldOn
  <2> QED BY <2>1, <2>2, SumEmpty DEF Promised
<1>2. TypeOK /\ TypeOK' /\ RowsOK /\ BalanceNeverNegative' /\ [Next]_vars
        => [Stock!Next]_Stock!vars
  BY StepStock
<1>3. IInv => TypeOK /\ RowsOK
  BY DEF IInv
<1> QED
  BY <1>1, <1>2, <1>3, InvariantHolds, BalancesStayNatural, PTL
  DEF Spec, KeepsStockPromises, Stock!Spec

-----------------------------------------------------------------------------
(* Where everyone uses the controlled commands *)

PromisesBacked == \A l \in Lot : Promised(l) <= Balance(l)

LEMMA StepBacked ==
  ASSUME TypeOK, TypeOK', RowsOK, PromisesBacked, [ControlledNext]_vars
  PROVE  PromisesBacked'
<1> SUFFICES ASSUME NEW m \in Lot PROVE Promised(m)' <= Balance(m)'
  BY DEF PromisesBacked
<1>1. Promised(m) \in Nat /\ Balance(m) \in Int /\ Promised(m) <= Balance(m)
  BY PromisedTyped DEF TypeOK, LedgerRow, Balance, PromisesBacked
<1>2. Balance(m)' \in Int
  BY DEF TypeOK, LedgerRow, Balance
<1>3. ASSUME NEW k, NEW q, NEW l \in Lot, NEW n \in Quantity, NEW expected,
             Reserve(k, q, l, n, expected)
      PROVE  Promised(m)' <= Balance(m)'
  <2>1. /\ n \in Nat /\ Promised(l) + n <= Balance(l)
        /\ \A x \in Lot : /\ Promised(x)' = Promised(x) + (IF x = l THEN n ELSE 0)
                          /\ Balance(x)' = Balance(x)
    BY <1>3, ReserveCovered
  <2> QED BY <1>1, <2>1
<1>4. ASSUME NEW k, NEW r \in DOMAIN reservation, NEW w,
             NEW productive \in 0 .. MaxQuantity, NEW waste \in 0 .. MaxQuantity,
             NEW expected, Consume(k, r, w, productive, waste, expected)
      PROVE  Promised(m)' <= Balance(m)'
  <2>1. PICK l \in Lot, total \in Nat :
          \A x \in Lot : /\ Promised(x)' = Promised(x) - (IF x = l THEN total ELSE 0)
                         /\ Balance(x)' = Balance(x) - (IF x = l THEN total ELSE 0)
    BY <1>4, ConsumeTaken, Zenon
  <2> QED BY <1>1, <2>1
<1>5. ASSUME NEW l \in Lot, BringsBack(l)
      PROVE  Promised(m)' <= Balance(m)'
  <2>1. Promised(m)' = Promised(m)
    BY <1>5 DEF BringsBack, MovesStock, Promised, Left, HeldOn
  <2>2. Balance(m)' >= Balance(m)
    <3>1. CASE m = l
      BY <1>5, <3>1 DEF BringsBack
    <3>2. CASE m # l
      BY <1>1, <1>5, <3>2 DEF BringsBack, MovesStock, Balance
    <3> QED BY <3>1, <3>2
  <2> QED BY <1>1, <1>2, <2>1, <2>2
<1>6. CASE GivesUp
  <2>1. Promised(m)' <= Promised(m) /\ Balance(m)' = Balance(m)
    BY <1>6, GivenUp DEF GivesUp, Balance
  <2>2. Promised(m)' \in Int
    <3> DEFINE H == HeldOn(m)'
    <3>1. H \subseteq DOMAIN reservation' /\ IsFiniteSet(H)
      BY KeyAssumption, FS_Subset DEF HeldOn, TypeOK
    <3>2. \A r \in H : Left'[r] \in Int
      BY <3>1, SumsTypedNext
    <3>3. Promised(m)' = SumFunctionOnSet(Left', H)
      BY DEF Promised
    <3> HIDE DEF H
    <3> QED BY <3>1, <3>2, <3>3, SumInt
  <2> QED BY <1>1, <2>1, <2>2
<1> QED BY <1>3, <1>4, <1>5, <1>6, ControlledCases

\* As long as stock moves by the controlled commands only, every lot has what its
\* reservations still hold, whatever batches consume, waste, return and abort:
\* no promise is ever broken, and no consumption of what is reserved is refused
\* for want of balance.
THEOREM ControlledPromisesBacked == ControlledSpec => []PromisesBacked
<1>1. Init => PromisesBacked
  <2> SUFFICES ASSUME Init, NEW l \in Lot
               PROVE  Promised(l) <= Balance(l)
    BY DEF PromisesBacked
  <2>1. Balance(l) >= 0
    BY QuantityAssumption DEF Init, Balance
  <2>2. HeldOn(l) = {}
    BY DEF Init, HeldOn
  <2>3. Promised(l) = 0
    BY <2>2, SumEmpty DEF Promised
  <2> QED BY <2>1, <2>3
<1>2. [ControlledNext]_vars => [Next]_vars
  BY DEF Next
<1>3. IInv => TypeOK /\ RowsOK
  BY DEF IInv
<1>4. TypeOK /\ TypeOK' /\ RowsOK /\ PromisesBacked /\ [ControlledNext]_vars => PromisesBacked'
  BY StepBacked
<1> QED
  BY <1>1, <1>2, <1>3, <1>4, InvariantHolds, PTL DEF Spec, ControlledSpec
=============================================================================
