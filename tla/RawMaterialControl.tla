------------------------- MODULE RawMaterialControl -------------------------
(***************************************************************************)
(* Production Inventory Control V1: how raw material of released lots is   *)
(* reserved for a Lab Batch or Production Run, weighed, consumed, wasted,  *)
(* returned and reconciled, and how a batch is completed or aborted.       *)
(*                                                                         *)
(* Every operation is one PL/pgSQL function or one row update with its     *)
(* trigger, run as one Postgres transaction that locks the rows it decides *)
(* on, so it is one action here.  A caller may send any command, with any  *)
(* idempotency key and any expected revision, at any moment: a command the *)
(* function rejects leaves no row changed, and so does the retry of one it *)
(* has recorded, so neither is a step.                                     *)
(*                                                                         *)
(* Quantities are whole units of the lot's own unit.  The movement ledger  *)
(* is append-only and read through sums alone, so it is kept as sums.      *)
(***************************************************************************)
EXTENDS Integers, FiniteSets, FiniteSetsExt

CONSTANTS
  Batch,          \* Lab Batches and Production Runs
  Requirement,    \* their material lines
  Lot,            \* raw-material inventory lots
  BatchOf,        \* the batch a requirement belongs to
  LotsFor,        \* the lots of the requirement's ingredient, in a convertible unit
  Opening,        \* the quantity a lot was received with
  Tolerance,      \* the unexplained variance a requirement tolerates
  ReserveKey, WeighKey, ConsumeKey, ReleaseKey, ReturnKey, ReconcileKey,
                  \* the idempotency keys callers draw for each command
  MaxQuantity,    \* bound: the largest quantity one command asks for
  MaxBalance      \* bound: the balance manual adjustments may raise a lot to

ASSUME RequirementAssumption ==
  /\ BatchOf \in [Requirement -> Batch]
  /\ LotsFor \in [Requirement -> SUBSET Lot]
ASSUME QuantityAssumption ==
  /\ Opening \in [Lot -> Nat]
  /\ Tolerance \in [Requirement -> Nat]
  /\ MaxQuantity \in Nat
  /\ MaxBalance \in Nat
\* Tables hold finitely many rows.
ASSUME KeyAssumption ==
  /\ IsFiniteSet(ReserveKey)
  /\ IsFiniteSet(WeighKey)
  /\ IsFiniteSet(ConsumeKey)

VARIABLES
  batch,          \* lab_batches / production_runs: status, revision, yield recorded
  lot,            \* inventory_lots: active (status, expiry), released (the controlled fields)
  ledger,         \* inventory_movements: net of the controlled movements, net of the others
  reservation,    \* inventory_reservations, each with its batch_material_lot_allocations row
  weighing,       \* batch_material_weighings
  use,            \* batch_material_consumptions and batch_material_waste, by command
  recorded,       \* keys of the release, return and reconcile commands recorded
  reconciliation  \* batch_material_reconciliations, one row a requirement at most

vars == <<batch, lot, ledger, reservation, weighing, use, recorded, reconciliation>>

-----------------------------------------------------------------------------
(* Rows *)

BatchStatus == {"Planned", "In Progress", "Completed", "Aborted", "Archived"}

Workable == {"Planned", "In Progress"}

\* MUTANT: only untouched reservations hold stock.
UntouchedStatus == {"active"}
OpenStatus == {"active", "partially_consumed"}
ClosedStatus == {"consumed", "released", "cancelled"}
AllocationStatus == {"reserved", "partially_consumed"} \cup ClosedStatus
Key == ReleaseKey \cup ReturnKey \cup ReconcileKey

BatchRow == [status: BatchStatus, revision: Nat, yield: BOOLEAN]
LotRow == [active: BOOLEAN, released: BOOLEAN]
LedgerRow == [controlled: Int, other: Int]
ReservationRow ==
  [requirement: Requirement, lot: Lot, reserved: Nat, remaining: Nat,
   consumed: Nat, wasted: Nat, released: Nat, staged: Nat,
   status: OpenStatus \cup ClosedStatus, allocation: AllocationStatus, revision: Nat]
WeighingRow == [reservation: ReserveKey, kind: {"planned", "actual"}, quantity: Nat]
UseRow ==
  [reservation: ReserveKey, weighing: WeighKey, productive: Nat, waste: Nat, returned: Nat]
ReconciliationRow ==
  [state: {"none", "reconciled", "variance_requires_review"}, settled: BOOLEAN,
   approved: BOOLEAN]

TypeOK ==
  /\ batch \in [Batch -> BatchRow]
  /\ lot \in [Lot -> LotRow]
  /\ ledger \in [Lot -> LedgerRow]
  /\ reservation \in [DOMAIN reservation -> ReservationRow]
  /\ DOMAIN reservation \subseteq ReserveKey
  /\ weighing \in [DOMAIN weighing -> WeighingRow]
  /\ DOMAIN weighing \subseteq WeighKey
  /\ use \in [DOMAIN use -> UseRow]
  /\ DOMAIN use \subseteq ConsumeKey
  /\ recorded \subseteq Key
  /\ reconciliation \in [Requirement -> ReconciliationRow]

\* The table f with row v inserted under key k.
Insert(f, k, v) == [x \in DOMAIN f \cup {k} |-> IF x = k THEN v ELSE f[x]]

-----------------------------------------------------------------------------
(* What the handlers query *)

Balance(l) == ledger[l].controlled + ledger[l].other

\* MUTANT: the quantity received stands in for the balance.
ReceivedCovers(l, n) == n <= Opening[l]
Covers(l, n) == n <= Balance(l)

\* MUTANT: the status of the rows is not looked at.
AnyReservation(S) == S
OpenReservations(S) == {r \in S : reservation[r].status \in OpenStatus}
Left == [r \in DOMAIN reservation |-> reservation[r].remaining]
ReservedOn(l) ==
  SumFunctionOnSet(Left, {r \in OpenReservations(DOMAIN reservation) : reservation[r].lot = l})

\* MUTANT: what other reservations hold is not subtracted.
MovementBalance(l) == Max({0, Balance(l)})
Available(l) == Max({0, Balance(l) - ReservedOn(l)})

Eligible(l) == lot[l].active /\ lot[l].released

ReservationsOf(q) == {r \in DOMAIN reservation : reservation[r].requirement = q}
BatchReservations(b) == {r \in DOMAIN reservation : BatchOf[reservation[r].requirement] = b}
WeighingsOf(q, kind) ==
  {w \in DOMAIN weighing :
     weighing[w].kind = kind /\ reservation[weighing[w].reservation].requirement = q}
UsesOf(q) == {u \in DOMAIN use : reservation[use[u].reservation].requirement = q}

\* What was weighed and is neither consumed, wasted nor returned from staging.
Weighed == [w \in DOMAIN weighing |-> weighing[w].quantity]
Used == [u \in DOMAIN use |-> use[u].productive + use[u].waste]
Staged == [r \in DOMAIN reservation |-> reservation[r].staged]
\* MUTANT: a physical return counts as well, though its consumption still does.
UnexplainedAllReturns(q) ==
  SumFunctionOnSet(Weighed, WeighingsOf(q, "actual"))
    - SumFunctionOnSet([u \in DOMAIN use |-> use[u].productive + use[u].waste + use[u].returned],
                       UsesOf(q))
    - SumFunctionOnSet(Staged, ReservationsOf(q))
Unexplained(q) ==
  SumFunctionOnSet(Weighed, WeighingsOf(q, "actual"))
    - SumFunctionOnSet(Used, UsesOf(q))
    - SumFunctionOnSet(Staged, ReservationsOf(q))
Remaining(q) == SumFunctionOnSet(Left, ReservationsOf(q))
Exceeds(n, tolerance) == n > tolerance \/ -n > tolerance

\* The blockers of the completion policy 1.1.0, negated.
RequirementReady(q) ==
  /\ ReservationsOf(q) # {}
  /\ WeighingsOf(q, "planned") # {}
  /\ WeighingsOf(q, "actual") # {}
  /\ \E u \in UsesOf(q) : use[u].productive > 0
  /\ reconciliation[q].state = "reconciled"
  /\ reconciliation[q].settled

\* MUTANT: a requirement whose material is reconciled has no reservation left.
ReadyOnceReconciled(b) ==
  batch[b].yield /\ \A q \in Requirement : BatchOf[q] = b => RequirementReady(q)
CompletionReady(b) ==
  /\ batch[b].yield
  /\ \A q \in Requirement : BatchOf[q] = b => RequirementReady(q)
  /\ OpenReservations(BatchReservations(b)) = {}

-----------------------------------------------------------------------------
Init ==
  /\ batch = [b \in Batch |-> [status |-> "Planned", revision |-> 1, yield |-> FALSE]]
  /\ lot \in [Lot -> {x \in LotRow : x.active}]
  /\ ledger = [l \in Lot |-> [controlled |-> 0, other |-> Opening[l]]]
  /\ reservation = <<>>
  /\ weighing = <<>>
  /\ use = <<>>
  /\ recorded = {}
  /\ reconciliation =
       [q \in Requirement |->
          [state |-> "none", settled |-> FALSE, approved |-> FALSE]]

(* reserve_batch_material_inventory *)
Reserve(k, q, l, n, expected) ==
  LET b == BatchOf[q] IN
  /\ k \notin DOMAIN reservation
  /\ batch[b].revision = expected
  /\ batch[b].status \in Workable
  /\ l \in LotsFor[q]
  /\ Eligible(l)
  /\ n <= Available(l)
  /\ reservation' = Insert(reservation, k,
       [requirement |-> q, lot |-> l, reserved |-> n, remaining |-> n,
        consumed |-> 0, wasted |-> 0, released |-> 0, staged |-> 0,
        status |-> "active", allocation |-> "reserved", revision |-> 1])
  /\ batch' = [batch EXCEPT ![b].revision = @ + 1]
  /\ UNCHANGED <<lot, ledger, weighing, use, recorded, reconciliation>>

\* MUTANT: what was reserved stands in for what is left.
HoldsReserved(r, n) == n <= reservation[r].reserved
Holds(r, n) == n <= reservation[r].remaining

\* The row of reservation r, locked and found at the revision the caller read.
Locked(r, expected) == r \in DOMAIN reservation /\ reservation[r].revision = expected

(* release_batch_material_reservation: whatever the state of the batch, and *)
(* a partial release marks the row partially_consumed, consumed or not.     *)
Released(row, n) ==
  LET left == row.remaining - n IN
  [row EXCEPT !.released = @ + n, !.remaining = left, !.revision = @ + 1,
              !.status = IF left = 0 THEN "released" ELSE "partially_consumed",
              !.allocation = IF left = 0 THEN "released" ELSE @]
Release(k, r, n, expected) ==
  /\ k \notin recorded
  /\ Locked(r, expected)
  /\ Holds(r, n)
  /\ reservation' = [reservation EXCEPT ![r] = Released(@, n)]
  /\ recorded' = recorded \cup {k}
  /\ UNCHANGED <<batch, lot, ledger, weighing, use, reconciliation>>

\* A weighing neither moves stock nor bumps the reservation's revision.
Weighable(k, r, expected) ==
  /\ k \notin DOMAIN weighing
  /\ Locked(r, expected)
  /\ reservation[r].status \in OpenStatus
  /\ batch[BatchOf[reservation[r].requirement]].status \in Workable

(* record_batch_material_weighing_v2, planned: only that the record exists *)
(* is read again, so its quantity is left out.                             *)
PlanWeighing(k, r, expected) ==
  /\ Weighable(k, r, expected)
  /\ weighing' = Insert(weighing, k, [reservation |-> r, kind |-> "planned", quantity |-> 0])
  /\ UNCHANGED <<batch, lot, ledger, reservation, use, recorded, reconciliation>>

(* record_batch_material_weighing, actual *)
Weigh(k, r, n, expected) ==
  /\ Weighable(k, r, expected)
  /\ Holds(r, n)
  /\ weighing' = Insert(weighing, k, [reservation |-> r, kind |-> "actual", quantity |-> n])
  /\ UNCHANGED <<batch, lot, ledger, reservation, use, recorded, reconciliation>>

ActualWeighing(w, r) ==
  w \in DOMAIN weighing /\ weighing[w].reservation = r /\ weighing[w].kind = "actual"

\* What the Consumption and the Waste movement of a command take from the lot.
\* MUTANT: only the Consumption movement is written.
MovedProductive(productive, waste) == productive
Moved(productive, waste) == productive + waste

Consumed(row, productive, waste) ==
  LET left == row.remaining - (productive + waste)
      status == IF left = 0 THEN "consumed" ELSE "partially_consumed"
  IN [row EXCEPT !.consumed = @ + productive, !.wasted = @ + waste, !.remaining = left,
                 !.status = status, !.allocation = status, !.revision = @ + 1]

(* consume_reserved_batch_material: the weighing bounds each call, not the *)
(* sum of the calls that cite it.                                          *)
Consume(k, r, w, productive, waste, expected) ==
  LET total == productive + waste
      row == reservation[r]
  IN
  /\ k \notin DOMAIN use
  /\ total > 0
  /\ Locked(r, expected)
  /\ row.status \in OpenStatus
  /\ ActualWeighing(w, r)
  /\ Eligible(row.lot)
  /\ Holds(r, total)
  /\ total <= weighing[w].quantity
  /\ Covers(row.lot, total)
  /\ batch[BatchOf[row.requirement]].status = "In Progress"
  /\ ledger' = [ledger EXCEPT ![row.lot].controlled = @ - Moved(productive, waste)]
  /\ use' = Insert(use, k, [reservation |-> r, weighing |-> w, productive |-> productive,
                            waste |-> waste, returned |-> 0])
  /\ reservation' = [reservation EXCEPT ![r] = Consumed(@, productive, waste)]
  /\ UNCHANGED <<batch, lot, weighing, recorded, reconciliation>>

(* record_batch_material_return, staged_unconsumed: no movement, the        *)
(* reservation gives the quantity up.                                       *)
ReturnedStaged(row, n) ==
  LET left == row.remaining - n
      used == row.consumed + row.wasted > 0
  IN
  [row EXCEPT !.released = @ + n, !.staged = @ + n, !.remaining = left,
              !.revision = @ + 1,
              !.status = IF left = 0 THEN "released"
                         ELSE IF used THEN "partially_consumed" ELSE "active",
              !.allocation = IF left = 0 THEN "released"
                             ELSE IF used THEN "partially_consumed" ELSE "reserved"]
ReturnStaged(k, r, w, n, expected) ==
  /\ k \notin recorded
  /\ Locked(r, expected)
  /\ ActualWeighing(w, r)
  /\ reservation[r].status \in OpenStatus
  /\ Holds(r, n)
  /\ reservation' = [reservation EXCEPT ![r] = ReturnedStaged(@, n)]
  /\ recorded' = recorded \cup {k}
  /\ UNCHANGED <<batch, lot, ledger, weighing, use, reconciliation>>

\* What may still come back of a consumption.
\* MUTANT: the return is held against what was weighed.
ReturnableWeighed(u) == weighing[use[u].weighing].quantity - use[u].returned
Returnable(u) == use[u].productive - use[u].returned

(* record_batch_material_return, physical_return_after_consumption: a      *)
(* positive Adjustment, whatever the state of the batch, and no new        *)
(* revision of the reservation.                                            *)
ReturnConsumed(k, r, u, n, expected) ==
  /\ k \notin recorded
  /\ Locked(r, expected)
  /\ u \in DOMAIN use
  /\ use[u].reservation = r
  /\ n <= Returnable(u)
  /\ Eligible(reservation[r].lot)
  /\ ledger' = [ledger EXCEPT ![reservation[r].lot].controlled = @ + n]
  /\ use' = [use EXCEPT ![u].returned = @ + n]
  /\ recorded' = recorded \cup {k}
  /\ UNCHANGED <<batch, lot, reservation, weighing, reconciliation>>

(* reconcile_batch_material_requirement, in any state of the batch.  The    *)
(* caller's reason is missing, given, or given as approved.                 *)
Reconcile(k, q, reason) ==
  LET exceeds == Exceeds(Unexplained(q), Tolerance[q])
  IN
  /\ k \notin recorded
  /\ reconciliation' = [reconciliation EXCEPT ![q] =
       [state |-> IF exceeds /\ reason # "approved"
                  THEN "variance_requires_review" ELSE "reconciled",
        settled |-> Remaining(q) = 0,
        approved |-> exceeds /\ reason = "approved"]]
  /\ recorded' = recorded \cup {k}
  /\ UNCHANGED <<batch, lot, ledger, reservation, weighing, use>>

-----------------------------------------------------------------------------
(* Lifecycle of a batch: the client saves the row where updated_at is the   *)
(* one it read, and a trigger guards the status.                            *)

RecordYield(b) ==
  /\ batch[b].status \notin {"Completed", "Archived"}
  /\ batch' = [batch EXCEPT ![b].yield = TRUE]
  /\ UNCHANGED <<lot, ledger, reservation, weighing, use, recorded, reconciliation>>

productionTransitions ==
  {<<"Planned", "In Progress">>, <<"Planned", "Aborted">>,
   <<"In Progress", "Completed">>, <<"In Progress", "Aborted">>,
   <<"Completed", "Archived">>, <<"Aborted", "Archived">>}

Transition(b, to) ==
  /\ <<batch[b].status, to>> \in productionTransitions
  /\ batch' = [batch EXCEPT ![b].status = to]

Advance(b, to) ==
  /\ to \in {"In Progress", "Archived"}
  /\ Transition(b, to)
  /\ UNCHANGED <<lot, ledger, reservation, weighing, use, recorded, reconciliation>>

Complete(b) ==
  /\ CompletionReady(b)
  /\ Transition(b, "Completed")
  /\ UNCHANGED <<lot, ledger, reservation, weighing, use, recorded, reconciliation>>

\* MUTANT: the quantity given up is not added to what was released.
CancelledUnreleased(row) ==
  [row EXCEPT !.remaining = 0, !.status = "cancelled", !.revision = @ + 1,
              !.allocation = IF @ \in {"reserved", "partially_consumed"}
                             THEN "cancelled" ELSE @]
\* MUTANT: only the allocations nothing was drawn from are cancelled.
CancelledUntouched(row) ==
  [row EXCEPT !.released = @ + row.remaining, !.remaining = 0, !.status = "cancelled",
              !.revision = @ + 1,
              !.allocation = IF @ = "reserved" THEN "cancelled" ELSE @]
Cancelled(row) ==
  [row EXCEPT !.released = @ + row.remaining, !.remaining = 0, !.status = "cancelled",
              !.revision = @ + 1,
              !.allocation = IF @ \in {"reserved", "partially_consumed"}
                             THEN "cancelled" ELSE @]
Abort(b) ==
  /\ Transition(b, "Aborted")
  /\ reservation' = [r \in DOMAIN reservation |->
       IF r \in OpenReservations(BatchReservations(b))
       THEN Cancelled(reservation[r]) ELSE reservation[r]]
  /\ UNCHANGED <<lot, ledger, weighing, use, recorded, reconciliation>>

-----------------------------------------------------------------------------
(* Movements that never look at reservations, and changes of a lot.         *)

(* commit_lab_consumption, commit_production_consumption: the path before   *)
(* Production Inventory Control, still on the batch's page.                 *)
CommitUnreserved(b, l, n) ==
  /\ batch[b].status = "In Progress"
  /\ lot[l].active
  /\ Covers(l, n)
  /\ ledger' = [ledger EXCEPT ![l].other = @ - n]
  /\ UNCHANGED <<batch, lot, reservation, weighing, use, recorded, reconciliation>>

(* append_inventory_movement_v1: Consumption, Waste, Sample or Adjustment. *)
AppendMovement(l, change) ==
  /\ change # 0
  /\ Balance(l) + change \in 0..MaxBalance
  /\ ledger' = [ledger EXCEPT ![l].other = @ + change]
  /\ UNCHANGED <<batch, lot, reservation, weighing, use, recorded, reconciliation>>

(* The owner edits the lot's status, its expiry passes; only the database's *)
(* own roles, or the retest date, take a release back.                      *)
SetLotActive(l, active) ==
  /\ lot' = [lot EXCEPT ![l].active = active]
  /\ UNCHANGED <<batch, ledger, reservation, weighing, use, recorded, reconciliation>>
LapseRelease(l) ==
  /\ lot' = [lot EXCEPT ![l].released = FALSE]
  /\ UNCHANGED <<batch, ledger, reservation, weighing, use, recorded, reconciliation>>

-----------------------------------------------------------------------------
(* Callers ask for any quantity within the bound, with any revision they    *)
(* may have read.                                                           *)

Quantity == 1 .. MaxQuantity
SeenRevision(r) == 1 .. reservation[r].revision

MaterialCommand ==
  \/ \E k \in ReserveKey, q \in Requirement, l \in Lot, n \in Quantity :
       \E expected \in 1 .. batch[BatchOf[q]].revision : Reserve(k, q, l, n, expected)
  \/ \E r \in DOMAIN reservation : \E expected \in SeenRevision(r) :
       \/ \E k \in ReleaseKey, n \in Quantity : Release(k, r, n, expected)
       \/ \E k \in WeighKey : PlanWeighing(k, r, expected)
       \/ \E k \in WeighKey, n \in Quantity : Weigh(k, r, n, expected)
       \/ \E k \in ConsumeKey, w \in WeighKey, productive, waste \in 0 .. MaxQuantity :
            Consume(k, r, w, productive, waste, expected)
       \/ \E k \in ReturnKey, w \in WeighKey, n \in Quantity :
            ReturnStaged(k, r, w, n, expected)
       \/ \E k \in ReturnKey, u \in ConsumeKey, n \in Quantity :
            ReturnConsumed(k, r, u, n, expected)
  \/ \E k \in ReconcileKey, q \in Requirement, reason \in {"missing", "given", "approved"} :
       Reconcile(k, q, reason)

Lifecycle ==
  \E b \in Batch :
    \/ RecordYield(b)
    \/ \E to \in BatchStatus : Advance(b, to)
    \/ Complete(b)
    \/ Abort(b)

LotChange ==
  \E l \in Lot :
    \/ \E active \in BOOLEAN : SetLotActive(l, active)
    \/ LapseRelease(l)

Unreserved ==
  \E l \in Lot :
    \/ \E b \in Batch, n \in Quantity : CommitUnreserved(b, l, n)
    \/ \E change \in -MaxQuantity .. MaxQuantity : AppendMovement(l, change)

ControlledNext == MaterialCommand \/ Lifecycle
Next == ControlledNext \/ LotChange \/ Unreserved

Spec == Init /\ [][Next]_vars
ControlledSpec == Init /\ [][ControlledNext]_vars

-----------------------------------------------------------------------------
(* Properties *)

\* The parts of a reservation add up to what was reserved, over consumption,
\* waste, release, staged return and cancellation in any order, and it is
\* closed exactly when nothing is left of it.
ReservationEquation ==
  \A r \in DOMAIN reservation :
    LET row == reservation[r] IN
    /\ row.reserved = row.consumed + row.wasted + row.released + row.remaining
    /\ row.staged <= row.released
    /\ row.remaining = 0 <=> row.status \in ClosedStatus

\* The allocation's status, which five handlers write next to the
\* reservation's, ends as the reservation does and is never closed before it,
\* although a partial release changes one and not the other.
AllocationFollowsReservation ==
  \A r \in DOMAIN reservation :
    IF reservation[r].status \in ClosedStatus
    THEN reservation[r].allocation = reservation[r].status
    ELSE reservation[r].allocation \in {"reserved", "partially_consumed"}

\* What the uses recorded on a lot moved, and what its reservations say was drawn.
UsesOn(l) == {u \in DOMAIN use : reservation[use[u].reservation].lot = l}
HeldOn(l) == {r \in DOMAIN reservation : reservation[r].lot = l}
Moves ==
  [u \in DOMAIN use |-> use[u].returned - use[u].productive - use[u].waste]
Drawn == [r \in DOMAIN reservation |-> reservation[r].consumed + reservation[r].wasted]

\* The immutable movements, the consumption, waste and return rows and the
\* counters of the reservations tell the same story, lot by lot, and physical
\* returns never bring back more than the batches drew.
LedgerMatchesRecords ==
  \A l \in Lot :
    /\ ledger[l].controlled = SumFunctionOnSet(Moves, UsesOn(l))
    /\ SumFunctionOnSet(Used, UsesOn(l)) = SumFunctionOnSet(Drawn, HeldOn(l))
    /\ ledger[l].controlled <= 0

\* What the reservations of lot l still promise, whatever their status says.
Promised(l) == SumFunctionOnSet(Left, HeldOn(l))

\* No movement takes a lot below zero, reserved or not.
BalanceNeverNegative == \A l \in Lot : Balance(l) >= 0

\* A batch that ended holds no stock: completion waits for its reservations,
\* abort cancels them, and nothing reserves for it afterwards.
ClosedBatchHoldsNoStock ==
  \A r \in DOMAIN reservation :
    batch[BatchOf[reservation[r].requirement]].status \in {"Completed", "Aborted", "Archived"}
      => reservation[r].remaining = 0

\* A reservation that was consumed, released or cancelled is never written
\* again, not by a late command nor by the abort of its batch.
ClosedReservationFrozen ==
  [][\A r \in DOMAIN reservation :
       reservation[r].status \in ClosedStatus => reservation'[r] = reservation[r]]_vars

\* Once a requirement holds no stock, its unexplained variance moves only if
\* something new is reserved for it: a reconciliation made then stays true.
SettledVarianceFixed ==
  [][\A q \in Requirement :
       Remaining(q) = 0 /\ ReservationsOf(q)' = ReservationsOf(q)
         => Unexplained(q)' = Unexplained(q)]_vars

\* "Variance outside tolerance requires a reason and approval state" before a
\* batch completes.  The code reads the recorded reconciliation, which may be
\* older than the last weighing: see the findings.
CompletedVarianceReviewed ==
  \A q \in Requirement :
    batch[BatchOf[q]].status = "Completed" /\ Exceeds(Unexplained(q), Tolerance[q])
      => reconciliation[q].approved
-----------------------------------------------------------------------------
(* Reservations and ledger as promises and stock *)

Stock == INSTANCE StockPromise WITH
  stock <- [l \in Lot |-> Balance(l)],
  promised <- [l \in Lot |-> Promised(l)]

\* Every command, legacy commitment and manual movement is a step StockPromise
\* allows.  Of two reservations after the last quantity one wins, even
\* beside movements that ignore reservations; and consumption, waste, return,
\* release and cancellation never leave a reservation without the stock it
\* holds, which only a movement from outside may do.
KeepsStockPromises == Stock!Spec
=============================================================================
