----------------------------- MODULE PackagingRun -----------------------------
(***************************************************************************)
(* Packaging runs on top of the production outputs they draw bulk from: a  *)
(* run is planned, gets one allocation of bulk, reserves lots of packaging *)
(* components, transfers bulk, consumes and wastes components, is          *)
(* reconciled and completed.  As in ProductionOutput one function is one   *)
(* action, stale revisions and repeated keys are no steps, and quantities  *)
(* are whole units.                                                        *)
(*                                                                         *)
(* The labels planned, reserved, in_progress and reconciled of a run are   *)
(* written but tested by no function, so an open run has one status; the   *)
(* same goes for active and partially_used reservations and for active     *)
(* and partially_transferred allocations.  Whether a lot is Active and a   *)
(* specification Approved may change at any time and is asked once, when   *)
(* reserving and when creating: the model may always find it so or not.    *)
(***************************************************************************)
EXTENDS ProductionOutput, FiniteSets

CONSTANTS
  Run,            \* packaging runs
  OutputOf,       \* the production output a run packs
  Planned,        \* the bulk a run plans to pack
  Requirement,    \* packaging_run_requirements
  RunOf,          \* the run of a requirement
  Needed,         \* total_required_quantity of a requirement
  Allowance,      \* expected_waste_allowance: five per cent, rounded up
  Lot,            \* packaging_inventory_lots
  LotsFor,        \* the lots of the requirement's component
  Opening,        \* the quantity a lot was received with
  ReserveKey,     \* idempotency keys of reservations
  MaxBalance      \* bound: the balance other movements may raise a lot to

\* Tables hold finitely many rows.
ASSUME PackagingAssumption ==
  /\ IsFiniteSet(Run)
  /\ IsFiniteSet(ReserveKey)
  /\ OutputOf \in [Run -> Output]
  /\ Planned \in [Run -> Nat \ {0}]
  /\ RunOf \in [Requirement -> Run]
  /\ Needed \in [Requirement -> Nat \ {0}]
  /\ Allowance \in [Requirement -> Nat]
  /\ LotsFor \in [Requirement -> SUBSET Lot]
  /\ Opening \in [Lot -> Nat]
  /\ MaxBalance \in Nat

VARIABLES
  run,           \* packaging_runs: status and transferred quantity
  bulk,          \* packaging_run_bulk_allocations: one row a run at most
  reservation,   \* packaging_run_reservations by key
  balance,       \* kf_packaging_balance: the sum of a lot's movements
  accounted      \* the transferred quantity the latest reconciliation of a run
                 \* splits into pending, retained, waste and variance; None before

packagingVars == <<run, bulk, reservation, balance, accounted>>
vars == <<output, stage, run, bulk, reservation, balance, accounted>>

None == -1

RunRow == [status: {"none", "open", "completed"}, transferred: Nat]
BulkRow == [status: {"none", "open", "transferred", "released"}, transferred: Nat]
ReservationRow ==
  [requirement: Requirement, lot: Lot, reserved: Nat, consumed: Nat, wasted: Nat,
   status: {"open", "fulfilled", "released"}]

TypeOK ==
  /\ OutputTypeOK
  /\ run \in [Run -> RunRow]
  /\ bulk \in [Run -> BulkRow]
  /\ reservation \in [DOMAIN reservation -> ReservationRow]
  /\ DOMAIN reservation \subseteq ReserveKey
  /\ balance \in [Lot -> Nat]
  /\ accounted \in [Run -> Nat \cup {None}]

Init ==
  /\ OutputInit
  /\ run = [p \in Run |-> [status |-> "none", transferred |-> 0]]
  /\ bulk = [p \in Run |-> [status |-> "none", transferred |-> 0]]
  /\ reservation = [k \in {} |-> {}]
  /\ balance = Opening
  /\ accounted = [p \in Run |-> None]

-----------------------------------------------------------------------------
(* Bulk *)

RunsOf(o) == {p \in Run : OutputOf[p] = o}

Retained(o) == output[o].component["retained_bulk"]
\* MUTANT: bulk that was transferred counts as available again.
HeldOpen(o) == SumFunctionOnSet(Planned, {p \in RunsOf(o) : bulk[p].status = "open"})
Allocated(o) ==
  SumFunctionOnSet(Planned, {p \in RunsOf(o) : bulk[p].status \in {"open", "transferred"}})

\* MUTANT: the trigger completed_packaging_run_immutable is missing.
Existing(p) == run[p].status # "none"
\* Every command updates the run's row, which the trigger refuses once completed.
Writable(p) == run[p].status = "open"

CreateRun(p) ==
  /\ run[p].status = "none"
  /\ output[OutputOf[p]].status = "completed"
  /\ Retained(OutputOf[p]) > 0
  /\ run' = [run EXCEPT ![p].status = "open"]
  /\ UNCHANGED <<output, stage, bulk, reservation, balance, accounted>>

\* The allocation is the whole plan, and unique per run even after a release.
AllocateBulk(p) ==
  /\ Writable(p)
  /\ bulk[p].status = "none"
  /\ Planned[p] <= Retained(OutputOf[p]) - Allocated(OutputOf[p])
  /\ bulk' = [bulk EXCEPT ![p].status = "open"]
  /\ UNCHANGED <<output, stage, run, reservation, balance, accounted>>

ReleaseBulk(p) ==
  /\ Writable(p)
  /\ bulk[p].status \in {"open", "transferred"}
  /\ bulk[p].transferred = 0
  /\ bulk' = [bulk EXCEPT ![p].status = "released"]
  /\ UNCHANGED <<output, stage, run, reservation, balance, accounted>>

TransferBulk(p, n) ==
  /\ Writable(p)
  /\ bulk[p].status \in {"open", "transferred"}
  /\ bulk[p].transferred + n <= Planned[p]
  /\ bulk' = [bulk EXCEPT ![p].transferred = @ + n,
                          ![p].status = IF bulk[p].transferred + n = Planned[p]
                                        THEN "transferred" ELSE "open"]
  /\ run' = [run EXCEPT ![p].transferred = @ + n]
  /\ UNCHANGED <<output, stage, reservation, balance, accounted>>

-----------------------------------------------------------------------------
(* Packaging components *)

Rest(row) == row.reserved - row.consumed - row.wasted
OnLot(rows, l) == {k \in DOMAIN rows : rows[k].lot = l /\ rows[k].status = "open"}
ReservedFor(rows, q) ==
  SumFunctionOnSet([k \in DOMAIN rows |-> rows[k].reserved],
                   {k \in DOMAIN rows : rows[k].requirement = q})

\* What open reservations still promise of a lot.
Promised(rows, l) == SumFunctionOnSet([k \in DOMAIN rows |-> Rest(rows[k])], OnLot(rows, l))

\* MUTANT: what other runs hold is not subtracted.
Uncommitted(rows, l) == balance[l]
Available(rows, l) == balance[l] - Promised(rows, l)

\* A row that was released still counts against its requirement.
Reservable(rows, k, q, l, n) ==
  /\ k \notin DOMAIN rows
  /\ Writable(RunOf[q])
  /\ l \in LotsFor[q]
  /\ n <= Available(rows, l)
  /\ ReservedFor(rows, q) + n <= Needed[q] + Allowance[q]

WithReservation(rows, k, q, l, n) ==
  [x \in DOMAIN rows \cup {k} |->
     IF x = k THEN [requirement |-> q, lot |-> l, reserved |-> n, consumed |-> 0,
                    wasted |-> 0, status |-> "open"]
              ELSE rows[x]]

Reserve(k, q, l, n) ==
  /\ Reservable(reservation, k, q, l, n)
  /\ reservation' = WithReservation(reservation, k, q, l, n)
  /\ UNCHANGED <<output, stage, run, bulk, balance, accounted>>

\* MUTANT: both candidates are checked before either is inserted.
ReservableTogether(rows, k, q, l, n) == Reservable(reservation, k, q, l, n)
\* The check a candidate meets inside the atomic request, after those before it.
ReservableNext(rows, k, q, l, n) == Reservable(rows, k, q, l, n)

\* The atomic request: all candidates or none.  Each names its requirement and
\* is held to the revision the one before it left; nothing asks whether it
\* belongs to the run of the request, whose revision another run may share.
ReserveAll(k1, q1, l1, n1, k2, q2, l2, n2) ==
  LET first == WithReservation(reservation, k1, q1, l1, n1) IN
  /\ Reservable(reservation, k1, q1, l1, n1)
  /\ k2 # k1
  /\ ReservableNext(first, k2, q2, l2, n2)
  /\ reservation' = WithReservation(first, k2, q2, l2, n2)
  /\ UNCHANGED <<output, stage, run, bulk, balance, accounted>>

\* A reservation of an open run, locked by the command.
Open(k) ==
  /\ k \in DOMAIN reservation
  /\ reservation[k].status = "open"
  /\ Writable(RunOf[reservation[k].requirement])

\* Release and staged return alike: no movement.
ReleaseReservation(k) ==
  /\ Open(k)
  /\ reservation' = [reservation EXCEPT ![k].status = "released"]
  /\ UNCHANGED <<output, stage, run, bulk, balance, accounted>>

Settle(row) == IF Rest(row) = 0 THEN [row EXCEPT !.status = "fulfilled"] ELSE row

\* MUTANT: a use is only held against its reservation.
WithinReservation(row, n) == n <= Rest(row)
Usable(row, n) == n <= Rest(row) /\ n <= balance[row.lot]

UseComponents(k, productive, n) ==
  LET row == reservation[k]
      used == IF productive THEN [row EXCEPT !.consumed = @ + n]
                            ELSE [row EXCEPT !.wasted = @ + n]
  IN
  /\ Open(k)
  /\ Usable(row, n)
  /\ reservation' = [reservation EXCEPT ![k] = Settle(used)]
  /\ balance' = [balance EXCEPT ![row.lot] = @ - n]
  /\ UNCHANGED <<output, stage, run, bulk, accounted>>

\* Manual movements and the legacy commitment of packaging: reservations are
\* not looked at.
OtherMovement(l, change) ==
  /\ balance[l] + change \in 0 .. MaxBalance
  /\ balance' = [balance EXCEPT ![l] = @ + change]
  /\ UNCHANGED <<output, stage, run, bulk, reservation, accounted>>

-----------------------------------------------------------------------------
(* Reconciliation and completion *)

ReconcileRun(p) ==
  /\ Writable(p)
  /\ accounted' = [accounted EXCEPT ![p] = run[p].transferred]
  /\ UNCHANGED <<output, stage, run, bulk, reservation, balance>>

RowsOf(p) == {k \in DOMAIN reservation : RunOf[reservation[k].requirement] = p}
Consumed(q) ==
  SumFunctionOnSet([k \in DOMAIN reservation |-> reservation[k].consumed],
                   {k \in DOMAIN reservation : reservation[k].requirement = q})

\* MUTANT: open reservations do not block.
ReadyHolding(p) ==
  /\ bulk[p].status # "none"
  /\ run[p].transferred > 0
  /\ \A q \in Requirement : RunOf[q] = p => Consumed(q) >= Needed[q]
  /\ bulk[p].status = "open" => Planned[p] = bulk[p].transferred
  /\ accounted[p] # None
\* MUTANT: waste counts as productive use.
ReadyWasting(p) ==
  /\ bulk[p].status # "none"
  /\ run[p].transferred > 0
  /\ \A q \in Requirement : RunOf[q] = p => ReservedFor(reservation, q) >= Needed[q]
  /\ \A k \in RowsOf(p) : reservation[k].status # "open"
  /\ bulk[p].status = "open" => Planned[p] = bulk[p].transferred
  /\ accounted[p] # None
CompletionReady(p) ==
  /\ bulk[p].status # "none"
  /\ run[p].transferred > 0
  /\ \A q \in Requirement : RunOf[q] = p => Consumed(q) >= Needed[q]
  /\ \A k \in RowsOf(p) : reservation[k].status # "open"
  /\ bulk[p].status = "open" => Planned[p] = bulk[p].transferred
  /\ accounted[p] # None

CompleteRun(p) ==
  /\ Writable(p)
  /\ CompletionReady(p)
  /\ run' = [run EXCEPT ![p].status = "completed"]
  /\ UNCHANGED <<output, stage, bulk, reservation, balance, accounted>>

-----------------------------------------------------------------------------
RunCommand(p) ==
  \/ CreateRun(p)
  \/ AllocateBulk(p)
  \/ ReleaseBulk(p)
  \/ \E n \in Recorded : TransferBulk(p, n)
  \/ ReconcileRun(p)
  \/ CompleteRun(p)

ReservationCommand(k) ==
  \/ \E q \in Requirement, l \in Lot, n \in Recorded :
       \/ Reserve(k, q, l, n)
       \/ \E k2 \in ReserveKey, q2 \in Requirement, l2 \in Lot, n2 \in Recorded :
            ReserveAll(k, q, l, n, k2, q2, l2, n2)
  \/ ReleaseReservation(k)
  \/ \E productive \in BOOLEAN, n \in Recorded : UseComponents(k, productive, n)

Next ==
  \/ OutputNext /\ UNCHANGED packagingVars
  \/ \E p \in Run : RunCommand(p)
  \/ \E k \in ReserveKey : ReservationCommand(k)
  \/ \E l \in Lot, n \in Recorded : OtherMovement(l, n) \/ OtherMovement(l, -n)

Spec == Init /\ [][Next]_vars
-----------------------------------------------------------------------------
(* Properties *)

\* Runs that race for one output never hold more of it, planned or transferred,
\* than it retained.
BulkWithinRetained ==
  \A o \in Output :
    SumFunctionOnSet(Planned, {p \in RunsOf(o) : bulk[p].status \notin {"none", "released"}})
      <= Retained(o)

Components == INSTANCE StockPromise WITH
  stock <- balance,
  promised <- [l \in Lot |-> Promised(reservation, l)]

\* The reservations of components keep the promises those of raw material do.
\* Two runs after the last components of a lot: one loses.  No reservation, of
\* one requirement or of several at once, promises more than the lot has, even
\* beside movements that ignore reservations; use, waste and release leave no
\* promise without its stock.
KeepsComponentPromises == Components!Spec

\* The run's own counter and its allocation's tell the same; a completed run
\* took exactly its plan and holds no component any more.
CompletedRunAccounts ==
  \A p \in Run :
    /\ run[p].transferred = bulk[p].transferred
    /\ run[p].status = "completed" =>
         /\ bulk[p].status = "transferred" /\ run[p].transferred = Planned[p]
         /\ \A k \in RowsOf(p) : reservation[k].status # "open"

\* A completed run packed every component it needed: waste does not count.
CompletedRunPacked ==
  \A q \in Requirement : run[RunOf[q]].status = "completed" => Consumed(q) >= Needed[q]

\* A finished-goods lot is made of a completed run: no command, however late,
\* changes the run, its bulk, its reservations or its reconciliation.
CompletedHistoryFixed ==
  [][\A p \in Run :
       run[p].status = "completed" =>
         /\ run'[p] = run[p] /\ bulk'[p] = bulk[p] /\ accounted'[p] = accounted[p]
         /\ \A k \in RowsOf(p) : reservation'[k] = reservation[k]
         /\ \A k \in DOMAIN reservation' \ DOMAIN reservation :
              RunOf[reservation'[k].requirement] # p]_vars

\* "transferred = pending Finished Goods conversion + retained transferred bulk
\* + process waste + unexplained variance" for a completed run.  Completion
\* asks for a reconciliation, not for one made after the last transfer: see the
\* findings.
CompletedRunReconciled ==
  \A p \in Run : run[p].status = "completed" => accounted[p] = run[p].transferred
=============================================================================
