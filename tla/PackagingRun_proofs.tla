------------------------ MODULE PackagingRun_proofs ------------------------
(***************************************************************************)
(* Theorems about PackagingRun, and with it ProductionOutput, for any      *)
(* outputs, runs, requirements, lots, keys and bounds.                     *)
(***************************************************************************)
EXTENDS PackagingRun, SumTheorems, TLAPS

-----------------------------------------------------------------------------
(* The production output *)

\* An output's command keeps outputs well typed.
LEMMA OutputTyped ==
  ASSUME OutputTypeOK, [OutputNext]_outputVars
  PROVE  OutputTypeOK'
<1> USE OutputAssumption
<1>1. ASSUME NEW o \in Output
      PROVE  output[o] \in OutputRow
  BY DEF OutputTypeOK
<1>2. ASSUME CompleteStage PROVE OutputTypeOK'
  <2>1. ASSUME NEW o \in Output
        PROVE  [output[o] EXCEPT !.status = "completed"] \in OutputRow
    BY <1>1 DEF OutputRow
  <2> QED
    BY <1>1, <1>2, <2>1 DEF CompleteStage, OutputTypeOK
<1>3. ASSUME NEW o \in Output, CreateOutput(o) PROVE OutputTypeOK'
  <2>1. [output[o] EXCEPT !.status = "draft"] \in OutputRow
    BY <1>1 DEF OutputRow
  <2> QED
    BY <1>3, <2>1 DEF CreateOutput, OutputTypeOK
<1>4. ASSUME NEW o \in Output, NEW n \in Recorded, Measure(o, n) PROVE OutputTypeOK'
  <2>1. n \in Nat
    BY DEF Recorded
  <2>2. [output[o] EXCEPT !.status = "measured", !.measured = n] \in OutputRow
    BY <1>1, <2>1 DEF OutputRow
  <2> QED
    BY <1>4, <2>2 DEF Measure, OutputTypeOK
<1>5. ASSUME NEW o \in Output, NEW c \in Component, NEW n \in Recorded,
             NEW approved \in BOOLEAN, RecordComponent(o, c, n, approved)
      PROVE  OutputTypeOK'
  <2> DEFINE old == output[o]
             approval == old.approved \/ (c = "unexplained_variance" /\ approved)
             new == [old EXCEPT !.component[c] = n, !.approved = approval]
  <2>1. n \in Nat
    BY DEF Recorded
  <2>2. approval \in BOOLEAN
    BY <1>1 DEF OutputRow
  <2>3. old \in OutputRow
    BY <1>1
  <2> HIDE DEF approval, old
  <2>4. new \in OutputRow
    BY <2>1, <2>2, <2>3 DEF OutputRow
  <2>5. output' = [output EXCEPT ![o] = new]
    BY <1>5 DEF RecordComponent, OutputTypeOK, old, approval
  <2> HIDE DEF new
  <2> QED
    BY <1>5, <2>4, <2>5 DEF RecordComponent, OutputTypeOK
<1>6. ASSUME NEW o \in Output, NEW tolerance \in Tolerances, NEW approve \in BOOLEAN,
             ReconcileOutput(o, tolerance, approve)
      PROVE  OutputTypeOK'
  <2>1. [output[o] EXCEPT !.status = "reconciled"] \in OutputRow
    BY <1>1 DEF OutputRow
  <2> QED
    BY <1>6, <2>1 DEF ReconcileOutput, OutputTypeOK
<1>7. CASE UNCHANGED outputVars
  BY <1>7 DEF outputVars, OutputTypeOK
<1> QED
  BY <1>2, <1>3, <1>4, <1>5, <1>6, <1>7 DEF OutputNext

\* An output's command leaves completed outputs alone.
LEMMA OutputStays ==
  ASSUME OutputTypeOK, [OutputNext]_outputVars,
         NEW p \in Output, output[p].status = "completed"
  PROVE  output'[p] = output[p]
<1>1. ASSUME NEW o \in Output, Mutable(o) PROVE o # p
  BY <1>1 DEF Mutable
<1>2. ASSUME CompleteStage PROVE output'[p] = output[p]
  BY <1>2 DEF CompleteStage
<1>3. ASSUME NEW o \in Output, CreateOutput(o) PROVE output'[p] = output[p]
  BY <1>3 DEF CreateOutput, OutputTypeOK
<1>4. ASSUME NEW o \in Output, NEW n \in Recorded, Measure(o, n)
      PROVE  output'[p] = output[p]
  BY <1>1, <1>4 DEF Measure, OutputTypeOK
<1>5. ASSUME NEW o \in Output, NEW c \in Component, NEW n \in Recorded,
             NEW approved \in BOOLEAN, RecordComponent(o, c, n, approved)
      PROVE  output'[p] = output[p]
  BY <1>1, <1>5 DEF RecordComponent, OutputTypeOK
<1>6. ASSUME NEW o \in Output, NEW tolerance \in Tolerances, NEW approve \in BOOLEAN,
             ReconcileOutput(o, tolerance, approve)
      PROVE  output'[p] = output[p]
  BY <1>1, <1>6 DEF ReconcileOutput, OutputTypeOK
<1>7. CASE UNCHANGED outputVars
  BY <1>7 DEF outputVars
<1> QED
  BY <1>2, <1>3, <1>4, <1>5, <1>6, <1>7 DEF OutputNext

\* A completed output has had its variance approved.
LEMMA OutputApproved ==
  ASSUME OutputTypeOK, VarianceApproved, [OutputNext]_outputVars
  PROVE  VarianceApproved'
<1>1. ASSUME CompleteStage PROVE VarianceApproved'
  <2>1. ASSUME NEW o \in Output
        PROVE  /\ output'[o].component = output[o].component
               /\ output'[o].approved = output[o].approved
               /\ Settled(o)
    BY <1>1 DEF CompleteStage, OutputTypeOK, OutputRow
  <2> QED
    BY <2>1 DEF VarianceApproved, Settled
<1>2. ASSUME NEW o \in Output,
             output'[o].status # "completed",
             \A p \in Output \ {o} : output'[p] = output[p]
      PROVE  VarianceApproved'
  BY <1>2 DEF VarianceApproved
<1>3. ASSUME NEW o \in Output, CreateOutput(o) PROVE VarianceApproved'
  BY <1>2, <1>3 DEF CreateOutput, OutputTypeOK, OutputRow
<1>4. ASSUME NEW o \in Output, NEW n \in Recorded, Measure(o, n) PROVE VarianceApproved'
  BY <1>2, <1>4 DEF Measure, OutputTypeOK, OutputRow
<1>5. ASSUME NEW o \in Output, NEW c \in Component, NEW n \in Recorded,
             NEW approved \in BOOLEAN, RecordComponent(o, c, n, approved)
      PROVE  VarianceApproved'
  BY <1>2, <1>5 DEF RecordComponent, Mutable, OutputTypeOK, OutputRow
<1>6. ASSUME NEW o \in Output, NEW tolerance \in Tolerances, NEW approve \in BOOLEAN,
             ReconcileOutput(o, tolerance, approve)
      PROVE  VarianceApproved'
  BY <1>2, <1>6 DEF ReconcileOutput, OutputTypeOK, OutputRow
<1>7. CASE UNCHANGED outputVars
  BY <1>7 DEF outputVars, VarianceApproved
<1> QED
  BY <1>1, <1>3, <1>4, <1>5, <1>6, <1>7 DEF OutputNext

-----------------------------------------------------------------------------
(* Reservations *)

\* What TypeOK says of the table of reservations.
Table(rows) ==
  rows \in [DOMAIN rows -> ReservationRow] /\ DOMAIN rows \subseteq ReserveKey

\* Inserting a reservation under a new key keeps the table a table, and leaves
\* the other rows alone.
Inserted(rows, k, q, new) ==
  /\ Table(new)
  /\ DOMAIN new = DOMAIN rows \cup {k}
  /\ new[k].requirement = q
  /\ \A x \in DOMAIN rows : new[x] = rows[x]

LEMMA InsertReservation ==
  ASSUME NEW rows, Table(rows), NEW k \in ReserveKey, NEW q \in Requirement,
         NEW l \in Lot, NEW n \in Nat, k \notin DOMAIN rows
  PROVE  Inserted(rows, k, q, WithReservation(rows, k, q, l, n))
<1> DEFINE row == [requirement |-> q, lot |-> l, reserved |-> n, consumed |-> 0,
                   wasted |-> 0, status |-> "open"]
           new == WithReservation(rows, k, q, l, n)
<1>1. row \in ReservationRow /\ row.requirement = q
  BY DEF ReservationRow
<1> HIDE DEF row
<1>2. new = [x \in DOMAIN rows \cup {k} |-> IF x = k THEN row ELSE rows[x]]
  BY DEF WithReservation, row
<1> HIDE DEF new
<1>3. Inserted(rows, k, q, new)
  BY <1>1, <1>2 DEF Inserted, Table
<1> QED
  BY <1>3 DEF new

\* The atomic request inserts two new rows, each of an open run.
LEMMA InsertTogether ==
  ASSUME TypeOK,
         NEW k1 \in ReserveKey, NEW q1 \in Requirement, NEW l1 \in Lot, NEW n1 \in Recorded,
         NEW k2 \in ReserveKey, NEW q2 \in Requirement, NEW l2 \in Lot, NEW n2 \in Recorded,
         ReserveAll(k1, q1, l1, n1, k2, q2, l2, n2)
  PROVE  /\ Table(reservation')
         /\ DOMAIN reservation' = DOMAIN reservation \cup {k1, k2}
         /\ \A k \in DOMAIN reservation : reservation'[k] = reservation[k]
         /\ reservation'[k1].requirement = q1 /\ reservation'[k2].requirement = q2
         /\ Writable(RunOf[q1]) /\ Writable(RunOf[q2])
<1> DEFINE first == WithReservation(reservation, k1, q1, l1, n1)
<1>1. n1 \in Nat /\ n2 \in Nat /\ Table(reservation)
  BY DEF Recorded, TypeOK, Table
<1>2. /\ k1 \notin DOMAIN reservation /\ Writable(RunOf[q1])
      /\ k2 \notin DOMAIN first /\ Writable(RunOf[q2])
      /\ reservation' = WithReservation(first, k2, q2, l2, n2)
  BY DEF ReserveAll, Reservable, ReservableNext
<1>3. Inserted(reservation, k1, q1, first)
  BY <1>1, <1>2, InsertReservation
<1> HIDE DEF first
<1>4. Inserted(first, k2, q2, reservation')
  <2>1. Table(first)
    BY <1>3 DEF Inserted
  <2>2. Inserted(first, k2, q2, WithReservation(first, k2, q2, l2, n2))
    BY <1>1, <1>2, <2>1, InsertReservation
  <2> QED
    BY <1>2, <2>2
<1> QED
  BY <1>2, <1>3, <1>4 DEF Inserted

\* What a step may do to reservations: rewrite rows of open runs, whose
\* requirement stays, and add rows of open runs.
ReservationChange ==
  /\ Table(reservation')
  /\ DOMAIN reservation \subseteq DOMAIN reservation'
  /\ \A k \in DOMAIN reservation :
       /\ reservation'[k].requirement = reservation[k].requirement
       /\ reservation'[k] = reservation[k] \/ Writable(RunOf[reservation[k].requirement])
  /\ \A k \in DOMAIN reservation' \ DOMAIN reservation :
       Writable(RunOf[reservation'[k].requirement])

LEMMA ReservationSteps ==
  ASSUME TypeOK, [Next]_vars
  PROVE  ReservationChange
<1>1. ASSUME NEW k \in ReserveKey, NEW q \in Requirement, NEW l \in Lot, NEW n \in Recorded,
             Reserve(k, q, l, n)
      PROVE  ReservationChange
  <2>1. n \in Nat /\ Table(reservation)
    BY DEF Recorded, TypeOK, Table
  <2>2. /\ k \notin DOMAIN reservation /\ Writable(RunOf[q])
        /\ reservation' = WithReservation(reservation, k, q, l, n)
    BY <1>1 DEF Reserve, Reservable
  <2>3. Inserted(reservation, k, q, reservation')
    BY <2>1, <2>2, InsertReservation
  <2> QED
    BY <2>2, <2>3 DEF Inserted, ReservationChange
<1>2. ASSUME NEW k1 \in ReserveKey, NEW q1 \in Requirement, NEW l1 \in Lot, NEW n1 \in Recorded,
             NEW k2 \in ReserveKey, NEW q2 \in Requirement, NEW l2 \in Lot, NEW n2 \in Recorded,
             ReserveAll(k1, q1, l1, n1, k2, q2, l2, n2)
      PROVE  ReservationChange
  <2>1. /\ Table(reservation')
        /\ DOMAIN reservation' = DOMAIN reservation \cup {k1, k2}
        /\ \A k \in DOMAIN reservation : reservation'[k] = reservation[k]
        /\ reservation'[k1].requirement = q1 /\ reservation'[k2].requirement = q2
        /\ Writable(RunOf[q1]) /\ Writable(RunOf[q2])
    BY <1>2, InsertTogether
  <2> QED
    BY <2>1 DEF ReservationChange
<1>3. ASSUME NEW k \in DOMAIN reservation, NEW row \in ReservationRow,
             Open(k), row.requirement = reservation[k].requirement,
             reservation' = [reservation EXCEPT ![k] = row]
      PROVE  ReservationChange
  BY <1>3 DEF Open, ReservationChange, TypeOK, Table
<1>4. ASSUME NEW k \in ReserveKey, ReleaseReservation(k)
      PROVE  ReservationChange
  <2> DEFINE row == [reservation[k] EXCEPT !.status = "released"]
  <2>1. Open(k) /\ k \in DOMAIN reservation /\ reservation[k] \in ReservationRow
    BY <1>4 DEF ReleaseReservation, Open, TypeOK
  <2>2. row \in ReservationRow /\ row.requirement = reservation[k].requirement
    BY <2>1 DEF ReservationRow
  <2>3. reservation' = [reservation EXCEPT ![k] = row]
    BY <1>4, <2>1 DEF ReleaseReservation
  <2> HIDE DEF row
  <2> QED
    BY <1>3, <2>1, <2>2, <2>3
<1>5. ASSUME NEW k \in ReserveKey, NEW productive \in BOOLEAN, NEW n \in Recorded,
             UseComponents(k, productive, n)
      PROVE  ReservationChange
  <2> DEFINE old == reservation[k]
             used == IF productive THEN [old EXCEPT !.consumed = @ + n]
                                   ELSE [old EXCEPT !.wasted = @ + n]
             row == Settle(used)
  <2>1. Open(k) /\ k \in DOMAIN reservation /\ old \in ReservationRow /\ n \in Nat
    BY <1>5 DEF UseComponents, Open, TypeOK, Recorded
  <2>2. reservation' = [reservation EXCEPT ![k] = row]
    BY <1>5 DEF UseComponents
  <2> HIDE DEF old
  <2>3. used \in ReservationRow /\ used.requirement = old.requirement
    BY <2>1 DEF ReservationRow
  <2> HIDE DEF used
  <2>4. row \in ReservationRow /\ row.requirement = used.requirement
    BY <2>3 DEF Settle, ReservationRow
  <2> HIDE DEF row
  <2> QED
    BY <1>3, <2>1, <2>2, <2>3, <2>4 DEF old
<1>6. CASE UNCHANGED reservation
  BY <1>6 DEF ReservationChange, TypeOK, Table
<1>7. ASSUME NEW p \in Run, RunCommand(p)
      PROVE  UNCHANGED reservation
  BY <1>7
  DEF RunCommand, CreateRun, AllocateBulk, ReleaseBulk, TransferBulk, ReconcileRun, CompleteRun
<1>8. ASSUME NEW k \in ReserveKey, ReservationCommand(k)
      PROVE  ReservationChange
  BY <1>1, <1>2, <1>4, <1>5, <1>8 DEF ReservationCommand
<1>9. ASSUME NEW l \in Lot, NEW change, OtherMovement(l, change)
      PROVE  UNCHANGED reservation
  BY <1>9 DEF OtherMovement
<1> QED
  BY <1>6, <1>7, <1>8, <1>9 DEF Next, vars, packagingVars

-----------------------------------------------------------------------------
(* Runs and their bulk *)

\* Commands on reservations, and movements, touch neither outputs nor runs.
LEMMA ReservationScope ==
  ASSUME NEW k, ReservationCommand(k)
  PROVE  UNCHANGED <<output, stage, run, bulk, accounted>>
<1>1. ASSUME NEW q, NEW l, NEW n, Reserve(k, q, l, n)
      PROVE  UNCHANGED <<output, stage, run, bulk, accounted>>
  BY <1>1 DEF Reserve
<1>2. ASSUME NEW q, NEW l, NEW n, NEW k2, NEW q2, NEW l2, NEW n2,
             ReserveAll(k, q, l, n, k2, q2, l2, n2)
      PROVE  UNCHANGED <<output, stage, run, bulk, accounted>>
  BY <1>2 DEF ReserveAll
<1>3. ASSUME ReleaseReservation(k)
      PROVE  UNCHANGED <<output, stage, run, bulk, accounted>>
  BY <1>3 DEF ReleaseReservation
<1>4. ASSUME NEW productive, NEW n, UseComponents(k, productive, n)
      PROVE  UNCHANGED <<output, stage, run, bulk, accounted>>
  BY <1>4 DEF UseComponents
<1> QED
  BY <1>1, <1>2, <1>3, <1>4 DEF ReservationCommand

LEMMA MovementScope ==
  ASSUME NEW l, NEW change, OtherMovement(l, change)
  PROVE  UNCHANGED <<output, stage, run, bulk, accounted>>
BY DEF OtherMovement

\* Commands on runs touch no output.
LEMMA RunScope ==
  ASSUME NEW p, RunCommand(p)
  PROVE  UNCHANGED <<output, stage>>
BY DEF RunCommand, CreateRun, AllocateBulk, ReleaseBulk, TransferBulk, ReconcileRun, CompleteRun

LEMMA OutputScope ==
  ASSUME [Next]_vars
  PROVE  [OutputNext]_outputVars
BY RunScope, ReservationScope, MovementScope DEF Next, vars, outputVars

\* A step changes the records of a run only if the run is open, or creates it.
LEMMA RunSteps ==
  ASSUME TypeOK, [Next]_vars, NEW p \in Run
  PROVE  \/ run'[p] = run[p] /\ bulk'[p] = bulk[p] /\ accounted'[p] = accounted[p]
         \/ Writable(p)
         \/ run[p].status = "none"
<1> DEFINE Kept == run'[p] = run[p] /\ bulk'[p] = bulk[p] /\ accounted'[p] = accounted[p]
<1>1. ASSUME NEW x \in Run, RunCommand(x) PROVE Kept \/ x = p
  BY <1>1
  DEF TypeOK, RunCommand, CreateRun, AllocateBulk, ReleaseBulk, TransferBulk, ReconcileRun,
      CompleteRun
<1>2. ASSUME RunCommand(p) PROVE Writable(p) \/ run[p].status = "none"
  BY <1>2
  DEF RunCommand, CreateRun, AllocateBulk, ReleaseBulk, TransferBulk, ReconcileRun, CompleteRun
<1>3. ASSUME NEW k \in ReserveKey, ReservationCommand(k) PROVE Kept
  BY <1>3, ReservationScope
<1>4. ASSUME NEW l \in Lot, NEW change, OtherMovement(l, change) PROVE Kept
  BY <1>4, MovementScope
<1>5. CASE UNCHANGED packagingVars
  BY <1>5 DEF packagingVars
<1> QED
  BY <1>1, <1>2, <1>3, <1>4, <1>5 DEF Next, vars, packagingVars

-----------------------------------------------------------------------------
(* Type correctness *)

LEMMA InitTyped == Init => TypeOK
<1> SUFFICES ASSUME Init PROVE TypeOK
  OBVIOUS
<1> USE OutputAssumption, PackagingAssumption
<1>1. OutputTypeOK
  BY DEF Init, OutputInit, OutputTypeOK, OutputRow
<1>2. run \in [Run -> RunRow] /\ bulk \in [Run -> BulkRow]
  BY DEF Init, RunRow, BulkRow
<1>3. reservation \in [DOMAIN reservation -> ReservationRow] /\ DOMAIN reservation \subseteq ReserveKey
  BY DEF Init
<1>4. balance \in [Lot -> Nat] /\ accounted \in [Run -> Nat \cup {None}]
  BY DEF Init
<1> QED
  BY <1>1, <1>2, <1>3, <1>4 DEF TypeOK

\* What a command writes into a run and its allocation is typed again.
LEMMA RunTyped ==
  ASSUME TypeOK, NEW p \in Run, RunCommand(p)
  PROVE  /\ run' \in [Run -> RunRow]
         /\ bulk' \in [Run -> BulkRow]
         /\ accounted' \in [Run -> Nat \cup {None}]
<1>1. /\ run \in [Run -> RunRow] /\ run[p] \in RunRow
      /\ bulk \in [Run -> BulkRow] /\ bulk[p] \in BulkRow
      /\ accounted \in [Run -> Nat \cup {None}]
  BY DEF TypeOK
<1>2. ASSUME CreateRun(p) \/ CompleteRun(p) PROVE run' \in [Run -> RunRow]
  BY <1>1, <1>2 DEF CreateRun, CompleteRun, RunRow
<1>3. ASSUME AllocateBulk(p) \/ ReleaseBulk(p) PROVE bulk' \in [Run -> BulkRow]
  BY <1>1, <1>3 DEF AllocateBulk, ReleaseBulk, BulkRow
<1>4. ASSUME NEW n \in Recorded, TransferBulk(p, n)
      PROVE  run' \in [Run -> RunRow] /\ bulk' \in [Run -> BulkRow]
  <2>1. /\ n \in Nat
        /\ run[p].transferred + n \in Nat
        /\ bulk[p].transferred + n \in Nat
    BY <1>1 DEF Recorded, RunRow, BulkRow
  <2>2. [run[p] EXCEPT !.transferred = run[p].transferred + n] \in RunRow
    BY <1>1, <2>1 DEF RunRow
  <2>3. ASSUME NEW status \in {"transferred", "open"}
        PROVE  [bulk[p] EXCEPT !.transferred = bulk[p].transferred + n, !.status = status]
                 \in BulkRow
    BY <1>1, <2>1 DEF BulkRow
  <2>4. run' = [run EXCEPT ![p] = [run[p] EXCEPT !.transferred = run[p].transferred + n]]
    BY <1>1, <1>4 DEF TransferBulk
  <2> DEFINE status == IF bulk[p].transferred + n = Planned[p] THEN "transferred" ELSE "open"
  <2>5. bulk' = [bulk EXCEPT ![p] =
                   [bulk[p] EXCEPT !.transferred = bulk[p].transferred + n, !.status = status]]
    BY <1>1, <1>4 DEF TransferBulk
  <2>6. status \in {"transferred", "open"}
    OBVIOUS
  <2> HIDE DEF status
  <2> QED
    BY <1>1, <2>2, <2>3, <2>4, <2>5, <2>6
<1>5. ASSUME ReconcileRun(p) PROVE accounted' \in [Run -> Nat \cup {None}]
  BY <1>1, <1>5 DEF ReconcileRun, RunRow
<1> QED
  BY <1>1, <1>2, <1>3, <1>4, <1>5
  DEF RunCommand, CreateRun, AllocateBulk, ReleaseBulk, TransferBulk, ReconcileRun, CompleteRun

LEMMA BalanceTyped ==
  ASSUME TypeOK, [Next]_vars
  PROVE  balance' \in [Lot -> Nat]
<1>1. balance \in [Lot -> Nat]
  BY DEF TypeOK
<1>2. ASSUME NEW k \in ReserveKey, NEW productive \in BOOLEAN, NEW n \in Recorded,
             UseComponents(k, productive, n)
      PROVE  balance' \in [Lot -> Nat]
  <2> DEFINE l == reservation[k].lot
  <2>1. l \in Lot /\ n \in Nat
    BY <1>2 DEF UseComponents, Open, TypeOK, ReservationRow, Recorded
  <2>2. n <= balance[l] /\ balance' = [balance EXCEPT ![l] = @ - n]
    BY <1>2 DEF UseComponents, Usable
  <2> HIDE DEF l
  <2> QED
    BY <1>1, <2>1, <2>2
<1>3. ASSUME NEW l \in Lot, NEW change, OtherMovement(l, change)
      PROVE  balance' \in [Lot -> Nat]
  <2>1. balance[l] + change \in Nat
    BY <1>3, PackagingAssumption DEF OtherMovement
  <2> QED
    BY <1>1, <1>3, <2>1 DEF OtherMovement
<1>4. ASSUME NEW p \in Run, RunCommand(p) PROVE UNCHANGED balance
  BY <1>4
  DEF RunCommand, CreateRun, AllocateBulk, ReleaseBulk, TransferBulk, ReconcileRun, CompleteRun
<1>5. ASSUME NEW k \in ReserveKey, ReservationCommand(k) PROVE balance' \in [Lot -> Nat]
  BY <1>1, <1>2, <1>5 DEF ReservationCommand, Reserve, ReserveAll, ReleaseReservation
<1> QED
  BY <1>1, <1>3, <1>4, <1>5 DEF Next, vars, packagingVars

LEMMA StepTyped ==
  ASSUME TypeOK, [Next]_vars
  PROVE  TypeOK'
<1>1. OutputTypeOK'
  <2>1. OutputTypeOK
    BY DEF TypeOK
  <2> QED
    BY <2>1, OutputScope, OutputTyped
<1>2. Table(reservation')
  BY ReservationSteps DEF ReservationChange
<1>3. balance' \in [Lot -> Nat]
  BY BalanceTyped
<1>4. /\ run' \in [Run -> RunRow]
      /\ bulk' \in [Run -> BulkRow]
      /\ accounted' \in [Run -> Nat \cup {None}]
  <2>1. CASE UNCHANGED <<run, bulk, accounted>>
    BY <2>1 DEF TypeOK
  <2> QED
    BY <2>1, RunTyped, ReservationScope, MovementScope DEF Next, vars, packagingVars
<1> QED
  BY <1>1, <1>2, <1>3, <1>4 DEF TypeOK, Table

\* Every table keeps its type, and no lot of components falls below zero.
THEOREM PackagingTyped == Spec => []TypeOK
<1>1. Init => TypeOK
  BY InitTyped
<1>2. TypeOK /\ [Next]_vars => TypeOK'
  BY StepTyped
<1> QED
  BY <1>1, <1>2, PTL DEF Spec

-----------------------------------------------------------------------------
(* Completed outputs *)

\* No step of an output or of a packaging run changes a completed output.
THEOREM CompletedOutputsStay == Spec => CompletedOutputFixed
<1> DEFINE Fixed == \A o \in Output : output[o].status = "completed" => output'[o] = output[o]
<1>1. TypeOK /\ [Next]_vars => [Fixed]_outputVars
  <2> SUFFICES ASSUME TypeOK, [Next]_vars PROVE Fixed
    OBVIOUS
  <2> QED
    BY OutputScope, OutputStays DEF TypeOK
<1> HIDE DEF Fixed
<1>2. Spec => [][Fixed]_outputVars
  BY <1>1, PackagingTyped, PTL DEF Spec
<1> QED
  BY <1>2 DEF CompletedOutputFixed, Fixed

\* No output completes with variance nobody approved.
THEOREM VarianceStaysApproved == Spec => []VarianceApproved
<1>1. Init => VarianceApproved
  BY DEF Init, OutputInit, VarianceApproved
<1>2. TypeOK /\ VarianceApproved /\ [Next]_vars => VarianceApproved'
  BY OutputScope, OutputApproved DEF TypeOK
<1> QED
  BY <1>1, <1>2, PackagingTyped, PTL DEF Spec

-----------------------------------------------------------------------------
(* Completed runs *)

\* The body of CompletedHistoryFixed for one run.
HistoryKept(p) ==
  /\ run'[p] = run[p] /\ bulk'[p] = bulk[p] /\ accounted'[p] = accounted[p]
  /\ \A k \in RowsOf(p) : reservation'[k] = reservation[k]
  /\ \A k \in DOMAIN reservation' \ DOMAIN reservation :
       RunOf[reservation'[k].requirement] # p

LEMMA CompletedKept ==
  ASSUME TypeOK, [Next]_vars, NEW p \in Run, run[p].status = "completed"
  PROVE  HistoryKept(p)
<1>1. ~Writable(p) /\ run[p].status # "none"
  BY DEF Writable
<1>2. run'[p] = run[p] /\ bulk'[p] = bulk[p] /\ accounted'[p] = accounted[p]
  BY <1>1, RunSteps
<1>3. \A k \in RowsOf(p) : reservation'[k] = reservation[k]
  BY <1>1, ReservationSteps DEF ReservationChange, RowsOf
<1>4. \A k \in DOMAIN reservation' \ DOMAIN reservation :
        RunOf[reservation'[k].requirement] # p
  BY <1>1, ReservationSteps DEF ReservationChange
<1> QED
  BY <1>2, <1>3, <1>4 DEF HistoryKept

\* Once a run is completed no command changes it, its bulk, its reservations or
\* its reconciliation, whichever of them the command is addressed to.
THEOREM CompletedRunsStay == Spec => CompletedHistoryFixed
<1> DEFINE Fixed == \A p \in Run : run[p].status = "completed" => HistoryKept(p)
<1>1. TypeOK /\ [Next]_vars => [Fixed]_vars
  BY CompletedKept
<1> HIDE DEF Fixed
<1>2. Spec => [][Fixed]_vars
  BY <1>1, PackagingTyped, PTL DEF Spec
<1> QED
  BY <1>2 DEF CompletedHistoryFixed, Fixed, HistoryKept

-----------------------------------------------------------------------------
(* The account of a run *)

\* An allocation's status tells how much of it was transferred: completion
\* looks at the status and at the run's own counter.
AllocationOK(p) ==
  /\ run[p].transferred = bulk[p].transferred
  /\ bulk[p].status \in {"none", "released"} => bulk[p].transferred = 0
  /\ bulk[p].status = "open" => bulk[p].transferred < Planned[p]
  /\ bulk[p].status = "transferred" => bulk[p].transferred = Planned[p]

CompletionOK(p) ==
  run[p].status = "completed" =>
    /\ bulk[p].status = "transferred"
    /\ \A k \in RowsOf(p) : reservation[k].status # "open"

AccountsOK == \A p \in Run : AllocationOK(p) /\ CompletionOK(p)

IInv == TypeOK /\ AccountsOK

LEMMA StepAllocation ==
  ASSUME TypeOK, [Next]_vars, NEW p \in Run, AllocationOK(p)
  PROVE  AllocationOK(p)'
<1>1. /\ run \in [Run -> RunRow] /\ run[p] \in RunRow
      /\ bulk \in [Run -> BulkRow] /\ bulk[p] \in BulkRow
      /\ Planned[p] \in Nat /\ Planned[p] > 0
  BY PackagingAssumption DEF TypeOK
<1>2. CASE run'[p] = run[p] /\ bulk'[p] = bulk[p]
  BY <1>2 DEF AllocationOK
<1>3. ASSUME NEW x \in Run, RunCommand(x), x # p
      PROVE  run'[p] = run[p] /\ bulk'[p] = bulk[p]
  BY <1>1, <1>3
  DEF RunCommand, CreateRun, AllocateBulk, ReleaseBulk, TransferBulk, ReconcileRun, CompleteRun
<1>4. ASSUME CreateRun(p) \/ ReconcileRun(p) \/ CompleteRun(p)
      PROVE  run'[p].transferred = run[p].transferred /\ bulk'[p] = bulk[p]
  BY <1>1, <1>4 DEF CreateRun, ReconcileRun, CompleteRun, RunRow
<1>5. ASSUME AllocateBulk(p) PROVE AllocationOK(p)'
  BY <1>1, <1>5 DEF AllocateBulk, AllocationOK, BulkRow
<1>6. ASSUME ReleaseBulk(p) PROVE AllocationOK(p)'
  BY <1>1, <1>6 DEF ReleaseBulk, AllocationOK, BulkRow
<1>7. ASSUME NEW n \in Recorded, TransferBulk(p, n) PROVE AllocationOK(p)'
  <2>1. n \in Nat /\ n > 0
    BY OutputAssumption DEF Recorded
  <2> DEFINE total == bulk[p].transferred + n
  <2>2. total \in Nat /\ total <= Planned[p]
    BY <1>1, <1>7, <2>1 DEF TransferBulk, BulkRow
  <2>3. /\ run'[p].transferred = run[p].transferred + n
        /\ bulk'[p].transferred = total
        /\ bulk'[p].status = IF total = Planned[p] THEN "transferred" ELSE "open"
    BY <1>1, <1>7 DEF TransferBulk, RunRow, BulkRow
  <2>4. run'[p].transferred = total
    BY <2>3 DEF AllocationOK
  <2> HIDE DEF total
  <2> QED
    BY <1>1, <2>2, <2>3, <2>4 DEF AllocationOK
<1>8. ASSUME RunCommand(p) PROVE AllocationOK(p)'
  BY <1>4, <1>5, <1>6, <1>7, <1>8 DEF RunCommand, AllocationOK
<1> QED
  BY <1>2, <1>3, <1>8, ReservationScope, MovementScope DEF Next, vars, packagingVars

\* A run completes only when its allocation is used up and nothing is held; the
\* positive counter rules out an allocation that was released.
LEMMA CompletesClean ==
  ASSUME TypeOK, NEW p \in Run, AllocationOK(p), CompleteRun(p)
  PROVE  CompletionOK(p)'
<1>1. /\ bulk[p] \in BulkRow /\ run[p] \in RunRow
      /\ Planned[p] \in Nat
  BY PackagingAssumption DEF TypeOK
<1>2. /\ bulk[p].status # "none" /\ run[p].transferred > 0
      /\ bulk[p].status = "open" => Planned[p] = bulk[p].transferred
      /\ \A k \in RowsOf(p) : reservation[k].status # "open"
      /\ bulk' = bulk /\ reservation' = reservation
  BY DEF CompleteRun, CompletionReady
<1>3. bulk[p].status = "transferred"
  BY <1>1, <1>2 DEF AllocationOK, BulkRow, RunRow
<1> QED
  BY <1>2, <1>3 DEF CompletionOK, RowsOf

LEMMA StepCompletion ==
  ASSUME TypeOK, [Next]_vars, NEW p \in Run, AllocationOK(p), CompletionOK(p)
  PROVE  CompletionOK(p)'
<1>1. CASE run[p].status = "completed"
  <2>1. HistoryKept(p)
    BY <1>1, CompletedKept
  <2>2. \A k \in DOMAIN reservation : reservation'[k].requirement = reservation[k].requirement
    BY ReservationSteps DEF ReservationChange
  <2>3. ASSUME NEW k \in DOMAIN reservation', RunOf[reservation'[k].requirement] = p
        PROVE  k \in RowsOf(p) /\ reservation'[k] = reservation[k]
    BY <2>1, <2>2, <2>3 DEF HistoryKept, RowsOf
  <2> QED
    BY <1>1, <2>1, <2>3 DEF CompletionOK, HistoryKept, RowsOf
<1>2. CASE run[p].status # "completed"
  <2>1. ASSUME NEW x \in Run, RunCommand(x)
        PROVE  CompletionOK(p)'
    <3>1. run \in [Run -> RunRow] /\ run[p] \in RunRow
      BY DEF TypeOK
    <3>2. CASE CompleteRun(x) /\ x = p
      BY <3>2, CompletesClean
    <3>3. ASSUME ~(CompleteRun(x) /\ x = p) PROVE run'[p].status # "completed"
      <4>1. CASE CompleteRun(x)
        BY <1>2, <3>1, <3>3, <4>1 DEF CompleteRun
      <4>2. CASE CreateRun(x)
        BY <1>2, <3>1, <4>2 DEF CreateRun, RunRow
      <4>3. ASSUME NEW n \in Recorded, TransferBulk(x, n)
            PROVE  run'[p].status = run[p].status
        BY <3>1, <4>3 DEF TransferBulk, RunRow
      <4>4. CASE AllocateBulk(x) \/ ReleaseBulk(x) \/ ReconcileRun(x)
        BY <1>2, <4>4 DEF AllocateBulk, ReleaseBulk, ReconcileRun
      <4> QED
        BY <1>2, <2>1, <4>1, <4>2, <4>3, <4>4 DEF RunCommand
    <3> QED
      BY <3>2, <3>3 DEF CompletionOK
  <2>2. CASE run' = run
    BY <1>2, <2>2 DEF CompletionOK
  <2> QED
    BY <2>1, <2>2, ReservationScope, MovementScope DEF Next, vars, packagingVars
<1> QED
  BY <1>1, <1>2

\* A completed run took exactly the bulk it planned and holds no component.
THEOREM CompletedRunsAccount == Spec => []CompletedRunAccounts
<1>1. Init => IInv
  <2> SUFFICES ASSUME Init, NEW p \in Run PROVE AllocationOK(p) /\ CompletionOK(p)
    BY InitTyped DEF IInv, AccountsOK
  <2> QED
    BY DEF Init, AllocationOK, CompletionOK
<1>2. IInv /\ [Next]_vars => IInv'
  <2> SUFFICES ASSUME TypeOK, AccountsOK, [Next]_vars PROVE IInv'
    BY DEF IInv
  <2>1. ASSUME NEW p \in Run PROVE AllocationOK(p)' /\ CompletionOK(p)'
    BY StepAllocation, StepCompletion DEF AccountsOK
  <2> QED
    BY <2>1, StepTyped DEF IInv, AccountsOK
<1>3. IInv => CompletedRunAccounts
  BY DEF IInv, AccountsOK, AllocationOK, CompletionOK, CompletedRunAccounts
<1> QED
  BY <1>1, <1>2, <1>3, PTL DEF Spec

-----------------------------------------------------------------------------
(* Bulk drawn from one output *)

\* The allocations that stand, whatever part of them was transferred.
Drawing(o) == {p \in RunsOf(o) : bulk[p].status \in {"open", "transferred"}}

\* Only an existing run has an allocation, and only a completed output a run.
RunsBacked ==
  \A p \in Run :
    /\ bulk[p].status # "none" => run[p].status # "none"
    /\ run[p].status # "none" => output[OutputOf[p]].status = "completed"

BulkCovered == \A o \in Output : SumFunctionOnSet(Planned, Drawing(o)) <= Retained(o)

LEMMA StepBacked ==
  ASSUME TypeOK, RunsBacked, [Next]_vars
  PROVE  RunsBacked'
<1>1. \A o \in Output : output[o].status = "completed" => output'[o] = output[o]
  BY OutputScope, OutputStays DEF TypeOK
<1>2. /\ run \in [Run -> RunRow] /\ bulk \in [Run -> BulkRow]
      /\ \A p \in Run : OutputOf[p] \in Output
  BY PackagingAssumption DEF TypeOK
<1>3. CASE UNCHANGED <<run, bulk>>
  BY <1>1, <1>2, <1>3 DEF RunsBacked
<1>4. ASSUME NEW p \in Run, RunCommand(p) PROVE RunsBacked'
  <2>1. output' = output
    BY <1>4, RunScope
  <2>2. CASE CreateRun(p)
    BY <1>2, <2>1, <2>2 DEF CreateRun, RunsBacked, RunRow
  <2>3. CASE AllocateBulk(p) \/ ReleaseBulk(p)
    BY <1>2, <2>1, <2>3 DEF AllocateBulk, ReleaseBulk, Writable, RunsBacked, BulkRow
  <2>4. ASSUME NEW n \in Recorded, TransferBulk(p, n) PROVE RunsBacked'
    <3>1. \A x \in Run : run'[x].status = run[x].status
      BY <1>2, <2>4 DEF TransferBulk, RunRow
    <3>2. \A x \in Run \ {p} : bulk'[x] = bulk[x]
      BY <1>2, <2>4 DEF TransferBulk
    <3>3. run[p].status = "open"
      BY <2>4 DEF TransferBulk, Writable
    <3> QED BY <2>1, <3>1, <3>2, <3>3 DEF RunsBacked
  <2>5. CASE ReconcileRun(p)
    BY <2>1, <2>5 DEF ReconcileRun, RunsBacked
  <2>6. CASE CompleteRun(p)
    BY <1>2, <2>1, <2>6 DEF CompleteRun, Writable, RunsBacked, RunRow
  <2> QED BY <1>4, <2>2, <2>3, <2>4, <2>5, <2>6 DEF RunCommand
<1> QED BY <1>3, <1>4, ReservationScope, MovementScope DEF Next, vars, packagingVars

LEMMA DrawingFinite ==
  ASSUME NEW o
  PROVE  /\ IsFiniteSet(Drawing(o))
         /\ \A S \in SUBSET Run :
              /\ IsFiniteSet(S)
              /\ \A p \in S : Planned[p] \in Int /\ Planned[p] \in Nat
<1>1. \A S \in SUBSET Run :
        IsFiniteSet(S) /\ \A p \in S : Planned[p] \in Int /\ Planned[p] \in Nat
  BY PackagingAssumption, FS_Subset
<1>2. Drawing(o) \in SUBSET Run
  BY DEF Drawing, RunsOf
<1> QED BY <1>1, <1>2

LEMMA StepBulk ==
  ASSUME TypeOK, RunsBacked, BulkCovered, [Next]_vars
  PROVE  BulkCovered'
<1>1. /\ run \in [Run -> RunRow] /\ bulk \in [Run -> BulkRow]
      /\ output \in [Output -> OutputRow] /\ output' \in [Output -> OutputRow]
  BY StepTyped DEF TypeOK, OutputTypeOK
<1>2. \A o \in Output : Retained(o) \in Nat /\ Retained(o)' \in Nat
  BY <1>1 DEF Retained, OutputRow, Component
\* what is drawn is drawn from an output that stays as it is
<1>3. ASSUME NEW o \in Output, Drawing(o) # {} PROVE Retained(o)' = Retained(o)
  <2>1. PICK p \in Run : OutputOf[p] = o /\ bulk[p].status # "none"
    BY <1>3 DEF Drawing, RunsOf
  <2>2. output[o].status = "completed"
    BY <2>1 DEF RunsBacked
  <2>3. output'[o] = output[o]
    BY <2>2, OutputScope, OutputStays DEF TypeOK
  <2> QED BY <2>3 DEF Retained
<1>4. ASSUME NEW o \in Output, Drawing(o)' \subseteq Drawing(o)
      PROVE  SumFunctionOnSet(Planned, Drawing(o)') <= Retained(o)'
  <2>1. CASE Drawing(o) = {}
    <3>1. Drawing(o)' = {}
      BY <1>4, <2>1
    <3>2. SumFunctionOnSet(Planned, Drawing(o)') = 0
      BY <3>1, SumEmpty
    <3> QED BY <1>2, <3>2
  <2>2. CASE Drawing(o) # {}
    <3>1. Drawing(o) \in SUBSET Run
      BY DEF Drawing, RunsOf
    <3>2. IsFiniteSet(Drawing(o)) /\ \A p \in Drawing(o) : Planned[p] \in Nat
      BY <3>1, DrawingFinite
    <3>3. SumFunctionOnSet(Planned, Drawing(o)') <= SumFunctionOnSet(Planned, Drawing(o))
      BY <1>4, <3>2, SumSubset
    <3>4. SumFunctionOnSet(Planned, Drawing(o)') \in Nat
      <4>1. Drawing(o)' \in SUBSET Run
        BY <1>4, <3>1
      <4>2. IsFiniteSet(Drawing(o)') /\ \A p \in Drawing(o)' : Planned[p] \in Nat
        BY <4>1, DrawingFinite
      <4> QED BY <4>2, SumNat
    <3>5. SumFunctionOnSet(Planned, Drawing(o)) \in Nat
      BY <3>2, SumNat
    <3>6. SumFunctionOnSet(Planned, Drawing(o)) <= Retained(o) /\ Retained(o)' = Retained(o)
      BY <1>3, <2>2 DEF BulkCovered
    <3> QED BY <1>2, <3>3, <3>4, <3>5, <3>6
  <2> QED BY <2>1, <2>2
<1>5. ASSUME NEW p \in Run, AllocateBulk(p), NEW o \in Output
      PROVE  SumFunctionOnSet(Planned, Drawing(o)') <= Retained(o)'
  <2>1. /\ bulk[p].status = "none"
        /\ Planned[p] <= Retained(OutputOf[p]) - Allocated(OutputOf[p])
        /\ bulk' = [bulk EXCEPT ![p].status = "open"]
        /\ output' = output
    BY <1>5 DEF AllocateBulk
  <2>2. CASE o # OutputOf[p]
    <3>1. Drawing(o)' \subseteq Drawing(o)
      BY <1>1, <2>1, <2>2 DEF Drawing, RunsOf
    <3> QED BY <1>4, <3>1
  <2>3. CASE o = OutputOf[p]
    <3>1. Drawing(o)' = Drawing(o) \cup {p} /\ p \notin Drawing(o)
      BY <1>1, <2>1, <2>3 DEF Drawing, RunsOf, BulkRow
    <3>2. Drawing(o) \in SUBSET Run /\ Drawing(o) \cup {p} \in SUBSET Run
      BY DEF Drawing, RunsOf
    <3>3. /\ IsFiniteSet(Drawing(o))
          /\ \A x \in Drawing(o) \cup {p} : Planned[x] \in Int /\ Planned[x] \in Nat
      BY <3>2, DrawingFinite
    <3>4. SumFunctionOnSet(Planned, Drawing(o) \cup {p})
            = Planned[p] + SumFunctionOnSet(Planned, Drawing(o))
      BY <3>1, <3>3, SumAdd
    <3>5. Allocated(o) = SumFunctionOnSet(Planned, Drawing(o))
      BY DEF Allocated, Drawing
    <3>6. SumFunctionOnSet(Planned, Drawing(o)) \in Int /\ Planned[p] \in Int
      BY <3>3, SumInt
    <3>7. Retained(o)' = Retained(o)
      BY <2>1 DEF Retained
    <3> QED BY <1>2, <2>1, <2>3, <3>1, <3>4, <3>5, <3>6, <3>7
  <2> QED BY <2>2, <2>3
<1>6. ASSUME \A x \in Run :
               bulk'[x].status \in {"open", "transferred"} => bulk[x].status \in {"open", "transferred"}
      PROVE  BulkCovered'
  <2>1. \A o \in Output : Drawing(o)' \subseteq Drawing(o)
    BY <1>6 DEF Drawing, RunsOf
  <2> QED BY <1>4, <2>1 DEF BulkCovered
<1>7. ASSUME NEW p \in Run, RunCommand(p) PROVE BulkCovered'
  <2>1. CASE CreateRun(p) \/ ReconcileRun(p) \/ CompleteRun(p)
    BY <1>6, <2>1 DEF CreateRun, ReconcileRun, CompleteRun
  <2>2. CASE AllocateBulk(p)
    BY <1>5, <2>2 DEF BulkCovered
  <2>3. CASE ReleaseBulk(p)
    BY <1>1, <1>6, <2>3 DEF ReleaseBulk
  <2>4. ASSUME NEW n \in Recorded, TransferBulk(p, n) PROVE BulkCovered'
    BY <1>1, <1>6, <2>4 DEF TransferBulk
  <2> QED BY <1>7, <2>1, <2>2, <2>3, <2>4 DEF RunCommand
<1>8. CASE bulk' = bulk
  BY <1>6, <1>8
<1> QED BY <1>7, <1>8, ReservationScope, MovementScope DEF Next, vars, packagingVars

\* BulkWithinRetained for any number of runs and outputs: no sequence of
\* allocations, transfers and releases draws more than an output retained.
THEOREM BulkStaysWithin == Spec => []BulkWithinRetained
<1> DEFINE BInv == RunsBacked /\ BulkCovered
<1>1. Init => BInv
  <2> SUFFICES ASSUME Init PROVE BInv
    OBVIOUS
  <2>1. RunsBacked
    BY DEF Init, RunsBacked
  <2>2. ASSUME NEW o \in Output PROVE SumFunctionOnSet(Planned, Drawing(o)) <= Retained(o)
    <3>1. Drawing(o) = {}
      BY DEF Init, Drawing, RunsOf
    <3>2. SumFunctionOnSet(Planned, Drawing(o)) = 0
      BY <3>1, SumEmpty
    <3>3. Retained(o) = 0
      BY DEF Init, OutputInit, Retained, Component
    <3> QED BY <3>2, <3>3
  <2> QED BY <2>1, <2>2 DEF BulkCovered
<1>2. TypeOK /\ BInv /\ [Next]_vars => BInv'
  BY StepBacked, StepBulk
<1>3. TypeOK /\ BInv => BulkWithinRetained
  <2> SUFFICES ASSUME TypeOK, BulkCovered, NEW o \in Output
               PROVE  {p \in RunsOf(o) : bulk[p].status \notin {"none", "released"}} = Drawing(o)
    BY DEF BulkWithinRetained, BulkCovered
  <2> QED BY DEF TypeOK, BulkRow, Drawing, RunsOf
<1> QED BY <1>1, <1>2, <1>3, PackagingTyped, PTL DEF Spec

-----------------------------------------------------------------------------
(* What a completed run packed *)

\* The uses of a requirement are summed over rows that stay as they were.
LEMMA ConsumedKept ==
  ASSUME TypeOK, [Next]_vars, NEW q \in Requirement, run[RunOf[q]].status = "completed"
  PROVE  Consumed(q)' = Consumed(q)
<1> DEFINE Rows == {k \in DOMAIN reservation : reservation[k].requirement = q}
           f == [k \in DOMAIN reservation |-> reservation[k].consumed]
           g == [k \in DOMAIN reservation' |-> reservation'[k].consumed]
<1>1. HistoryKept(RunOf[q])
  BY CompletedKept, PackagingAssumption
<1>2. /\ DOMAIN reservation \subseteq DOMAIN reservation'
      /\ \A k \in DOMAIN reservation : reservation'[k].requirement = reservation[k].requirement
  BY ReservationSteps DEF ReservationChange
<1>3. \A k \in Rows : reservation'[k] = reservation[k]
  BY <1>1 DEF HistoryKept, RowsOf
<1>4. {k \in DOMAIN reservation' : reservation'[k].requirement = q} = Rows
  BY <1>1, <1>2 DEF HistoryKept
<1>5. IsFiniteSet(Rows)
  <2>1. Rows \in SUBSET ReserveKey
    BY DEF TypeOK
  <2> QED BY <2>1, PackagingAssumption, FS_Subset
<1>6. \A k \in Rows : f[k] \in Int /\ g[k] = f[k]
  BY <1>2, <1>3 DEF TypeOK, ReservationRow
<1>7. SumFunctionOnSet(g, Rows) = SumFunctionOnSet(f, Rows)
  <2> HIDE DEF Rows, f, g
  <2> QED BY <1>5, <1>6, SumSame
<1> QED BY <1>4, <1>7 DEF Consumed

\* CompletedRunPacked: what a run used when it completed is what its rows say
\* for good, whoever still sends commands about them.
THEOREM CompletedRunsPacked == Spec => []CompletedRunPacked
<1>1. Init => CompletedRunPacked
  BY PackagingAssumption DEF Init, CompletedRunPacked
<1>2. TypeOK /\ CompletedRunPacked /\ [Next]_vars => CompletedRunPacked'
  <2> SUFFICES ASSUME TypeOK, CompletedRunPacked, [Next]_vars, NEW q \in Requirement,
                      run'[RunOf[q]].status = "completed"
               PROVE  Consumed(q)' >= Needed[q]
    BY DEF CompletedRunPacked
  <2> DEFINE p == RunOf[q]
  <2>1. p \in Run /\ run \in [Run -> RunRow]
    BY PackagingAssumption DEF TypeOK
  <2>2. CASE run[p].status = "completed"
    BY <2>2, ConsumedKept DEF CompletedRunPacked
  <2>3. CASE run[p].status # "completed"
    <3>1. PICK x \in Run : RunCommand(x)
      BY <2>3, ReservationScope, MovementScope DEF Next, vars, packagingVars
    <3>2. CompleteRun(x) /\ x = p
      BY <2>1, <2>3, <3>1
      DEF RunCommand, CreateRun, AllocateBulk, ReleaseBulk, TransferBulk, ReconcileRun, CompleteRun,
          RunRow
    <3>3. Consumed(q) >= Needed[q] /\ reservation' = reservation
      BY <3>2 DEF CompleteRun, CompletionReady
    <3> QED BY <3>3 DEF Consumed
  <2> QED BY <2>2, <2>3
<1> QED BY <1>1, <1>2, PackagingTyped, PTL DEF Spec

-----------------------------------------------------------------------------
(* What is promised of a lot *)

\* What every row still promises of one lot.
Pledge(rows, l) ==
  [k \in DOMAIN rows |-> IF rows[k].lot = l /\ rows[k].status = "open" THEN Rest(rows[k]) ELSE 0]

LEMMA PledgeSum ==
  ASSUME NEW rows, Table(rows), NEW l
  PROVE  /\ IsFiniteSet(DOMAIN rows)
         /\ \A k \in DOMAIN rows : Pledge(rows, l)[k] \in Int
         /\ Promised(rows, l) = SumFunctionOnSet(Pledge(rows, l), DOMAIN rows)
         /\ Promised(rows, l) \in Int
<1> DEFINE rest == [k \in DOMAIN rows |-> Rest(rows[k])]
           R == OnLot(rows, l)
           S == DOMAIN rows
           pledge == Pledge(rows, l)
<1>1. IsFiniteSet(S)
  BY PackagingAssumption, FS_Subset DEF Table
<1>2. \A k \in S : rest[k] \in Int /\ pledge[k] \in Int
  BY DEF Table, ReservationRow, Rest, Pledge
<1>3. \A k \in R : rest[k] \in Int /\ pledge[k] = rest[k]
  BY <1>2 DEF Pledge, OnLot
<1>4. \A k \in S \ R : pledge[k] = 0
  BY DEF Pledge, OnLot
<1>5. R \in SUBSET S
  BY DEF OnLot
<1>6. Promised(rows, l) = SumFunctionOnSet(rest, R)
  BY DEF Promised
<1> HIDE DEF rest, R, S, pledge
<1>7. SumFunctionOnSet(pledge, S) = SumFunctionOnSet(rest, R)
  BY <1>1, <1>3, <1>4, <1>5, SumRestrict
<1>8. SumFunctionOnSet(pledge, S) \in Int
  BY <1>1, <1>2, SumInt
<1> QED BY <1>1, <1>2, <1>6, <1>7, <1>8 DEF S, pledge

\* A new reservation promises its quantity of its lot, and nothing of another.
LEMMA InsertPromises ==
  ASSUME NEW rows, Table(rows), NEW k \in ReserveKey, NEW q \in Requirement,
         NEW l \in Lot, NEW n \in Nat, k \notin DOMAIN rows, NEW x \in Lot
  PROVE  Promised(WithReservation(rows, k, q, l, n), x)
           = Promised(rows, x) + (IF x = l THEN n ELSE 0)
<1> DEFINE row == [requirement |-> q, lot |-> l, reserved |-> n, consumed |-> 0,
                   wasted |-> 0, status |-> "open"]
           new == WithReservation(rows, k, q, l, n)
           D == DOMAIN rows
           f == Pledge(rows, x)
           g == Pledge(new, x)
<1>1. Table(new) /\ DOMAIN new = D \cup {k}
  <2>1. Inserted(rows, k, q, new)
    BY InsertReservation
  <2> HIDE DEF new
  <2> QED BY <2>1 DEF Inserted
<1>2. new[k] = row /\ \A y \in D : new[y] = rows[y]
  BY DEF WithReservation
<1>3. g[k] = IF x = l THEN n ELSE 0
  BY <1>1, <1>2 DEF Pledge, Rest
<1>4. \A y \in D : f[y] \in Int /\ g[y] = f[y]
  <2> HIDE DEF new
  <2> QED BY <1>1, <1>2, PledgeSum DEF Pledge
<1>5. IsFiniteSet(D) /\ Promised(rows, x) = SumFunctionOnSet(f, D) /\ Promised(rows, x) \in Int
  BY PledgeSum
<1>6. Promised(new, x) = SumFunctionOnSet(g, D \cup {k})
  <2> HIDE DEF new
  <2> QED BY <1>1, PledgeSum
<1>7. \A y \in D \cup {k} : g[y] \in Int
  BY <1>3, <1>4
<1> HIDE DEF f, g, new, D
<1>8. SumFunctionOnSet(g, D \cup {k}) = g[k] + SumFunctionOnSet(g, D)
  <2>1. k \notin D
    BY DEF D
  <2> QED BY <1>5, <1>7, <2>1, SumAdd
<1>9. SumFunctionOnSet(g, D) = SumFunctionOnSet(f, D)
  BY <1>4, <1>5, SumSame
<1>10. Promised(new, x) = (IF x = l THEN n ELSE 0) + Promised(rows, x)
  BY <1>3, <1>5, <1>6, <1>8, <1>9
<1> QED BY <1>5, <1>10 DEF new

\* What a single row promises of a lot.
Share(row, x) == IF row.lot = x /\ row.status = "open" THEN Rest(row) ELSE 0

\* A row that is rewritten moves its own share and no other.
LEMMA RewritePromises ==
  ASSUME NEW rows, Table(rows), NEW k \in DOMAIN rows, NEW row \in ReservationRow, NEW x \in Lot
  PROVE  Promised([rows EXCEPT ![k] = row], x)
           = Promised(rows, x) + (Share(row, x) - Share(rows[k], x))
<1> DEFINE new == [rows EXCEPT ![k] = row]
           D == DOMAIN rows
           f == Pledge(new, x)
           g == Pledge(rows, x)
<1>1. Table(new) /\ DOMAIN new = D
  BY DEF Table
<1>2. new[k] = row /\ \A y \in D \ {k} : new[y] = rows[y]
  BY DEF Table
<1>3. IsFiniteSet(D) /\ \A y \in D : f[y] \in Int /\ g[y] \in Int
  <2> HIDE DEF new
  <2> QED BY <1>1, PledgeSum
<1>4. Promised(new, x) = SumFunctionOnSet(f, D) /\ Promised(rows, x) = SumFunctionOnSet(g, D)
  <2> HIDE DEF new
  <2> QED BY <1>1, PledgeSum
<1>5. \A y \in D \ {k} : f[y] = g[y]
  <2> HIDE DEF new
  <2> QED BY <1>1, <1>2 DEF Pledge
<1>6. f[k] = Share(row, x) /\ g[k] = Share(rows[k], x)
  <2> HIDE DEF new
  <2> QED BY <1>1, <1>2 DEF Pledge, Share
<1> HIDE DEF f, g, new
<1>7. SumFunctionOnSet(f, D) = SumFunctionOnSet(g, D) + (f[k] - g[k])
  BY <1>3, <1>5, SumUpdate
<1> QED BY <1>4, <1>6, <1>7 DEF new

\* No reservation is used beyond what it reserved.
UsesWithin == \A k \in DOMAIN reservation : Rest(reservation[k]) >= 0

\* The row a use leaves behind.
LEMMA UseRow ==
  ASSUME NEW old \in ReservationRow, NEW productive \in BOOLEAN, NEW n \in Nat,
         n <= Rest(old)
  PROVE  LET used == IF productive THEN [old EXCEPT !.consumed = @ + n]
                                   ELSE [old EXCEPT !.wasted = @ + n]
             row == Settle(used)
         IN  /\ row \in ReservationRow
             /\ row.lot = old.lot
             /\ row.status = old.status \/ (row.status = "fulfilled" /\ Rest(row) = 0)
             /\ Rest(row) = Rest(old) - n
             /\ Rest(row) >= 0
<1> DEFINE used == IF productive THEN [old EXCEPT !.consumed = @ + n]
                                 ELSE [old EXCEPT !.wasted = @ + n]
           row == Settle(used)
<1>1. used \in ReservationRow
  BY DEF ReservationRow
<1>2. used.lot = old.lot /\ used.status = old.status
  BY DEF ReservationRow
<1>3. Rest(used) = Rest(old) - n
  BY DEF ReservationRow, Rest
<1>4. Rest(old) \in Int
  BY DEF ReservationRow, Rest
<1> HIDE DEF used
<1>5. /\ row \in ReservationRow
      /\ row.lot = used.lot
      /\ row.status = used.status \/ (row.status = "fulfilled" /\ Rest(row) = 0)
      /\ Rest(row) = Rest(used)
  BY <1>1 DEF Settle, ReservationRow, Rest
<1> HIDE DEF row
<1>6. Rest(row) >= 0
  BY <1>3, <1>4, <1>5
<1> QED BY <1>2, <1>3, <1>5, <1>6 DEF row, used

LEMMA StepUses ==
  ASSUME TypeOK, UsesWithin, [Next]_vars
  PROVE  UsesWithin'
<1>1. Table(reservation)
  BY DEF TypeOK, Table
<1>2. ASSUME NEW rows, Table(rows), NEW k \in ReserveKey, NEW q \in Requirement, NEW l \in Lot,
             NEW n \in Nat, k \notin DOMAIN rows, \A x \in DOMAIN rows : Rest(rows[x]) >= 0
      PROVE  \A x \in DOMAIN WithReservation(rows, k, q, l, n) :
               Rest(WithReservation(rows, k, q, l, n)[x]) >= 0
  BY <1>2 DEF WithReservation, Rest
<1>3. CASE UNCHANGED reservation
  BY <1>3 DEF UsesWithin
<1>4. ASSUME NEW k \in ReserveKey, NEW q \in Requirement, NEW l \in Lot, NEW n \in Recorded,
             Reserve(k, q, l, n)
      PROVE  UsesWithin'
  <2>1. n \in Nat /\ k \notin DOMAIN reservation
    BY <1>4, OutputAssumption DEF Recorded, Reserve, Reservable
  <2>2. \A x \in DOMAIN WithReservation(reservation, k, q, l, n) :
          Rest(WithReservation(reservation, k, q, l, n)[x]) >= 0
    BY <1>1, <1>2, <2>1 DEF UsesWithin
  <2> QED BY <1>4, <2>2 DEF Reserve, UsesWithin
<1>5. ASSUME NEW k1 \in ReserveKey, NEW q1 \in Requirement, NEW l1 \in Lot, NEW n1 \in Recorded,
             NEW k2 \in ReserveKey, NEW q2 \in Requirement, NEW l2 \in Lot, NEW n2 \in Recorded,
             ReserveAll(k1, q1, l1, n1, k2, q2, l2, n2)
      PROVE  UsesWithin'
  <2> DEFINE first == WithReservation(reservation, k1, q1, l1, n1)
  <2>1. n1 \in Nat /\ n2 \in Nat /\ k1 \notin DOMAIN reservation /\ k2 \notin DOMAIN first
    BY <1>5, OutputAssumption DEF Recorded, ReserveAll, ReservableNext, Reservable
  <2>2. Table(first)
    <3>1. Inserted(reservation, k1, q1, first)
      BY <1>1, <2>1, InsertReservation
    <3> HIDE DEF first
    <3> QED BY <3>1 DEF Inserted
  <2>3. \A x \in DOMAIN first : Rest(first[x]) >= 0
    BY <1>1, <1>2, <2>1 DEF UsesWithin
  <2>4. reservation' = WithReservation(first, k2, q2, l2, n2)
    BY <1>5 DEF ReserveAll
  <2> HIDE DEF first
  <2>5. \A x \in DOMAIN WithReservation(first, k2, q2, l2, n2) :
          Rest(WithReservation(first, k2, q2, l2, n2)[x]) >= 0
    BY <1>2, <2>1, <2>2, <2>3
  <2> QED BY <2>4, <2>5 DEF UsesWithin
<1>6. ASSUME NEW k \in ReserveKey, ReleaseReservation(k)
      PROVE  UsesWithin'
  BY <1>1, <1>6 DEF ReleaseReservation, Open, UsesWithin, Table, ReservationRow, Rest
<1>7. ASSUME NEW k \in ReserveKey, NEW productive \in BOOLEAN, NEW n \in Recorded,
             UseComponents(k, productive, n)
      PROVE  UsesWithin'
  <2> DEFINE old == reservation[k]
             used == IF productive THEN [old EXCEPT !.consumed = @ + n]
                                   ELSE [old EXCEPT !.wasted = @ + n]
             row == Settle(used)
  <2>1. k \in DOMAIN reservation /\ n \in Nat /\ n <= Rest(old)
        /\ reservation' = [reservation EXCEPT ![k] = row]
    BY <1>7, OutputAssumption DEF Recorded, UseComponents, Open, Usable
  <2>2. old \in ReservationRow
    BY <1>1, <2>1 DEF Table
  <2>3. Rest(row) >= 0
    <3> HIDE DEF old
    <3> QED BY <2>1, <2>2, UseRow
  <2> HIDE DEF row
  <2> QED BY <1>1, <2>1, <2>3 DEF UsesWithin, Table
<1> QED
  BY <1>3, <1>4, <1>5, <1>6, <1>7
  DEF Next, vars, packagingVars, ReservationCommand, OtherMovement, RunCommand, CreateRun,
      AllocateBulk, ReleaseBulk, TransferBulk, ReconcileRun, CompleteRun

LEMMA ReservePromises ==
  ASSUME TypeOK, NEW rows, Table(rows), NEW k \in ReserveKey, NEW q \in Requirement,
         NEW l \in Lot, NEW n \in Recorded, Reservable(rows, k, q, l, n), NEW x \in Lot
  PROVE  LET new == WithReservation(rows, k, q, l, n) IN
         /\ Table(new)
         /\ Promised(rows, x) \in Int /\ Promised(new, x) \in Int
         /\ x # l => Promised(new, x) = Promised(rows, x)
         /\ x = l => Promised(new, x) > Promised(rows, x) /\ Promised(new, x) <= balance[x]
<1> DEFINE new == WithReservation(rows, k, q, l, n)
<1>1. n \in Nat /\ n > 0 /\ k \notin DOMAIN rows /\ n <= balance[l] - Promised(rows, l)
  BY OutputAssumption DEF Recorded, Reservable, Available
<1>2. Table(new)
  <2>1. Inserted(rows, k, q, new)
    BY <1>1, InsertReservation
  <2> HIDE DEF new
  <2> QED BY <2>1 DEF Inserted
<1>3. Promised(new, x) = Promised(rows, x) + (IF x = l THEN n ELSE 0)
  BY <1>1, InsertPromises
<1>4. Promised(rows, x) \in Int
  BY PledgeSum
<1>5. balance[x] \in Int
  BY DEF TypeOK
<1> HIDE DEF new
<1> QED BY <1>1, <1>2, <1>3, <1>4, <1>5 DEF new

\* What a step makes of promises and balances: some are made and each is
\* covered, one is used up with its components, some are given up, or the
\* components of one lot move and the promises stay.
PromisesMade ==
  /\ balance' = balance
  /\ \A x \in Lot : \/ Promised(reservation', x) = Promised(reservation, x)
                    \/ /\ Promised(reservation', x) > Promised(reservation, x)
                       /\ Promised(reservation', x) <= balance[x]
PromiseUsed(l, n) ==
  /\ balance'[l] = balance[l] - n
  /\ \A x \in Lot \ {l} : balance'[x] = balance[x]
  /\ \A x \in Lot : Promised(reservation', x) = Promised(reservation, x) - (IF x = l THEN n ELSE 0)
PromisesGivenUp ==
  /\ balance' = balance
  /\ \A x \in Lot : Promised(reservation', x) <= Promised(reservation, x)
ComponentsMoved(l) ==
  /\ reservation' = reservation
  /\ \A x \in Lot \ {l} : balance'[x] = balance[x]

LEMMA ReservePromised ==
  ASSUME TypeOK, NEW k \in ReserveKey, NEW q \in Requirement, NEW l \in Lot, NEW n \in Recorded,
         Reserve(k, q, l, n)
  PROVE  PromisesMade
<1> DEFINE new == WithReservation(reservation, k, q, l, n)
<1>1. Table(reservation)
  BY DEF TypeOK, Table
<1>2. Reservable(reservation, k, q, l, n) /\ reservation' = new /\ balance' = balance
  BY DEF Reserve
<1>3. \A x \in Lot :
        /\ x # l => Promised(new, x) = Promised(reservation, x)
        /\ x = l => Promised(new, x) > Promised(reservation, x) /\ Promised(new, x) <= balance[x]
  BY <1>1, <1>2, ReservePromises
<1> HIDE DEF new
<1> QED BY <1>2, <1>3 DEF PromisesMade

\* The second candidate is checked against what the first one left.
LEMMA ReserveAllPromised ==
  ASSUME TypeOK,
         NEW k1 \in ReserveKey, NEW q1 \in Requirement, NEW l1 \in Lot, NEW n1 \in Recorded,
         NEW k2 \in ReserveKey, NEW q2 \in Requirement, NEW l2 \in Lot, NEW n2 \in Recorded,
         ReserveAll(k1, q1, l1, n1, k2, q2, l2, n2)
  PROVE  PromisesMade
<1> DEFINE first == WithReservation(reservation, k1, q1, l1, n1)
           new == WithReservation(first, k2, q2, l2, n2)
<1>1. Table(reservation)
  BY DEF TypeOK, Table
<1>2. /\ Reservable(reservation, k1, q1, l1, n1) /\ Reservable(first, k2, q2, l2, n2)
      /\ reservation' = new /\ balance' = balance
  BY DEF ReserveAll, ReservableNext
<1> SUFFICES ASSUME NEW x \in Lot
             PROVE  \/ Promised(new, x) = Promised(reservation, x)
                    \/ Promised(new, x) > Promised(reservation, x) /\ Promised(new, x) <= balance[x]
  <2> HIDE DEF new
  <2> QED BY <1>2 DEF PromisesMade
<1>3. /\ Table(first)
      /\ Promised(reservation, x) \in Int /\ Promised(first, x) \in Int
      /\ x # l1 => Promised(first, x) = Promised(reservation, x)
      /\ x = l1 => Promised(first, x) > Promised(reservation, x) /\ Promised(first, x) <= balance[x]
  BY <1>1, <1>2, ReservePromises
<1> HIDE DEF first
<1>4. /\ Promised(new, x) \in Int
      /\ x # l2 => Promised(new, x) = Promised(first, x)
      /\ x = l2 => Promised(new, x) > Promised(first, x) /\ Promised(new, x) <= balance[x]
  BY <1>2, <1>3, ReservePromises
<1> HIDE DEF new
<1> QED BY <1>3, <1>4

LEMMA ReleasePromised ==
  ASSUME TypeOK, UsesWithin, NEW k, ReleaseReservation(k)
  PROVE  PromisesGivenUp
<1>1. Table(reservation)
  BY DEF TypeOK, Table
<1> DEFINE old == reservation[k]
           row == [old EXCEPT !.status = "released"]
<1>2. k \in DOMAIN reservation /\ reservation' = [reservation EXCEPT ![k] = row]
      /\ balance' = balance
  BY DEF ReleaseReservation, Open
<1>3. old \in ReservationRow /\ Rest(old) \in Int /\ Rest(old) >= 0
  BY <1>1, <1>2 DEF Table, ReservationRow, Rest, UsesWithin
<1>4. row \in ReservationRow /\ row.status = "released"
  BY <1>3 DEF ReservationRow
<1> HIDE DEF row
<1> SUFFICES ASSUME NEW x \in Lot
             PROVE  Promised(reservation', x) <= Promised(reservation, x)
  BY <1>2 DEF PromisesGivenUp
<1>5. Promised(reservation', x) = Promised(reservation, x) + (Share(row, x) - Share(old, x))
  BY <1>1, <1>2, <1>4, RewritePromises
<1>6. Share(row, x) = 0 /\ Share(old, x) \in Int /\ Share(old, x) >= 0
  BY <1>3, <1>4 DEF Share
<1>7. Promised(reservation, x) \in Int
  BY <1>1, PledgeSum
<1> QED BY <1>5, <1>6, <1>7

\* A use takes as much from the lot as from what is promised of it, whether it
\* is the row's last or not.
LEMMA UsePromised ==
  ASSUME TypeOK, NEW k, NEW productive \in BOOLEAN, NEW n \in Recorded,
         UseComponents(k, productive, n)
  PROVE  \E l \in Lot : n > 0 /\ PromiseUsed(l, n)
<1> DEFINE old == reservation[k]
           used == IF productive THEN [old EXCEPT !.consumed = @ + n]
                                 ELSE [old EXCEPT !.wasted = @ + n]
           row == Settle(used)
           l == old.lot
<1>1. Table(reservation)
  BY DEF TypeOK, Table
<1>2. k \in DOMAIN reservation /\ n \in Nat /\ n > 0 /\ n <= Rest(old) /\ old.status = "open"
      /\ reservation' = [reservation EXCEPT ![k] = row]
      /\ balance' = [balance EXCEPT ![l] = @ - n]
  BY OutputAssumption DEF Recorded, UseComponents, Open, Usable
<1>3. old \in ReservationRow /\ Rest(old) \in Int /\ l \in Lot
  BY <1>1, <1>2 DEF Table, ReservationRow, Rest
<1>4. /\ row \in ReservationRow /\ row.lot = l /\ Rest(row) = Rest(old) - n
      /\ row.status = "open" \/ (row.status = "fulfilled" /\ Rest(row) = 0)
  <2> HIDE DEF old
  <2> QED BY <1>2, <1>3, UseRow
<1> HIDE DEF row
<1>5. /\ balance'[l] = balance[l] - n
      /\ \A x \in Lot \ {l} : balance'[x] = balance[x]
  BY <1>2, <1>3 DEF TypeOK
<1>6. ASSUME NEW x \in Lot
      PROVE  Promised(reservation', x) = Promised(reservation, x) - (IF x = l THEN n ELSE 0)
  <2>1. Promised(reservation', x) = Promised(reservation, x) + (Share(row, x) - Share(old, x))
    BY <1>1, <1>2, <1>4, RewritePromises
  <2>2. Share(old, x) = IF x = l THEN Rest(old) ELSE 0
    BY <1>2 DEF Share
  <2>3. Share(row, x) = IF x = l THEN Rest(old) - n ELSE 0
    BY <1>4 DEF Share
  <2>4. Promised(reservation, x) \in Int
    BY <1>1, PledgeSum
  <2> QED BY <1>2, <1>3, <2>1, <2>2, <2>3, <2>4
<1> HIDE DEF l
<1> QED BY <1>2, <1>3, <1>5, <1>6 DEF PromiseUsed

LEMMA PromiseCases ==
  ASSUME TypeOK, UsesWithin, [Next]_vars
  PROVE  \/ PromisesMade
         \/ \E l \in Lot, n \in Recorded : n > 0 /\ PromiseUsed(l, n)
         \/ PromisesGivenUp
         \/ \E l \in Lot : ComponentsMoved(l)
<1>1. \A x \in Lot : Promised(reservation, x) \in Int
  BY PledgeSum DEF TypeOK, Table
<1>2. ASSUME UNCHANGED <<reservation, balance>> PROVE PromisesMade
  BY <1>2 DEF PromisesMade
<1>3. CASE OutputNext /\ UNCHANGED packagingVars
  BY <1>2, <1>3 DEF packagingVars
<1>4. ASSUME NEW p, RunCommand(p) PROVE PromisesMade
  BY <1>2, <1>4
  DEF RunCommand, CreateRun, AllocateBulk, ReleaseBulk, TransferBulk, ReconcileRun, CompleteRun
<1>5. ASSUME NEW l \in Lot, NEW change, OtherMovement(l, change) PROVE ComponentsMoved(l)
  BY <1>5 DEF OtherMovement, ComponentsMoved, TypeOK
<1>6. CASE UNCHANGED vars
  BY <1>2, <1>6 DEF vars
<1>7. ASSUME NEW k \in ReserveKey, ReservationCommand(k)
      PROVE  \/ PromisesMade
             \/ \E l \in Lot, n \in Recorded : n > 0 /\ PromiseUsed(l, n)
             \/ PromisesGivenUp
  BY <1>7, ReservePromised, ReserveAllPromised, ReleasePromised, UsePromised
  DEF ReservationCommand
<1> QED BY <1>3, <1>4, <1>5, <1>6, <1>7 DEF Next

LEMMA StepPromises ==
  ASSUME TypeOK, TypeOK', UsesWithin, [Next]_vars
  PROVE  [Components!Next]_Components!vars
<1> DEFINE promised == [l \in Lot |-> Promised(reservation, l)]
<1>1. \A l \in Lot : /\ promised[l] = Promised(reservation, l)
                     /\ promised'[l] = Promised(reservation', l)
                     /\ promised[l] \in Int
                     /\ balance[l] \in Nat /\ balance'[l] \in Nat
  BY PledgeSum DEF TypeOK, Table
<1> HIDE DEF promised
<1>2. CASE PromisesMade
  BY <1>1, <1>2 DEF PromisesMade, Components!Next, Components!MakePromises, promised
<1>3. CASE PromisesGivenUp
  BY <1>1, <1>3 DEF PromisesGivenUp, Components!Next, Components!GiveUp, promised
<1>4. ASSUME NEW l \in Lot, NEW n \in Recorded, n > 0, PromiseUsed(l, n)
      PROVE  Components!Next
  <2>1. n \in Nat
    BY OutputAssumption DEF Recorded
  <2>2. /\ balance'[l] < balance[l] /\ balance'[l] >= 0
        /\ promised[l] - promised'[l] = balance[l] - balance'[l]
    BY <1>1, <1>4, <2>1 DEF PromiseUsed
  <2>3. \A x \in Lot \ {l} : balance'[x] = balance[x] /\ promised'[x] = promised[x]
    BY <1>1, <1>4 DEF PromiseUsed
  <2> QED
    BY <2>2, <2>3 DEF Components!Next, Components!UsePromise, Components!OthersKept, promised
<1>5. ASSUME NEW l \in Lot, ComponentsMoved(l)
      PROVE  Components!Next
  <2>1. \A x \in Lot : promised'[x] = promised[x]
    BY <1>1, <1>5 DEF ComponentsMoved
  <2> QED
    BY <1>1, <1>5, <2>1
    DEF ComponentsMoved, Components!Next, Components!Move, Components!OthersKept, promised
<1> QED BY <1>2, <1>3, <1>4, <1>5, PromiseCases

\* The reservations of components implement the stock of promises: a new one,
\* alone or among several in one request, is covered, components leave with the
\* promise they were held under, and only a movement that ignores reservations
\* can leave one without its components.
THEOREM ComponentPromisesKept == Spec => KeepsComponentPromises
<1>1. Init => Components!Init /\ UsesWithin
  <2> SUFFICES ASSUME Init PROVE Components!Init /\ UsesWithin
    OBVIOUS
  <2>1. \A l \in Lot : Promised(reservation, l) = 0
    <3>1. \A l \in Lot : OnLot(reservation, l) = {}
      BY DEF Init, OnLot
    <3> QED BY <3>1, SumEmpty DEF Promised
  <2>2. \A l \in Lot : balance[l] >= 0
    BY PackagingAssumption DEF Init
  <2> QED BY <2>1, <2>2 DEF Components!Init, Init, UsesWithin
<1>2. TypeOK /\ UsesWithin /\ [Next]_vars => UsesWithin'
  BY StepUses
<1>3. TypeOK /\ TypeOK' /\ UsesWithin /\ [Next]_vars => [Components!Next]_Components!vars
  BY StepPromises
<1> QED
  BY <1>1, <1>2, <1>3, PackagingTyped, PTL DEF Spec, KeepsComponentPromises, Components!Spec
=============================================================================
