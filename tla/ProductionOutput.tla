--------------------------- MODULE ProductionOutput ---------------------------
(***************************************************************************)
(* The bulk a completed production run made: created, measured, divided    *)
(* into components, reconciled and completed with the run's output stage.  *)
(*                                                                         *)
(* Every operation is one PL/pgSQL function that locks the production run  *)
(* or the output it writes, hence one action.  A caller may send any       *)
(* command at any moment with the revision it read last; the functions     *)
(* reject a stale revision and answer a repeated idempotency key without   *)
(* writing, so neither is a step, and as the current revision is always    *)
(* one a caller may send, revisions are left out.                          *)
(*                                                                         *)
(* Quantities are normalised (kf_output_normalize) whole units.  The run   *)
(* is the one the outputs belong to; its material is already completed.    *)
(***************************************************************************)
EXTENDS Integers, FiniteSetsExt

CONSTANTS
  Output,       \* production_outputs of the run
  Tolerances,   \* tolerances a caller may pass to the reconciliation
  MaxQuantity   \* bound: the largest quantity one command records

ASSUME OutputAssumption ==
  /\ Tolerances \subseteq Nat
  /\ MaxQuantity \in Nat

VARIABLES
  output,       \* production_outputs, the latest measurement and the components
  stage         \* production_runs.output_stage_status

outputVars == <<output, stage>>

\* 'transferred' enters the same sums as 'bulk_waste' and stands with it.
Component == {"retained_bulk", "bulk_waste", "unexplained_variance"}

\* Zero stands for no measurement or component: one of zero, which the tables
\* accept, is left out.
OutputRow ==
  [status: {"none", "draft", "measured", "reconciled", "completed"},
   measured: Nat, component: [Component -> Nat], approved: BOOLEAN]

OutputTypeOK ==
  /\ output \in [Output -> OutputRow]
  /\ stage \in {"not_started", "in_progress", "completed"}

OutputInit ==
  /\ output = [o \in Output |->
       [status |-> "none", measured |-> 0, component |-> [c \in Component |-> 0],
        approved |-> FALSE]]
  /\ stage = "not_started"

-----------------------------------------------------------------------------
Recorded == 1 .. MaxQuantity

\* MUTANT: a completed output may still be written.
AnyExisting(o) == output[o].status # "none"
Mutable(o) == output[o].status \notin {"none", "completed"}

Explained(o) == SumFunctionOnSet(output[o].component, Component)
Difference(o) == output[o].measured - Explained(o)

CreateOutput(o) ==
  /\ output[o].status = "none"
  /\ output' = [output EXCEPT ![o].status = "draft"]
  /\ stage' = "in_progress"

Measure(o, n) ==
  /\ Mutable(o)
  /\ output' = [output EXCEPT ![o].status = "measured", ![o].measured = n]
  /\ UNCHANGED stage

\* Each component is recorded once: (workspace, output, type) is unique.
RecordComponent(o, c, n, approved) ==
  /\ Mutable(o)
  /\ output[o].component[c] = 0
  /\ output' = [output EXCEPT ![o].component[c] = n,
                              ![o].approved = @ \/ (c = "unexplained_variance" /\ approved)]
  /\ UNCHANGED stage

\* approve carries the reason and the evidence an approval needs.
ReconcileOutput(o, tolerance, approve) ==
  /\ Mutable(o)
  /\ output[o].measured > 0
  /\ Difference(o) \in -tolerance .. tolerance
  /\ output[o].component["unexplained_variance"] > tolerance => approve
  /\ output' = [output EXCEPT ![o].status = "reconciled"]
  /\ UNCHANGED stage

\* MUTANT: only the reconciliation is looked at.
Reconciled(o) == output[o].status \in {"none", "reconciled", "completed"}
\* What kf_production_output_readiness_v1 asks of one output.
Settled(o) ==
  /\ output[o].status \in {"none", "reconciled", "completed"}
  /\ output[o].component["unexplained_variance"] > 0 => output[o].approved

CompleteStage ==
  /\ \E o \in Output : output[o].status # "none"
  /\ \A o \in Output : Settled(o)
  /\ stage' = "completed"
  /\ output' = [o \in Output |->
       IF output[o].status = "reconciled" THEN [output[o] EXCEPT !.status = "completed"]
                                          ELSE output[o]]

OutputNext ==
  \/ CompleteStage
  \/ \E o \in Output :
       \/ CreateOutput(o)
       \/ \E n \in Recorded :
            \/ Measure(o, n)
            \/ \E c \in Component, approved \in BOOLEAN : RecordComponent(o, c, n, approved)
       \/ \E tolerance \in Tolerances, approve \in BOOLEAN :
            ReconcileOutput(o, tolerance, approve)
-----------------------------------------------------------------------------
(* Properties *)

\* Downstream bulk is drawn from a completed output, so nothing about it may
\* change any more, and no variance of it is left without approval, however
\* often the stage is reopened by a further output.
CompletedOutputFixed ==
  [][\A o \in Output : output[o].status = "completed" => output'[o] = output[o]]_outputVars

VarianceApproved ==
  \A o \in Output :
    output[o].status = "completed" /\ output[o].component["unexplained_variance"] > 0
      => output[o].approved
=============================================================================
