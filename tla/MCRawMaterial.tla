---------------------------- MODULE MCRawMaterial ----------------------------
(***************************************************************************)
(* Instances of RawMaterialControl for TLC.  One batch with one material   *)
(* line, and one lot of two units that two reservations compete for.       *)
(***************************************************************************)
EXTENDS RawMaterialControl, TLC

CONSTANTS b1, q1, l1

OneBatch == q1 :> b1
EveryLot == [q \in Requirement |-> Lot]
TwoUnits == [l \in Lot |-> 2]
NoTolerance == [q \in Requirement |-> 0]

KeySymmetry ==
  Permutations(ReserveKey) \cup Permutations(WeighKey) \cup Permutations(ConsumeKey)
    \cup Permutations(ReconcileKey)
=============================================================================
