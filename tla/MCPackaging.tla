----------------------------- MODULE MCPackaging -----------------------------
(***************************************************************************)
(* Small instances of PackagingRun: one output, two runs that share it and *)
(* the lot of the one component both need.                                 *)
(***************************************************************************)
EXTENDS PackagingRun, TLC

CONSTANTS o1, p1, p2, q1, q2, l1

EveryOutput == [p \in Run |-> o1]
TwoAndOne == [p \in Run |-> IF p = p1 THEN 2 ELSE 1]
Owner == q1 :> p1 @@ q2 :> p2
NeedsOne == [q \in Requirement |-> 1]
EveryLot == [q \in Requirement |-> Lot]
Received == [l \in Lot |-> 2]
ExactTolerance == {0}

KeySymmetry == Permutations(ReserveKey)
=============================================================================
