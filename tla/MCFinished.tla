------------------------------ MODULE MCFinished ------------------------------
(***************************************************************************)
(* Small instances of ActiveInventory for TLC: two lots of one run, and up *)
(* to two releases of the first.                                           *)
(***************************************************************************)
EXTENDS ActiveInventory, TLC

CONSTANTS r1, l1, l2, t1, t2

OneRun == [l \in Lot |-> r1]
FromFirst == [t \in Tranche |-> l1]

KeySymmetry == Permutations(Person) \cup Permutations(Tranche) \cup Permutations(Location)
                 \cup Permutations(WriteOff)
=============================================================================
