---------------------------- MODULE MCOrchestrator ----------------------------
EXTENDS TaskRunner, TLC

CONSTANTS p1, p2, labelled, listed

Processes == {p1, p2}
Issues == {labelled, listed}
Admitted == {labelled}
Symmetry == Permutations(Processes)
=============================================================================
