------------------------------ MODULE MCResearch ------------------------------
(***************************************************************************)
(* Small instances of BackgroundResearch.                                  *)
(***************************************************************************)
EXTENDS BackgroundResearch, TLC

CONSTANTS j1, c1, c2, w1, w2, h1

OneJob == {j1}
OneCall == {c1}
TwoCalls == {c1, c2}
OneReconciler == {w1}
TwoReconcilers == {w1, w2}
OneHook == {h1}
Ends == {"completed", "cancelled"}

\* Submission calls are interchangeable.
CallSymmetry == Permutations(TwoCalls)
===============================================================================
