---------------------------- MODULE StockPromise ----------------------------
(***************************************************************************)
(* What reservations promise of the stock of lots, those of raw material   *)
(* for batches and those of components for packaging runs, without         *)
(* requirements, revisions, weighings or keys: stock that is promised was  *)
(* there when the promise was made, a promise is used up together with the *)
(* stock it stands for, and only a movement that looks at no reservation   *)
(* can leave a promise without its stock.                                  *)
(***************************************************************************)
EXTENDS Integers

CONSTANT Lot

VARIABLES
  stock,      \* what the movement ledger says of each lot
  promised    \* what the reservations still hold of each lot

vars == <<stock, promised>>

Init ==
  /\ \A l \in Lot : stock[l] >= 0
  /\ \A l \in Lot : promised[l] = 0

OthersKept(l) ==
  \A m \in Lot \ {l} : stock'[m] = stock[m] /\ promised'[m] = promised[m]

\* Promises are made or enlarged, on any number of lots at once, and each is
\* covered at that moment.
MakePromises ==
  /\ \A l \in Lot : stock'[l] = stock[l]
  /\ \A l \in Lot : \/ promised'[l] = promised[l]
                    \/ promised'[l] > promised[l] /\ promised'[l] <= stock[l]

\* The stock leaves the lot with the promise it was held under.
UsePromise(l) ==
  /\ stock'[l] < stock[l]
  /\ stock'[l] >= 0
  /\ promised[l] - promised'[l] = stock[l] - stock'[l]
  /\ OthersKept(l)

\* Promises on any number of lots are given up, the stock stays.
GiveUp ==
  /\ \A l \in Lot : stock'[l] = stock[l]
  /\ \A l \in Lot : promised'[l] <= promised[l]

\* Stock comes back, or moves without regard for the promises on it.
Move(l) ==
  /\ stock'[l] >= 0
  /\ promised'[l] = promised[l]
  /\ OthersKept(l)

Next ==
  \/ MakePromises
  \/ \E l \in Lot : UsePromise(l) \/ Move(l)
  \/ GiveUp

Spec == Init /\ [][Next]_vars
=============================================================================
