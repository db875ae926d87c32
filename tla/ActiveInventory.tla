---------------------------- MODULE ActiveInventory ----------------------------
(***************************************************************************)
(* The stock of released tranches on top of FinishedGoods: a release opens *)
(* it, and from then on it is moved between locations, restricted, written *)
(* off and corrected by record_finished_goods_inventory_operation_v1.      *)
(*                                                                         *)
(* The function locks the tranche, computes its snapshot from the sums of  *)
(* movements and overlays, and refuses any request that does not carry the *)
(* current revision, the number of operations so far; what a request may   *)
(* do is thus decided on the tranche as it is and the revision is left     *)
(* out.  The variables below are those sums.                               *)
(***************************************************************************)
EXTENDS FinishedGoods

CONSTANTS
  Location,    \* where stock may lie
  WriteOff     \* bound: names of the negative movements of one tranche

ASSUME StockAssumption == IsFiniteSet(Location) /\ IsFiniteSet(WriteOff)

VARIABLES
  home,        \* the location a tranche was released to
  at,          \* the balance of a tranche at each location
  onHand,      \* the sum of a tranche's movements
  overlay,     \* held and damage-pending quantities
  writeOff     \* negative movements: kind, amount and how much was corrected

stockVars == <<home, at, onHand, overlay, writeOff>>
vars == <<packed, accepted, lot, quarantine, passed, blocking, seen, tranche,
          home, at, onHand, overlay, writeOff>>

\* block and unblock are hold and release_hold by another name.
Restriction == {"held", "damaged"}

\* Loss, destruction and negative adjustment differ in name only.
WriteOffRow == [kind: {"damage", "other"}, amount: Nat, corrected: Nat]

TypeOK ==
  /\ GoodsTypeOK
  /\ home \in [Tranche -> Location]
  /\ at \in [Tranche -> [Location -> Nat]]
  /\ onHand \in [Tranche -> Nat]
  /\ overlay \in [Tranche -> [Restriction -> Nat]]
  /\ writeOff \in [Tranche -> [WriteOff -> WriteOffRow]]

Init ==
  /\ GoodsInit
  /\ home \in [Tranche -> Location]
  /\ at = [t \in Tranche |-> [x \in Location |-> 0]]
  /\ onHand = [t \in Tranche |-> 0]
  /\ overlay = [t \in Tranche |-> [o \in Restriction |-> 0]]
  /\ writeOff = [t \in Tranche |->
       [w \in WriteOff |-> [kind |-> "other", amount |-> 0, corrected |-> 0]]]

-----------------------------------------------------------------------------
Restricted(t) == overlay[t]["held"] + overlay[t]["damaged"]

\* Loss may leave less on hand than is restricted: then nothing is available.
Covered(t, n) == lot[LotOf[t]].fresh /\ n <= onHand[t] - Restricted(t)

\* The release opens the stock of its tranche at the location it names.
ReleaseToStock(p, t, n) ==
  /\ Release(p, t, n)
  /\ at' = [at EXCEPT ![t][home[t]] = n]
  /\ onHand' = [onHand EXCEPT ![t] = n]
  /\ UNCHANGED <<home, overlay, writeOff>>

Transfer(t, n, from, to) ==
  /\ from # to
  /\ n <= at[t][from]
  /\ Covered(t, n)
  /\ at' = [at EXCEPT ![t][from] = @ - n, ![t][to] = @ + n]
  /\ UNCHANGED <<goodsVars, home, onHand, overlay, writeOff>>

\* hold, block and damage_pending
RestrictStock(t, n, o) ==
  /\ Covered(t, n)
  /\ overlay' = [overlay EXCEPT ![t][o] = @ + n]
  /\ UNCHANGED <<goodsVars, home, at, onHand, writeOff>>

\* release_hold and unblock; pending damage ends by its write-off only
LiftHold(t, n) ==
  /\ n <= overlay[t]["held"]
  /\ overlay' = [overlay EXCEPT ![t]["held"] = @ - n]
  /\ UNCHANGED <<goodsVars, home, at, onHand, writeOff>>

\* MUTANT: a write-off is compared with the whole stock only.
Somewhere(t, n, from) == n <= onHand[t]
Present(t, n, from) == n <= at[t][from]

Remove(t, n, from, w, kind) ==
  /\ writeOff[t][w].amount = 0
  /\ Present(t, n, from)
  /\ at' = [at EXCEPT ![t][from] = @ - n]
  /\ onHand' = [onHand EXCEPT ![t] = @ - n]
  /\ writeOff' = [writeOff EXCEPT ![t][w] = [kind |-> kind, amount |-> n, corrected |-> 0]]
  /\ UNCHANGED <<goodsVars, home>>

WriteOffDamage(t, n, from, w) ==
  /\ n <= overlay[t]["damaged"]
  /\ Remove(t, n, from, w, "damage")
  /\ overlay' = [overlay EXCEPT ![t]["damaged"] = @ - n]

\* What is held, blocked or damaged may be lost or destroyed as well.
WriteOffOther(t, n, from, w) ==
  /\ n <= onHand[t]
  /\ Remove(t, n, from, w, "other")
  /\ UNCHANGED overlay

\* MUTANT: each correction is compared with the basis alone.
WithinBasis(t, w, n) == n <= writeOff[t][w].amount
Uncorrected(t, w, n) == n <= writeOff[t][w].amount - writeOff[t][w].corrected

\* A correction must name a destination, but the snapshot counts it at the
\* source the request happens to carry, any location, or at the tranche's home.
Correct(t, n, counted, w) ==
  /\ Uncorrected(t, w, n)
  /\ at' = [at EXCEPT ![t][counted] = @ + n]
  /\ onHand' = [onHand EXCEPT ![t] = @ + n]
  /\ writeOff' = [writeOff EXCEPT ![t][w].corrected = @ + n]
  /\ UNCHANGED <<goodsVars, home, overlay>>

StockNext ==
  \E t \in Tranche, n \in Quantity :
    \/ \E from, to \in Location : Transfer(t, n, from, to)
    \/ \E o \in Restriction : RestrictStock(t, n, o)
    \/ LiftHold(t, n)
    \/ \E x \in Location, w \in WriteOff :
         WriteOffDamage(t, n, x, w) \/ WriteOffOther(t, n, x, w) \/ Correct(t, n, x, w)

Next ==
  \/ QuarantineNext /\ UNCHANGED stockVars
  \/ \E p \in Person, t \in Tranche, n \in Quantity : ReleaseToStock(p, t, n)
  \/ StockNext

Spec == Init /\ [][Next]_vars

-----------------------------------------------------------------------------
(* Properties *)

Outstanding(t, kinds) ==
  SumFunctionOnSet([w \in WriteOff |-> writeOff[t][w].amount - writeOff[t][w].corrected],
                   {w \in WriteOff : writeOff[t][w].kind \in kinds})

\* A tranche's pieces lie at its locations and nowhere else, stock and net
\* write-offs make up what quality released, so no order of corrections makes
\* stock, and no piece is restricted that was never released or was already
\* written off as damaged.
StockAccounted ==
  \A t \in Tranche :
    /\ onHand[t] = SumFunctionOnSet(at[t], Location)
    /\ onHand[t] + Outstanding(t, {"damage", "other"}) = tranche[t]
    /\ Restricted(t) + Outstanding(t, {"damage"}) <= tranche[t]
=============================================================================
