----------------------------- MODULE FinishedGoods -----------------------------
(***************************************************************************)
(* What a completed packaging run made: the accepted units are recorded,   *)
(* converted into finished goods lots that start in quarantine, inspected, *)
(* and decided upon piece by piece: held, rejected or released.            *)
(*                                                                         *)
(* Every command is one PL/pgSQL function that locks the packaging run or  *)
(* the quarantine row it writes, hence one action.  A decision or a record *)
(* of quality carries the revision of the quarantine its author read; here *)
(* several people read and act at their own pace.  A repeated idempotency  *)
(* key is answered without writing and is no step.                         *)
(*                                                                         *)
(* Quantities are whole pieces.  Codes, snapshots, costs, events and the   *)
(* status labels, which no function tests, are left out.                   *)
(***************************************************************************)
EXTENDS Integers, FiniteSetsExt

CONSTANTS
  Run,          \* packaging runs
  Lot,          \* finished_goods_lots
  RunOf,        \* the packaging run of a lot
  Tranche,      \* released_finished_goods_inventory_lots, one a release
  LotOf,        \* the lot a tranche is released from
  Check,        \* the required checks of the inspection plan
  Deviation,    \* blocking or critical deviations, named while unresolved
  Person,       \* whoever reads and decides
  MaxQuantity   \* bound: the largest quantity a run accepts

\* Tables hold finitely many rows.
ASSUME GoodsAssumption ==
  /\ IsFiniteSet(Lot)
  /\ IsFiniteSet(Tranche)
  /\ RunOf \in [Lot -> Run]
  /\ LotOf \in [Tranche -> Lot]
  /\ MaxQuantity \in Nat

VARIABLES
  packed,       \* the packaging runs that are completed
  accepted,     \* accepted quantity of a run's latest reconciliation, or None
  lot,          \* finished_goods_lots
  quarantine,   \* finished_goods_quarantines
  passed,       \* checks of a lot whose latest inspection passed with evidence
  blocking,     \* unresolved blocking deviations of a lot
  seen,         \* the quarantine rows as a person read them last
  tranche       \* the quantity of a released tranche, zero before its release

goodsVars == <<packed, accepted, lot, quarantine, passed, blocking, seen, tranche>>

None == -1

Quantity == 1 .. MaxQuantity

\* fresh: there is an expiry date and it has not passed
LotRow == [quantity: Nat, fresh: BOOLEAN]
QuarantineRow == [released: Nat, rejected: Nat, held: Nat, remaining: Nat, revision: Nat]

Blank == [released |-> 0, rejected |-> 0, held |-> 0, remaining |-> 0, revision |-> 0]

GoodsTypeOK ==
  /\ packed \subseteq Run
  /\ accepted \in [Run -> Nat \cup {None}]
  /\ lot \in [Lot -> LotRow]
  /\ quarantine \in [Lot -> QuarantineRow]
  /\ passed \in [Lot -> SUBSET Check]
  /\ blocking \in [Lot -> SUBSET Deviation]
  /\ seen \in [Person -> [Lot -> QuarantineRow]]
  /\ tranche \in [Tranche -> Nat]

GoodsInit ==
  /\ packed = {}
  /\ accepted = [r \in Run |-> None]
  /\ lot = [l \in Lot |-> [quantity |-> 0, fresh |-> FALSE]]
  /\ quarantine = [l \in Lot |-> Blank]
  /\ passed = [l \in Lot |-> {}]
  /\ blocking = [l \in Lot |-> {}]
  /\ seen = [p \in Person |-> [l \in Lot |-> Blank]]
  /\ tranche = [t \in Tranche |-> 0]

-----------------------------------------------------------------------------
(* From packed units to lots in quarantine *)

Exists(l) == lot[l].quantity > 0

LotsOf(r) == {l \in Lot : RunOf[l] = r /\ Exists(l)}
Converted(r) == SumFunctionOnSet([l \in Lot |-> lot[l].quantity], LotsOf(r))

\* MUTANT: the reconciliation is not locked once a lot was made of it.
Correctable(r) == TRUE
Unlocked(r) == accepted[r] = None \/ LotsOf(r) = {}

\* The run is completed in PackagingRun, and stays so.
FinishPacking(r) ==
  /\ packed' = packed \cup {r}
  /\ UNCHANGED <<accepted, lot, quarantine, passed, blocking, seen, tranche>>

\* The reconciliation splits a packed total nobody compares with the units
\* the run really packed; only its accepted part is used later.
ReconcilePacked(r, n) ==
  /\ r \in packed
  /\ Unlocked(r)
  /\ accepted' = [accepted EXCEPT ![r] = n]
  /\ UNCHANGED <<packed, lot, quarantine, passed, blocking, seen, tranche>>

CreateLot(l, n, fresh) ==
  /\ ~Exists(l)
  /\ RunOf[l] \in packed
  /\ accepted[RunOf[l]] # None
  /\ n <= accepted[RunOf[l]] - Converted(RunOf[l])
  /\ lot' = [lot EXCEPT ![l] = [quantity |-> n, fresh |-> fresh]]
  /\ quarantine' = [quarantine EXCEPT ![l] =
       [released |-> 0, rejected |-> 0, held |-> 0, remaining |-> n, revision |-> 1]]
  /\ UNCHANGED <<packed, accepted, passed, blocking, seen, tranche>>

\* The expiry date of the lot goes by.
Expire(l) ==
  /\ Exists(l)
  /\ lot[l].fresh
  /\ lot' = [lot EXCEPT ![l].fresh = FALSE]
  /\ UNCHANGED <<packed, accepted, quarantine, passed, blocking, seen, tranche>>

-----------------------------------------------------------------------------
(* Inspection and deviations *)

Read(p, l) ==
  /\ Exists(l)
  /\ seen' = [seen EXCEPT ![p][l] = quarantine[l]]
  /\ UNCHANGED <<packed, accepted, lot, quarantine, passed, blocking, tranche>>

\* MUTANT: the revision a caller read is not compared.
Known(p, l) == Exists(l)
UpToDate(p, l) == Exists(l) /\ seen[p][l].revision = quarantine[l].revision

\* A newer inspection of a check supersedes the older one.  Anything but a
\* pass with its evidence blocks the release in the same way.
Inspect(p, l, c, pass) ==
  /\ UpToDate(p, l)
  /\ passed' = [passed EXCEPT ![l] = IF pass THEN @ \cup {c} ELSE @ \ {c}]
  /\ UNCHANGED <<packed, accepted, lot, quarantine, blocking, seen, tranche>>

OpenDeviation(p, l, d) ==
  /\ UpToDate(p, l)
  /\ quarantine[l].remaining > 0
  /\ blocking' = [blocking EXCEPT ![l] = @ \cup {d}]
  /\ UNCHANGED <<packed, accepted, lot, quarantine, passed, seen, tranche>>

\* The resolution is a new row for the old one: no lock, no revision.
ResolveDeviation(l, d) ==
  /\ d \in blocking[l]
  /\ blocking' = [blocking EXCEPT ![l] = @ \ {d}]
  /\ UNCHANGED <<packed, accepted, lot, quarantine, passed, seen, tranche>>

-----------------------------------------------------------------------------
(* Decisions *)

\* What kf_finished_goods_release_readiness_v1 asks.
ReleaseReady(l) ==
  /\ passed[l] = Check
  /\ blocking[l] = {}
  /\ lot[l].fresh

Undisposed(l, n) == n <= quarantine[l].remaining

\* MUTANT: a decision leaves the held quantity alone.
StillHeld(l, n) == quarantine[l].held
\* A release or a rejection takes from what is held first.
HeldAfter(l, n) == IF n < quarantine[l].held THEN quarantine[l].held - n ELSE 0

Decide(p, l, released, rejected, held) ==
  LET row == [released |-> released, rejected |-> rejected, held |-> held,
              remaining |-> lot[l].quantity - released - rejected,
              revision |-> quarantine[l].revision + 1]
  IN /\ quarantine' = [quarantine EXCEPT ![l] = row]
     /\ seen' = [seen EXCEPT ![p][l] = row]
     /\ UNCHANGED <<packed, accepted, lot, passed, blocking>>

Hold(p, l, n) ==
  /\ UpToDate(p, l)
  /\ n <= quarantine[l].remaining - quarantine[l].held
  /\ Decide(p, l, quarantine[l].released, quarantine[l].rejected, quarantine[l].held + n)
  /\ UNCHANGED tranche

Reject(p, l, n) ==
  /\ UpToDate(p, l)
  /\ Undisposed(l, n)
  /\ Decide(p, l, quarantine[l].released, quarantine[l].rejected + n, HeldAfter(l, n))
  /\ UNCHANGED tranche

\* Any part of what remains may be released, the held part included.
Release(p, t, n) ==
  LET l == LotOf[t] IN
  /\ tranche[t] = 0
  /\ UpToDate(p, l)
  /\ Undisposed(l, n)
  /\ ReleaseReady(l)
  /\ Decide(p, l, quarantine[l].released + n, quarantine[l].rejected, HeldAfter(l, n))
  /\ tranche' = [tranche EXCEPT ![t] = n]

\* Every step that releases nothing.
QuarantineNext ==
  \/ \E r \in Run :
       \/ FinishPacking(r)
       \/ \E n \in 0 .. MaxQuantity : ReconcilePacked(r, n)
  \/ \E l \in Lot :
       \/ \E n \in Quantity, fresh \in BOOLEAN : CreateLot(l, n, fresh)
       \/ Expire(l)
       \/ \E d \in Deviation : ResolveDeviation(l, d)
       \/ \E p \in Person :
            \/ Read(p, l)
            \/ \E c \in Check, pass \in BOOLEAN : Inspect(p, l, c, pass)
            \/ \E d \in Deviation : OpenDeviation(p, l, d)
            \/ \E n \in Quantity : Hold(p, l, n) \/ Reject(p, l, n)

-----------------------------------------------------------------------------
(* Properties *)

\* "original = released + rejected + remaining quarantine" and "remaining
\* quarantine = held + undecided": every piece of a lot is in one place only,
\* whatever decisions follow each other on the same pieces.
QuarantineEquation ==
  \A l \in Lot :
    /\ lot[l].quantity =
         quarantine[l].released + quarantine[l].rejected + quarantine[l].remaining
    /\ quarantine[l].held <= quarantine[l].remaining

\* Lots never hold more than the run accepted, even when the reconciliation is
\* corrected in between, and the tranches of a lot are what was released of it.
GoodsAccounted ==
  /\ \A r \in Run : LotsOf(r) # {} => Converted(r) <= accepted[r]
  /\ \A l \in Lot :
       quarantine[l].released = SumFunctionOnSet(tranche, {t \in Tranche : LotOf[t] = l})

\* Whoever decides has read the quantities as they are: no decision of another
\* person came in between.
DecidedOnCurrent ==
  [][\A l \in Lot :
       Exists(l) /\ quarantine'[l] # quarantine[l] =>
         \E p \in Person : seen[p][l] = quarantine[l] /\ seen'[p][l] = quarantine'[l]]_goodsVars
=============================================================================
