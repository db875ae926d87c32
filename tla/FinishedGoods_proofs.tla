-------------------------- MODULE FinishedGoods_proofs -------------------------
(***************************************************************************)
(* Theorems about quarantine and release in the composed specification of  *)
(* ActiveInventory, for any runs, lots, tranches, checks, deviations,      *)
(* persons and locations and any bound on quantities.                      *)
(***************************************************************************)
EXTENDS ActiveInventory, SumTheorems, TLAPS

\* A lot that was not made yet has an empty quarantine, and nobody has read
\* a later revision than the row has, or another row under the same one.
ReadingsTrue ==
  \A l \in Lot :
    /\ ~Exists(l) => quarantine[l] = Blank
    /\ \A p \in Person :
         /\ seen[p][l].revision <= quarantine[l].revision
         /\ seen[p][l].revision = quarantine[l].revision => seen[p][l] = quarantine[l]

GoodsInv == GoodsTypeOK /\ QuarantineEquation /\ ReadingsTrue

\* A step of the goods, or one that leaves them alone.
GoodsStep ==
  \/ QuarantineNext
  \/ \E p \in Person, t \in Tranche, n \in Quantity : Release(p, t, n)
  \/ UNCHANGED goodsVars

-----------------------------------------------------------------------------
(* The composition *)

\* Movements of the released stock never touch quarantine, inspection or lots.
LEMMA StepsOfGoods == [Next]_vars => GoodsStep
<1> SUFFICES ASSUME [Next]_vars PROVE GoodsStep
  OBVIOUS
<1>1. CASE QuarantineNext /\ UNCHANGED stockVars
  BY <1>1 DEF GoodsStep
<1>2. CASE \E p \in Person, t \in Tranche, n \in Quantity : ReleaseToStock(p, t, n)
  BY <1>2 DEF GoodsStep, ReleaseToStock
<1>3. CASE StockNext
  <2>1. \A t \in Tranche, n \in Quantity, from, to \in Location :
          Transfer(t, n, from, to) => UNCHANGED goodsVars
    BY DEF Transfer
  <2>2. \A t \in Tranche, n \in Quantity :
          /\ LiftHold(t, n) => UNCHANGED goodsVars
          /\ \A o \in Restriction : RestrictStock(t, n, o) => UNCHANGED goodsVars
    BY DEF LiftHold, RestrictStock
  <2>3. \A t \in Tranche, n \in Quantity, x \in Location, w \in WriteOff :
          WriteOffDamage(t, n, x, w) \/ WriteOffOther(t, n, x, w) \/ Correct(t, n, x, w)
            => UNCHANGED goodsVars
    BY DEF WriteOffDamage, WriteOffOther, Remove, Correct
  <2> QED BY <1>3, <2>1, <2>2, <2>3 DEF StockNext, GoodsStep
<1>4. CASE UNCHANGED vars
  BY <1>4 DEF vars, goodsVars, GoodsStep
<1> QED BY <1>1, <1>2, <1>3, <1>4 DEF Next

\* The rows a quantity decision writes.
LEMMA DecisionKeeps ==
  ASSUME GoodsInv, NEW p \in Person, NEW l \in Lot, UpToDate(p, l),
         NEW rel \in Nat, NEW rej \in Nat, NEW held \in Nat,
         rel + rej <= lot[l].quantity, held <= lot[l].quantity - rel - rej,
         Decide(p, l, rel, rej, held)
  PROVE  /\ quarantine' \in [Lot -> QuarantineRow]
         /\ seen' \in [Person -> [Lot -> QuarantineRow]]
         /\ QuarantineEquation'
         /\ ReadingsTrue'
<1> DEFINE row == [released |-> rel, rejected |-> rej, held |-> held,
                   remaining |-> lot[l].quantity - rel - rej,
                   revision |-> quarantine[l].revision + 1]
<1>1. /\ quarantine' = [quarantine EXCEPT ![l] = row]
      /\ seen' = [seen EXCEPT ![p][l] = row]
      /\ lot' = lot
  BY DEF Decide
<1>2. /\ quarantine \in [Lot -> QuarantineRow]
      /\ seen \in [Person -> [Lot -> QuarantineRow]]
      /\ lot \in [Lot -> LotRow]
  BY DEF GoodsInv, GoodsTypeOK
<1>3. quarantine[l].revision \in Nat /\ lot[l].quantity \in Nat
  BY <1>2 DEF QuarantineRow, LotRow
<1>4. row \in QuarantineRow
  BY <1>3 DEF QuarantineRow
<1>5. quarantine' \in [Lot -> QuarantineRow] /\ seen' \in [Person -> [Lot -> QuarantineRow]]
  BY <1>1, <1>2, <1>4
<1>6. QuarantineEquation'
  <2> SUFFICES ASSUME NEW m \in Lot
               PROVE  /\ lot'[m].quantity = quarantine'[m].released
                                            + quarantine'[m].rejected + quarantine'[m].remaining
                      /\ quarantine'[m].held <= quarantine'[m].remaining
    BY DEF QuarantineEquation
  <2>1. CASE m = l
    BY <2>1, <1>1, <1>2, <1>3
  <2>2. CASE m # l
    BY <2>2, <1>1, <1>2 DEF GoodsInv, QuarantineEquation
  <2> QED BY <2>1, <2>2
<1>7. ReadingsTrue'
  <2> SUFFICES ASSUME NEW m \in Lot
               PROVE  /\ ~Exists(m)' => quarantine'[m] = Blank
                      /\ \A o \in Person :
                           /\ seen'[o][m].revision <= quarantine'[m].revision
                           /\ seen'[o][m].revision = quarantine'[m].revision
                                => seen'[o][m] = quarantine'[m]
    BY DEF ReadingsTrue
  <2>1. CASE m = l
    <3>1. Exists(m)'
      BY <2>1, <1>1 DEF UpToDate, Exists
    <3>2. ASSUME NEW o \in Person
          PROVE  /\ seen'[o][m].revision <= quarantine'[m].revision
                 /\ seen'[o][m].revision = quarantine'[m].revision
                      => seen'[o][m] = quarantine'[m]
      <4>1. quarantine'[m] = row
        BY <2>1, <1>1, <1>2
      <4>2. CASE o = p
        BY <4>1, <4>2, <2>1, <1>1, <1>2, <1>3
      <4>3. CASE o # p
        <5>1. seen'[o][m] = seen[o][l]
          BY <4>3, <2>1, <1>1, <1>2
        <5>2. seen[o][l].revision \in Nat /\ seen[o][l].revision <= quarantine[l].revision
          BY <1>2 DEF GoodsInv, ReadingsTrue, QuarantineRow
        <5> QED BY <5>1, <5>2, <4>1, <1>3
      <4> QED BY <4>2, <4>3
    <3> QED BY <3>1, <3>2
  <2>2. CASE m # l
    <3>1. quarantine'[m] = quarantine[m] /\ \A o \in Person : seen'[o][m] = seen[o][m]
      BY <2>2, <1>1, <1>2
    <3> QED BY <3>1, <1>1 DEF GoodsInv, ReadingsTrue, Exists
  <2> QED BY <2>1, <2>2
<1> QED BY <1>5, <1>6, <1>7

-----------------------------------------------------------------------------
(* The inductive invariant *)

LEMMA GoodsInitially == Init => GoodsInv
<1> SUFFICES ASSUME GoodsInit PROVE GoodsInv
  BY DEF Init
<1>1. GoodsTypeOK
  BY DEF GoodsInit, GoodsTypeOK, LotRow, QuarantineRow, Blank, None
<1>2. QuarantineEquation
  BY DEF GoodsInit, QuarantineEquation, Blank
<1>3. ReadingsTrue
  BY DEF GoodsInit, ReadingsTrue, Blank
<1> QED BY <1>1, <1>2, <1>3 DEF GoodsInv

\* Packing and reconciliation do not touch a lot.
LEMMA RunStepKeeps ==
  ASSUME GoodsInv, NEW r \in Run,
         FinishPacking(r) \/ \E n \in 0 .. MaxQuantity : ReconcilePacked(r, n)
  PROVE  GoodsInv'
<1>1. UNCHANGED <<lot, quarantine, passed, blocking, seen, tranche>>
  BY DEF FinishPacking, ReconcilePacked
<1>2. GoodsTypeOK'
  <2>1. CASE FinishPacking(r)
    BY <2>1, <1>1 DEF FinishPacking, GoodsInv, GoodsTypeOK
  <2>2. CASE \E n \in 0 .. MaxQuantity : ReconcilePacked(r, n)
    <3>1. PICK n \in 0 .. MaxQuantity : ReconcilePacked(r, n)
      BY <2>2
    <3>2. n \in Nat
      BY GoodsAssumption
    <3> QED BY <3>1, <3>2, <1>1 DEF ReconcilePacked, GoodsInv, GoodsTypeOK
  <2> QED BY <2>1, <2>2
<1>3. QuarantineEquation' /\ ReadingsTrue'
  BY <1>1 DEF GoodsInv, QuarantineEquation, ReadingsTrue, Exists
<1> QED BY <1>2, <1>3 DEF GoodsInv

LEMMA CreateKeeps ==
  ASSUME GoodsInv, NEW l \in Lot, NEW n \in Quantity, NEW fresh \in BOOLEAN,
         CreateLot(l, n, fresh)
  PROVE  GoodsInv'
<1> DEFINE row == [released |-> 0, rejected |-> 0, held |-> 0, remaining |-> n, revision |-> 1]
<1>1. /\ lot' = [lot EXCEPT ![l] = [quantity |-> n, fresh |-> fresh]]
      /\ quarantine' = [quarantine EXCEPT ![l] = row]
      /\ ~Exists(l)
      /\ UNCHANGED <<packed, accepted, passed, blocking, seen, tranche>>
  BY DEF CreateLot
<1>2. n \in Nat /\ n > 0
  BY GoodsAssumption DEF Quantity
<1>3. row \in QuarantineRow
  BY <1>2 DEF QuarantineRow
<1>4. /\ quarantine \in [Lot -> QuarantineRow]
      /\ seen \in [Person -> [Lot -> QuarantineRow]]
      /\ lot \in [Lot -> LotRow]
  BY DEF GoodsInv, GoodsTypeOK
<1>5. GoodsTypeOK'
  BY <1>1, <1>2, <1>3 DEF GoodsInv, GoodsTypeOK, LotRow
<1>6. QuarantineEquation'
  <2> SUFFICES ASSUME NEW m \in Lot
               PROVE  /\ lot'[m].quantity = quarantine'[m].released
                                            + quarantine'[m].rejected + quarantine'[m].remaining
                      /\ quarantine'[m].held <= quarantine'[m].remaining
    BY DEF QuarantineEquation
  <2>1. CASE m = l
    <3>1. quarantine'[m] = row /\ lot'[m].quantity = n
      BY <2>1, <1>1, <1>4
    <3> QED BY <3>1, <1>2, <1>3
  <2>2. CASE m # l
    BY <2>2, <1>1, <1>4 DEF GoodsInv, QuarantineEquation
  <2> QED BY <2>1, <2>2
<1>7. ReadingsTrue'
  <2> SUFFICES ASSUME NEW m \in Lot
               PROVE  /\ ~Exists(m)' => quarantine'[m] = Blank
                      /\ \A o \in Person :
                           /\ seen'[o][m].revision <= quarantine'[m].revision
                           /\ seen'[o][m].revision = quarantine'[m].revision
                                => seen'[o][m] = quarantine'[m]
    BY DEF ReadingsTrue
  <2>1. CASE m = l
    <3>1. quarantine'[m] = row /\ lot'[m].quantity = n
      BY <2>1, <1>1, <1>4
    <3>2. Exists(m)'
      BY <3>1, <1>2 DEF Exists
    <3>3. quarantine[m].revision = 0
      BY <2>1, <1>1 DEF GoodsInv, ReadingsTrue, Blank
    <3>4. \A o \in Person : seen'[o][m] = seen[o][m] /\ seen[o][m].revision \in Nat
                            /\ seen[o][m].revision <= 0
      BY <1>1, <1>4, <3>3 DEF GoodsInv, ReadingsTrue, QuarantineRow
    <3> QED BY <3>1, <3>2, <3>4, <1>3
  <2>2. CASE m # l
    <3>1. quarantine'[m] = quarantine[m] /\ lot'[m] = lot[m] /\ seen' = seen
      BY <2>2, <1>1, <1>4
    <3> QED BY <3>1 DEF GoodsInv, ReadingsTrue, Exists
  <2> QED BY <2>1, <2>2
<1> QED BY <1>5, <1>6, <1>7 DEF GoodsInv

\* Whatever is noted about a lot, its quarantine stays as it is.
LEMMA NoteKeeps ==
  ASSUME GoodsInv, NEW l \in Lot,
         \/ Expire(l)
         \/ \E d \in Deviation : ResolveDeviation(l, d)
         \/ \E p \in Person, c \in Check, pass \in BOOLEAN : Inspect(p, l, c, pass)
         \/ \E p \in Person, d \in Deviation : OpenDeviation(p, l, d)
  PROVE  GoodsInv'
<1>1. /\ UNCHANGED <<packed, accepted, quarantine, seen, tranche>>
      /\ \A m \in Lot : lot'[m].quantity = lot[m].quantity
      /\ GoodsTypeOK'
  <2>1. CASE Expire(l)
    BY <2>1 DEF Expire, GoodsInv, GoodsTypeOK, LotRow
  <2>2. CASE \E d \in Deviation : ResolveDeviation(l, d)
    BY <2>2 DEF ResolveDeviation, GoodsInv, GoodsTypeOK
  <2>3. CASE \E p \in Person, c \in Check, pass \in BOOLEAN : Inspect(p, l, c, pass)
    <3>1. PICK p \in Person, c \in Check, pass \in BOOLEAN : Inspect(p, l, c, pass)
      BY <2>3
    <3>2. (IF pass THEN passed[l] \cup {c} ELSE passed[l] \ {c}) \in SUBSET Check
      BY DEF GoodsInv, GoodsTypeOK
    <3> QED BY <3>1, <3>2 DEF Inspect, GoodsInv, GoodsTypeOK
  <2>4. CASE \E p \in Person, d \in Deviation : OpenDeviation(p, l, d)
    <3>1. PICK p \in Person, d \in Deviation : OpenDeviation(p, l, d)
      BY <2>4
    <3>2. blocking[l] \cup {d} \in SUBSET Deviation
      BY DEF GoodsInv, GoodsTypeOK
    <3> QED BY <3>1, <3>2 DEF OpenDeviation, GoodsInv, GoodsTypeOK
  <2> QED BY <2>1, <2>2, <2>3, <2>4
<1>2. QuarantineEquation' /\ ReadingsTrue'
  BY <1>1 DEF GoodsInv, QuarantineEquation, ReadingsTrue, Exists
<1> QED BY <1>1, <1>2 DEF GoodsInv

LEMMA ReadKeeps ==
  ASSUME GoodsInv, NEW p \in Person, NEW l \in Lot, Read(p, l)
  PROVE  GoodsInv'
<1>1. /\ seen' = [seen EXCEPT ![p][l] = quarantine[l]]
      /\ UNCHANGED <<packed, accepted, lot, quarantine, passed, blocking, tranche>>
  BY DEF Read
<1>2. /\ quarantine \in [Lot -> QuarantineRow]
      /\ seen \in [Person -> [Lot -> QuarantineRow]]
  BY DEF GoodsInv, GoodsTypeOK
<1>3. GoodsTypeOK'
  BY <1>1, <1>2 DEF GoodsInv, GoodsTypeOK
<1>4. QuarantineEquation'
  BY <1>1 DEF GoodsInv, QuarantineEquation
<1>5. \A o \in Person, m \in Lot : seen'[o][m] = seen[o][m] \/ seen'[o][m] = quarantine[m]
  BY <1>1, <1>2
<1>6. \A m \in Lot : quarantine[m].revision \in Nat
  BY <1>2 DEF QuarantineRow
<1>7. ReadingsTrue'
  BY <1>1, <1>5, <1>6 DEF GoodsInv, ReadingsTrue, Exists
<1> QED BY <1>3, <1>4, <1>7 DEF GoodsInv

LEMMA DispositionKeeps ==
  ASSUME GoodsInv, NEW p \in Person, NEW l \in Lot, NEW n \in Quantity,
         \/ Hold(p, l, n)
         \/ Reject(p, l, n)
         \/ \E t \in Tranche : l = LotOf[t] /\ Release(p, t, n)
  PROVE  GoodsInv'
<1>1. /\ quarantine[l].released \in Nat
      /\ quarantine[l].rejected \in Nat
      /\ quarantine[l].held \in Nat
      /\ quarantine[l].remaining \in Nat
      /\ lot[l].quantity \in Nat
  BY DEF GoodsInv, GoodsTypeOK, QuarantineRow, LotRow
<1>2. n \in Nat
  BY GoodsAssumption DEF Quantity
<1>3. /\ lot[l].quantity = quarantine[l].released + quarantine[l].rejected
                           + quarantine[l].remaining
      /\ quarantine[l].held <= quarantine[l].remaining
  BY DEF GoodsInv, QuarantineEquation
<1>4. n <= quarantine[l].remaining =>
        HeldAfter(l, n) \in Nat /\ HeldAfter(l, n) <= quarantine[l].remaining - n
  BY <1>1, <1>2, <1>3 DEF HeldAfter
<1>5. CASE Hold(p, l, n)
  <2>1. /\ UpToDate(p, l)
        /\ n <= quarantine[l].remaining - quarantine[l].held
        /\ Decide(p, l, quarantine[l].released, quarantine[l].rejected, quarantine[l].held + n)
        /\ tranche' = tranche
    BY <1>5 DEF Hold
  <2>2. /\ quarantine' \in [Lot -> QuarantineRow]
        /\ seen' \in [Person -> [Lot -> QuarantineRow]]
        /\ QuarantineEquation'
        /\ ReadingsTrue'
    <3>1. /\ quarantine[l].held + n \in Nat
          /\ quarantine[l].released + quarantine[l].rejected <= lot[l].quantity
          /\ quarantine[l].held + n
               <= lot[l].quantity - quarantine[l].released - quarantine[l].rejected
      BY <2>1, <1>1, <1>2, <1>3
    <3> QED BY <2>1, <3>1, <1>1, DecisionKeeps
  <2> QED BY <2>1, <2>2 DEF Decide, GoodsInv, GoodsTypeOK
<1>6. CASE Reject(p, l, n)
  <2>1. /\ UpToDate(p, l)
        /\ n <= quarantine[l].remaining
        /\ Decide(p, l, quarantine[l].released, quarantine[l].rejected + n, HeldAfter(l, n))
        /\ tranche' = tranche
    BY <1>6 DEF Reject, Undisposed
  <2>2. /\ quarantine' \in [Lot -> QuarantineRow]
        /\ seen' \in [Person -> [Lot -> QuarantineRow]]
        /\ QuarantineEquation'
        /\ ReadingsTrue'
    <3>1. /\ HeldAfter(l, n) \in Nat
          /\ quarantine[l].released \in Nat /\ (quarantine[l].rejected + n) \in Nat
          /\ quarantine[l].released + (quarantine[l].rejected + n) <= lot[l].quantity
          /\ HeldAfter(l, n) <= lot[l].quantity - quarantine[l].released - (quarantine[l].rejected + n)
      BY <2>1, <1>1, <1>2, <1>3, <1>4
    <3> QED BY <2>1, <3>1, DecisionKeeps
  <2> QED BY <2>1, <2>2 DEF Decide, GoodsInv, GoodsTypeOK
<1>7. CASE \E t \in Tranche : l = LotOf[t] /\ Release(p, t, n)
  <2>0. PICK t \in Tranche : l = LotOf[t] /\ Release(p, t, n)
    BY <1>7
  <2>1. /\ UpToDate(p, l)
        /\ n <= quarantine[l].remaining
        /\ Decide(p, l, quarantine[l].released + n, quarantine[l].rejected, HeldAfter(l, n))
        /\ tranche' = [tranche EXCEPT ![t] = n]
    BY <2>0 DEF Release, Undisposed
  <2>2. /\ quarantine' \in [Lot -> QuarantineRow]
        /\ seen' \in [Person -> [Lot -> QuarantineRow]]
        /\ QuarantineEquation'
        /\ ReadingsTrue'
    <3>1. /\ HeldAfter(l, n) \in Nat
          /\ (quarantine[l].released + n) \in Nat /\ quarantine[l].rejected \in Nat
          /\ (quarantine[l].released + n) + quarantine[l].rejected <= lot[l].quantity
          /\ HeldAfter(l, n) <= lot[l].quantity - (quarantine[l].released + n) - quarantine[l].rejected
      BY <2>1, <1>1, <1>2, <1>3, <1>4
    <3> QED BY <2>1, <3>1, DecisionKeeps
  <2> QED BY <2>1, <2>2, <1>2 DEF Decide, GoodsInv, GoodsTypeOK
<1> QED BY <1>5, <1>6, <1>7

LEMMA GoodsInductive == GoodsInv /\ [Next]_vars => GoodsInv'
<1> SUFFICES ASSUME GoodsInv, [Next]_vars PROVE GoodsInv'
  OBVIOUS
<1>1. GoodsStep
  BY StepsOfGoods
<1>2. CASE QuarantineNext
  BY <1>2, RunStepKeeps, CreateKeeps, NoteKeeps, ReadKeeps, DispositionKeeps
  DEF QuarantineNext
<1>3. CASE \E p \in Person, t \in Tranche, n \in Quantity : Release(p, t, n)
  BY <1>3, DispositionKeeps, GoodsAssumption
<1>4. CASE UNCHANGED goodsVars
  BY <1>4 DEF goodsVars, GoodsInv, GoodsTypeOK, QuarantineEquation, ReadingsTrue, Exists
<1> QED BY <1>1, <1>2, <1>3, <1>4 DEF GoodsStep

\* The rows of quarantine keep their types, the equation holds, and whoever
\* read the current revision read the row as it is.
THEOREM GoodsAlways == Spec => []GoodsInv
<1> QED BY GoodsInitially, GoodsInductive, PTL DEF Spec

-----------------------------------------------------------------------------
(* Results *)

\* QuarantineEquation for any lots and any sequence of holds, rejections and
\* releases by any number of people.
THEOREM QuarantineAddsUp == Spec => []QuarantineEquation
<1>1. GoodsInv => QuarantineEquation
  BY DEF GoodsInv
<1> QED BY <1>1, GoodsAlways, PTL

\* DecidedOnCurrent: the revision a decision carries is enough to know that
\* its author read the row as it is.
THEOREM DecisionsAreCurrent == Spec => DecidedOnCurrent
<1>1. GoodsInv /\ [Next]_vars =>
        [\A l \in Lot :
           Exists(l) /\ quarantine'[l] # quarantine[l] =>
             \E p \in Person :
               seen[p][l] = quarantine[l] /\ seen'[p][l] = quarantine'[l]]_goodsVars
  <2> SUFFICES ASSUME GoodsInv, [Next]_vars, NEW l \in Lot, Exists(l),
                      quarantine'[l] # quarantine[l]
               PROVE  \E p \in Person :
                        seen[p][l] = quarantine[l] /\ seen'[p][l] = quarantine'[l]
    OBVIOUS
  <2>1. /\ quarantine \in [Lot -> QuarantineRow]
        /\ seen \in [Person -> [Lot -> QuarantineRow]]
    BY DEF GoodsInv, GoodsTypeOK
  <2>2. ASSUME NEW p \in Person, NEW m \in Lot, UpToDate(p, m),
               NEW rel, NEW rej, NEW held, Decide(p, m, rel, rej, held)
        PROVE  seen[p][l] = quarantine[l] /\ seen'[p][l] = quarantine'[l]
    <3>1. m = l
      BY <2>1, <2>2 DEF Decide
    <3>2. seen[p][l] = quarantine[l]
      BY <3>1, <2>2 DEF UpToDate, GoodsInv, ReadingsTrue
    <3>3. seen'[p][l] = quarantine'[l]
      BY <3>1, <2>1, <2>2 DEF Decide
    <3> QED BY <3>2, <3>3
  <2>3. GoodsStep
    BY StepsOfGoods
  <2>4. CASE QuarantineNext
    <3>1. PICK m \in Lot :
            \/ \E n \in Quantity, fresh \in BOOLEAN : CreateLot(m, n, fresh)
            \/ \E p \in Person, n \in Quantity : Hold(p, m, n) \/ Reject(p, m, n)
      BY <2>4 DEF QuarantineNext, FinishPacking, ReconcilePacked, Expire,
                  ResolveDeviation, Read, Inspect, OpenDeviation
    <3>2. CASE \E n \in Quantity, fresh \in BOOLEAN : CreateLot(m, n, fresh)
      BY <3>2, <2>1 DEF CreateLot
    <3>3. CASE \E p \in Person, n \in Quantity : Hold(p, m, n) \/ Reject(p, m, n)
      BY <3>3, <2>2 DEF Hold, Reject
    <3> QED BY <3>1, <3>2, <3>3
  <2>5. CASE \E p \in Person, t \in Tranche, n \in Quantity : Release(p, t, n)
    BY <2>5, <2>2, GoodsAssumption DEF Release
  <2>6. CASE UNCHANGED goodsVars
    BY <2>6 DEF goodsVars
  <2> QED BY <2>3, <2>4, <2>5, <2>6 DEF GoodsStep
<1> QED BY <1>1, GoodsAlways, PTL DEF Spec, DecidedOnCurrent

-----------------------------------------------------------------------------
(* What a run accepted and what its lots released *)

LotSizes == [l \in Lot |-> lot[l].quantity]

LEMMA ConvertedNat ==
  ASSUME GoodsInv, NEW r \in Run
  PROVE  IsFiniteSet(LotsOf(r)) /\ Converted(r) \in Nat
<1>1. IsFiniteSet(LotsOf(r))
  BY GoodsAssumption, FS_Subset DEF LotsOf
<1>2. \A l \in LotsOf(r) : LotSizes[l] \in Nat
  BY DEF LotSizes, LotsOf, GoodsInv, GoodsTypeOK, LotRow
<1>3. SumFunctionOnSet(LotSizes, LotsOf(r)) \in Nat
  BY <1>1, <1>2, SumNat
<1> QED BY <1>1, <1>3 DEF Converted, LotSizes

\* No step but a new lot counts as converted.
LEMMA ConvertedKept ==
  ASSUME \A l \in Lot : lot'[l].quantity = lot[l].quantity, NEW r \in Run
  PROVE  LotsOf(r)' = LotsOf(r) /\ Converted(r)' = Converted(r)
<1>1. LotsOf(r)' = LotsOf(r)
  BY DEF LotsOf, Exists
<1>2. [l \in Lot |-> lot'[l].quantity] = [l \in Lot |-> lot[l].quantity]
  OBVIOUS
<1> QED BY <1>1, <1>2 DEF Converted

LEMMA CreateConverts ==
  ASSUME GoodsInv, NEW l \in Lot, NEW n \in Quantity, NEW fresh \in BOOLEAN,
         CreateLot(l, n, fresh), NEW r \in Run
  PROVE  /\ r = RunOf[l] => Converted(r)' = Converted(r) + n
         /\ r # RunOf[l] => LotsOf(r)' = LotsOf(r) /\ Converted(r)' = Converted(r)
<1>1. /\ lot' = [lot EXCEPT ![l] = [quantity |-> n, fresh |-> fresh]]
      /\ ~Exists(l)
  BY DEF CreateLot
<1>2. n \in Nat /\ n > 0
  BY GoodsAssumption DEF Quantity
<1>3. lot \in [Lot -> LotRow]
  BY DEF GoodsInv, GoodsTypeOK
<1>4. IsFiniteSet(LotsOf(r)) /\ Converted(r) \in Nat /\ l \notin LotsOf(r)
  BY <1>1, ConvertedNat DEF LotsOf
<1>5. \A m \in LotsOf(r) : LotSizes[m] \in Int /\ LotSizes'[m] = LotSizes[m]
  BY <1>1, <1>3, <1>4 DEF LotsOf, LotSizes, LotRow
<1>6. SumFunctionOnSet(LotSizes', LotsOf(r)) = SumFunctionOnSet(LotSizes, LotsOf(r))
  BY <1>4, <1>5, SumSame
<1>7. CASE r = RunOf[l]
  <2>1. LotsOf(r)' = LotsOf(r) \cup {l}
    BY <1>1, <1>2, <1>3, <1>7 DEF LotsOf, Exists
  <2>2. LotSizes'[l] = n
    BY <1>1, <1>3 DEF LotSizes
  <2>3. \A m \in LotsOf(r) \cup {l} : LotSizes'[m] \in Int
    BY <1>2, <1>5, <2>2
  <2>4. SumFunctionOnSet(LotSizes', LotsOf(r) \cup {l})
          = LotSizes'[l] + SumFunctionOnSet(LotSizes', LotsOf(r))
    BY <1>4, <2>3, SumAdd
  <2>5. Converted(r)' = n + Converted(r)
    BY <1>6, <2>1, <2>2, <2>4 DEF Converted, LotSizes
  <2> QED BY <1>2, <1>4, <1>7, <2>5
<1>8. CASE r # RunOf[l]
  <2>1. LotsOf(r)' = LotsOf(r)
    BY <1>1, <1>3, <1>8 DEF LotsOf, Exists
  <2> QED BY <1>6, <1>8, <2>1 DEF Converted, LotSizes
<1> QED BY <1>7, <1>8

RunsCovered == \A r \in Run : LotsOf(r) # {} => Converted(r) <= accepted[r]

LEMMA RunsStayCovered ==
  ASSUME GoodsInv, RunsCovered, GoodsStep
  PROVE  RunsCovered'
<1>1. ASSUME \A l \in Lot : lot'[l].quantity = lot[l].quantity, accepted' = accepted
      PROVE  RunsCovered'
  BY <1>1, ConvertedKept DEF RunsCovered
<1>2. ASSUME NEW s \in Run, NEW n \in 0 .. MaxQuantity, ReconcilePacked(s, n)
      PROVE  RunsCovered'
  <2>1. SUFFICES ASSUME NEW r \in Run, LotsOf(r)' # {} PROVE Converted(r)' <= accepted'[r]
    BY DEF RunsCovered
  <2>2. LotsOf(r)' = LotsOf(r) /\ Converted(r)' = Converted(r)
    BY <1>2, ConvertedKept DEF ReconcilePacked
  <2>3. Converted(r) <= accepted[r] /\ Converted(r) \in Nat
    BY <2>1, <2>2, ConvertedNat DEF RunsCovered
  <2>4. r # s
    BY <1>2, <2>1, <2>2, <2>3 DEF ReconcilePacked, Unlocked, None
  <2>5. accepted'[r] = accepted[r]
    BY <1>2, <2>4 DEF ReconcilePacked, GoodsInv, GoodsTypeOK
  <2> QED BY <2>2, <2>3, <2>5
<1>3. ASSUME NEW l \in Lot, NEW n \in Quantity, NEW fresh \in BOOLEAN, CreateLot(l, n, fresh)
      PROVE  RunsCovered'
  <2>1. SUFFICES ASSUME NEW r \in Run, LotsOf(r)' # {} PROVE Converted(r)' <= accepted'[r]
    BY DEF RunsCovered
  <2>2. accepted' = accepted /\ accepted[RunOf[l]] # None
        /\ n <= accepted[RunOf[l]] - Converted(RunOf[l])
    BY <1>3 DEF CreateLot
  <2>3. CASE r = RunOf[l]
    <3>1. Converted(r)' = Converted(r) + n
      BY <1>3, <2>3, CreateConverts
    <3>2. Converted(r) \in Nat /\ n \in Nat /\ accepted[r] \in Int
      BY ConvertedNat, GoodsAssumption DEF Quantity, GoodsInv, GoodsTypeOK, None
    <3> QED BY <2>2, <2>3, <3>1, <3>2
  <2>4. CASE r # RunOf[l]
    BY <1>3, <2>1, <2>2, <2>4, CreateConverts DEF RunsCovered
  <2> QED BY <2>3, <2>4
<1>4. CASE QuarantineNext
  <2>1. \/ \E s \in Run, n \in 0 .. MaxQuantity : ReconcilePacked(s, n)
        \/ \E l \in Lot, n \in Quantity, fresh \in BOOLEAN : CreateLot(l, n, fresh)
        \/ (\A l \in Lot : lot'[l].quantity = lot[l].quantity) /\ accepted' = accepted
    <3>1. ASSUME NEW l \in Lot, Expire(l)
          PROVE  (\A m \in Lot : lot'[m].quantity = lot[m].quantity) /\ accepted' = accepted
      BY <3>1 DEF Expire, GoodsInv, GoodsTypeOK, LotRow
    <3> QED BY <1>4, <3>1 DEF QuarantineNext, FinishPacking, ResolveDeviation, Read, Inspect,
                              OpenDeviation, Hold, Reject, Decide
  <2> QED BY <1>1, <1>2, <1>3, <2>1
<1>5. CASE \E p \in Person, t \in Tranche, n \in Quantity : Release(p, t, n)
  BY <1>1, <1>5 DEF Release, Decide
<1>6. CASE UNCHANGED goodsVars
  BY <1>1, <1>6 DEF goodsVars
<1> QED BY <1>4, <1>5, <1>6 DEF GoodsStep

TranchesOf(l) == {t \in Tranche : LotOf[t] = l}

ReleasesAddUp == \A l \in Lot : quarantine[l].released = SumFunctionOnSet(tranche, TranchesOf(l))

LEMMA TranchesFinite ==
  ASSUME GoodsInv, NEW l \in Lot
  PROVE  /\ IsFiniteSet(TranchesOf(l))
         /\ \A t \in TranchesOf(l) : tranche[t] \in Int /\ tranche[t] \in Nat
BY GoodsAssumption, FS_Subset DEF TranchesOf, GoodsInv, GoodsTypeOK

LEMMA ReleasesKeepAdding ==
  ASSUME GoodsInv, ReleasesAddUp, GoodsStep
  PROVE  ReleasesAddUp'
<1>1. quarantine \in [Lot -> QuarantineRow] /\ tranche \in [Tranche -> Nat]
  BY DEF GoodsInv, GoodsTypeOK
<1>2. ASSUME \A l \in Lot : quarantine'[l].released = quarantine[l].released, tranche' = tranche
      PROVE  ReleasesAddUp'
  BY <1>2 DEF ReleasesAddUp, TranchesOf
<1>3. ASSUME NEW p \in Person, NEW t \in Tranche, NEW n \in Quantity, Release(p, t, n)
      PROVE  ReleasesAddUp'
  <2>1. SUFFICES ASSUME NEW l \in Lot
                 PROVE  quarantine'[l].released = SumFunctionOnSet(tranche', TranchesOf(l))
    BY DEF ReleasesAddUp, TranchesOf
  <2>2. tranche[t] = 0 /\ tranche' = [tranche EXCEPT ![t] = n] /\ n \in Nat
    BY <1>3, GoodsAssumption DEF Release, Quantity
  <2>3. quarantine[l].released \in Nat
    BY <1>1 DEF QuarantineRow
  <2>4. quarantine[l].released = SumFunctionOnSet(tranche, TranchesOf(l))
    BY DEF ReleasesAddUp
  <2>5. CASE l = LotOf[t]
    <3>1. quarantine'[l].released = quarantine[l].released + n
      BY <1>1, <1>3, <2>5 DEF Release, Decide
    <3>2. t \in TranchesOf(l)
      BY <2>5 DEF TranchesOf
    <3>3. \A u \in TranchesOf(l) : tranche[u] \in Int /\ tranche'[u] \in Int
      BY <1>1, <2>2 DEF TranchesOf
    <3>4. \A u \in TranchesOf(l) \ {t} : tranche'[u] = tranche[u]
      BY <1>1, <2>2 DEF TranchesOf
    <3>5. SumFunctionOnSet(tranche', TranchesOf(l))
            = SumFunctionOnSet(tranche, TranchesOf(l)) + (tranche'[t] - tranche[t])
      BY <3>2, <3>3, <3>4, TranchesFinite, SumUpdate
    <3>6. tranche'[t] = n
      BY <1>1, <2>2
    <3> QED BY <2>2, <2>3, <2>4, <3>1, <3>5, <3>6
  <2>6. CASE l # LotOf[t]
    <3>1. quarantine'[l].released = quarantine[l].released
      BY <1>1, <1>3, <2>6 DEF Release, Decide
    <3>2. \A u \in TranchesOf(l) : tranche[u] \in Int /\ tranche'[u] = tranche[u]
      BY <1>1, <2>2, <2>6 DEF TranchesOf
    <3>3. SumFunctionOnSet(tranche', TranchesOf(l)) = SumFunctionOnSet(tranche, TranchesOf(l))
      BY <3>2, TranchesFinite, SumSame
    <3> QED BY <2>4, <3>1, <3>3
  <2> QED BY <2>5, <2>6
<1>4. CASE QuarantineNext
  <2>1. tranche' = tranche
    BY <1>4 DEF QuarantineNext, FinishPacking, ReconcilePacked, CreateLot, Expire,
                ResolveDeviation, Read, Inspect, OpenDeviation, Hold, Reject
  <2>2. ASSUME NEW l \in Lot, NEW n \in Quantity, NEW fresh \in BOOLEAN, CreateLot(l, n, fresh)
        PROVE  \A m \in Lot : quarantine'[m].released = quarantine[m].released
    BY <1>1, <2>2 DEF CreateLot, GoodsInv, ReadingsTrue, Blank
  <2>3. ASSUME NEW l \in Lot, NEW p \in Person, NEW n \in Quantity, Hold(p, l, n) \/ Reject(p, l, n)
        PROVE  \A m \in Lot : quarantine'[m].released = quarantine[m].released
    BY <1>1, <2>3 DEF Hold, Reject, Decide
  <2>4. \A m \in Lot : quarantine'[m].released = quarantine[m].released
    BY <1>4, <2>2, <2>3 DEF QuarantineNext, FinishPacking, ReconcilePacked, Expire,
                            ResolveDeviation, Read, Inspect, OpenDeviation
  <2> QED BY <1>2, <2>1, <2>4
<1>5. CASE UNCHANGED goodsVars
  BY <1>2, <1>5 DEF goodsVars
<1> QED BY <1>3, <1>4, <1>5 DEF GoodsStep

\* GoodsAccounted: two sums kept over any number of lots, tranches and
\* corrections of the reconciliation.
THEOREM GoodsAreAccounted == Spec => []GoodsAccounted
<1>1. GoodsAccounted <=> RunsCovered /\ ReleasesAddUp
  BY DEF GoodsAccounted, RunsCovered, ReleasesAddUp, TranchesOf
<1>2. Init => GoodsAccounted
  <2> SUFFICES ASSUME GoodsInit PROVE RunsCovered /\ ReleasesAddUp
    BY <1>1 DEF Init
  <2>1. RunsCovered
    BY DEF GoodsInit, RunsCovered, LotsOf, Exists
  <2>2. ASSUME NEW l \in Lot PROVE quarantine[l].released = SumFunctionOnSet(tranche, TranchesOf(l))
    <3>1. IsFiniteSet(TranchesOf(l)) /\ \A t \in TranchesOf(l) : tranche[t] = 0
      BY GoodsAssumption, FS_Subset DEF TranchesOf, GoodsInit
    <3>2. SumFunctionOnSet(tranche, TranchesOf(l)) = 0
      BY <3>1, SumZero
    <3> QED BY <3>2 DEF GoodsInit, Blank
  <2> QED BY <2>1, <2>2 DEF ReleasesAddUp
<1>3. GoodsInv /\ GoodsAccounted /\ [Next]_vars => GoodsAccounted'
  <2> SUFFICES ASSUME GoodsInv, RunsCovered, ReleasesAddUp, [Next]_vars
               PROVE  RunsCovered' /\ ReleasesAddUp'
    BY <1>1 DEF GoodsAccounted, RunsCovered, ReleasesAddUp, TranchesOf
  <2> QED BY StepsOfGoods, RunsStayCovered, ReleasesKeepAdding
<1> QED BY <1>2, <1>3, GoodsAlways, PTL DEF Spec

-----------------------------------------------------------------------------
(* The released stock *)

CorrectedWithin ==
  \A t \in Tranche, w \in WriteOff : writeOff[t][w].corrected <= writeOff[t][w].amount

StockInv == GoodsInv /\ TypeOK /\ StockAccounted /\ CorrectedWithin

AllKinds == {"damage", "other"}

\* What each write-off of one tranche still takes from its stock, as far as
\* its kind counts.
Owed(rows, kinds) ==
  [w \in WriteOff |->
     IF rows[w].kind \in kinds THEN rows[w].amount - rows[w].corrected ELSE 0]

AccountedFor(t) ==
  /\ onHand[t] = SumFunctionOnSet(at[t], Location)
  /\ onHand[t] + Outstanding(t, {"damage", "other"}) = tranche[t]
  /\ Restricted(t) + Outstanding(t, {"damage"}) <= tranche[t]

LEMMA OwedSum ==
  ASSUME NEW rows \in [WriteOff -> WriteOffRow], NEW kinds
  PROVE  /\ \A w \in WriteOff : Owed(rows, kinds)[w] \in Int
         /\ SumFunctionOnSet(Owed(rows, kinds), WriteOff) =
              SumFunctionOnSet([w \in WriteOff |-> rows[w].amount - rows[w].corrected],
                               {w \in WriteOff : rows[w].kind \in kinds})
<1> DEFINE rest == [w \in WriteOff |-> rows[w].amount - rows[w].corrected]
           R == {w \in WriteOff : rows[w].kind \in kinds}
           owed == Owed(rows, kinds)
<1>1. \A w \in WriteOff : rest[w] \in Int /\ owed[w] \in Int
  BY DEF WriteOffRow, Owed
<1>2. \A w \in R : rest[w] \in Int /\ owed[w] = rest[w]
  BY <1>1 DEF Owed
<1>3. \A w \in WriteOff \ R : owed[w] = 0
  BY DEF Owed
<1>4. R \in SUBSET WriteOff
  OBVIOUS
<1> HIDE DEF rest, R, owed
<1>5. SumFunctionOnSet(owed, WriteOff) = SumFunctionOnSet(rest, R)
  BY <1>2, <1>3, <1>4, StockAssumption, SumRestrict
<1> QED BY <1>1, <1>5 DEF owed, rest, R

LEMMA OutstandingIsOwed ==
  ASSUME TypeOK, NEW t \in Tranche, NEW kinds
  PROVE  /\ Outstanding(t, kinds) = SumFunctionOnSet(Owed(writeOff[t], kinds), WriteOff)
         /\ \A w \in WriteOff : Owed(writeOff[t], kinds)[w] \in Int
<1>1. writeOff[t] \in [WriteOff -> WriteOffRow]
  BY DEF TypeOK
<1> QED BY <1>1, OwedSum DEF Outstanding

\* One write-off changes and what is outstanding changes by as much.
LEMMA OutstandingMoves ==
  ASSUME TypeOK, NEW t \in Tranche, NEW kinds, NEW w \in WriteOff, NEW row \in WriteOffRow,
         writeOff'[t] = [writeOff[t] EXCEPT ![w] = row]
  PROVE  Outstanding(t, kinds)' =
           Outstanding(t, kinds)
             + ((IF row.kind \in kinds THEN row.amount - row.corrected ELSE 0)
                - Owed(writeOff[t], kinds)[w])
<1> DEFINE old == Owed(writeOff[t], kinds)
           new == Owed(writeOff'[t], kinds)
<1>1. writeOff[t] \in [WriteOff -> WriteOffRow] /\ writeOff'[t] \in [WriteOff -> WriteOffRow]
  BY DEF TypeOK
<1>2. \A v \in WriteOff : old[v] \in Int /\ new[v] \in Int
  BY <1>1, OwedSum
<1>3. \A v \in WriteOff \ {w} : new[v] = old[v]
  BY <1>1 DEF Owed
<1>4. new[w] = IF row.kind \in kinds THEN row.amount - row.corrected ELSE 0
  BY <1>1 DEF Owed
<1>5. Outstanding(t, kinds) = SumFunctionOnSet(old, WriteOff)
  BY <1>1, OwedSum DEF Outstanding
<1>6. Outstanding(t, kinds)' = SumFunctionOnSet(new, WriteOff)
  BY <1>1, OwedSum DEF Outstanding
<1>7. SumFunctionOnSet(new, WriteOff) = SumFunctionOnSet(old, WriteOff) + (new[w] - old[w])
  <2> HIDE DEF old, new
  <2> QED BY <1>2, <1>3, StockAssumption, SumUpdate
<1> QED BY <1>4, <1>5, <1>6, <1>7

\* No more of the stock is damaged and gone than is gone at all.
LEMMA OutstandingBounds ==
  ASSUME TypeOK, CorrectedWithin, NEW t \in Tranche
  PROVE  /\ Outstanding(t, {"damage"}) \in Nat
         /\ Outstanding(t, AllKinds) \in Nat
         /\ Outstanding(t, {"damage"}) <= Outstanding(t, AllKinds)
<1> DEFINE d == Owed(writeOff[t], {"damage"})
           a == Owed(writeOff[t], AllKinds)
<1>1. \A w \in WriteOff : d[w] \in Nat /\ a[w] \in Nat /\ d[w] \in Int /\ a[w] \in Int /\ d[w] <= a[w]
  BY DEF TypeOK, CorrectedWithin, WriteOffRow, Owed, AllKinds
<1>2. /\ Outstanding(t, {"damage"}) = SumFunctionOnSet(d, WriteOff)
      /\ Outstanding(t, AllKinds) = SumFunctionOnSet(a, WriteOff)
  BY OutstandingIsOwed
<1> HIDE DEF d, a
<1> QED BY <1>1, <1>2, StockAssumption, SumNat, SumMonotone

\* The pieces at one location change and the whole changes by as much.
LEMMA LocationMoves ==
  ASSUME NEW row \in [Location -> Int], NEW x \in Location, NEW v \in Int
  PROVE  SumFunctionOnSet([row EXCEPT ![x] = v], Location)
           = SumFunctionOnSet(row, Location) + (v - row[x])
<1> DEFINE new == [row EXCEPT ![x] = v]
<1>1. \A y \in Location : row[y] \in Int /\ new[y] \in Int
  OBVIOUS
<1>2. new[x] = v /\ \A y \in Location \ {x} : new[y] = row[y]
  OBVIOUS
<1> HIDE DEF new
<1>3. SumFunctionOnSet(new, Location) = SumFunctionOnSet(row, Location) + (new[x] - row[x])
  BY <1>1, <1>2, StockAssumption, SumUpdate
<1> QED BY <1>2, <1>3 DEF new

LEMMA LocationBounds ==
  ASSUME StockInv, NEW t \in Tranche, NEW x \in Location
  PROVE  at[t][x] <= onHand[t] /\ \A y \in Location : at[t][y] \in Int
<1>1. \A y \in Location : at[t][y] \in Nat
  BY DEF StockInv, TypeOK
<1>2. at[t][x] <= SumFunctionOnSet(at[t], Location)
  BY <1>1, StockAssumption, SumNat
<1> QED BY <1>1, <1>2 DEF StockInv, StockAccounted

\* What is left available bounds what a transfer or a restriction may take.
LEMMA AvailableBounds ==
  ASSUME StockInv, NEW t \in Tranche
  PROVE  /\ onHand[t] \in Nat
         /\ Restricted(t) \in Nat
         /\ onHand[t] + Outstanding(t, AllKinds) = tranche[t]
         /\ Restricted(t) + Outstanding(t, {"damage"}) <= tranche[t]
BY DEF StockInv, TypeOK, StockAccounted, Restricted, Restriction, AllKinds

\* What a step leaves alone stays accounted for.
LEMMA UntouchedAccounted ==
  ASSUME NEW t \in Tranche, AccountedFor(t),
         at'[t] = at[t], onHand'[t] = onHand[t], overlay'[t] = overlay[t],
         writeOff'[t] = writeOff[t], tranche'[t] = tranche[t]
  PROVE  AccountedFor(t)'
<1>1. Restricted(t)' = Restricted(t)
  BY DEF Restricted
<1>2. \A kinds : Outstanding(t, kinds)' = Outstanding(t, kinds)
  BY DEF Outstanding
<1> QED BY <1>1, <1>2 DEF AccountedFor

\* A step that keeps one tranche accounted for and leaves the others alone.
LEMMA OneTrancheStep ==
  ASSUME StockInv, NEW t \in Tranche, AccountedFor(t)',
         \A u \in Tranche \ {t} :
           /\ at'[u] = at[u] /\ onHand'[u] = onHand[u] /\ overlay'[u] = overlay[u]
           /\ writeOff'[u] = writeOff[u] /\ tranche'[u] = tranche[u]
  PROVE  StockAccounted'
<1>1. \A u \in Tranche : AccountedFor(u)
  BY DEF StockInv, StockAccounted, AccountedFor
<1>2. \A u \in Tranche \ {t} : AccountedFor(u)'
  BY <1>1, UntouchedAccounted
<1>3. \A u \in Tranche : AccountedFor(u)'
  BY <1>2
<1> QED BY <1>3 DEF StockAccounted, AccountedFor

LEMMA ReleaseKeepsStock ==
  ASSUME StockInv, GoodsTypeOK', NEW p \in Person, NEW t \in Tranche, NEW n \in Quantity,
         ReleaseToStock(p, t, n)
  PROVE  TypeOK' /\ StockAccounted' /\ CorrectedWithin'
<1>1. /\ tranche[t] = 0
      /\ tranche' = [tranche EXCEPT ![t] = n]
      /\ at' = [at EXCEPT ![t][home[t]] = n]
      /\ onHand' = [onHand EXCEPT ![t] = n]
      /\ UNCHANGED <<home, overlay, writeOff>>
  BY DEF ReleaseToStock, Release
<1>2. n \in Nat
  BY GoodsAssumption DEF Quantity
<1>3. /\ tranche \in [Tranche -> Nat]
      /\ home \in [Tranche -> Location]
      /\ at \in [Tranche -> [Location -> Nat]]
      /\ onHand \in [Tranche -> Nat]
  BY DEF StockInv, TypeOK, GoodsTypeOK
<1>4. /\ onHand[t] = 0
      /\ Restricted(t) = 0
      /\ Outstanding(t, AllKinds) = 0
      /\ Outstanding(t, {"damage"}) = 0
  BY <1>1, AvailableBounds, OutstandingBounds DEF StockInv
<1>5. TypeOK'
  BY <1>1, <1>2, <1>3 DEF StockInv, TypeOK
<1>6. AccountedFor(t)'
  <2>1. at'[t] = [at[t] EXCEPT ![home[t]] = n]
    BY <1>1, <1>3
  <2>2. at[t][home[t]] = 0
    BY <1>3, <1>4, LocationBounds
  <2>3. at[t] \in [Location -> Int] /\ home[t] \in Location /\ n \in Int
    BY <1>2, <1>3
  <2>4. SumFunctionOnSet(at'[t], Location) = SumFunctionOnSet(at[t], Location) + (n - at[t][home[t]])
    BY <2>1, <2>3, LocationMoves
  <2>5. SumFunctionOnSet(at[t], Location) = 0
    BY <1>4 DEF StockInv, StockAccounted
  <2>6. Restricted(t)' = Restricted(t) /\ \A kinds : Outstanding(t, kinds)' = Outstanding(t, kinds)
    BY <1>1 DEF Restricted, Outstanding
  <2>7. onHand'[t] = n /\ tranche'[t] = n
    BY <1>1, <1>3
  <2> QED BY <1>2, <1>4, <2>2, <2>4, <2>5, <2>6, <2>7 DEF AccountedFor, AllKinds
<1>7. StockAccounted'
  BY <1>1, <1>3, <1>6, OneTrancheStep
<1>8. CorrectedWithin'
  BY <1>1 DEF StockInv, CorrectedWithin
<1> QED BY <1>5, <1>7, <1>8

LEMMA TransferKeepsStock ==
  ASSUME StockInv, GoodsTypeOK', NEW t \in Tranche, NEW n \in Quantity,
         NEW from \in Location, NEW to \in Location, Transfer(t, n, from, to)
  PROVE  TypeOK' /\ StockAccounted' /\ CorrectedWithin'
<1>1. /\ from # to
      /\ n <= at[t][from]
      /\ at' = [at EXCEPT ![t][from] = @ - n, ![t][to] = @ + n]
      /\ UNCHANGED <<tranche, home, onHand, overlay, writeOff>>
  BY DEF Transfer, goodsVars
<1>2. n \in Nat
  BY GoodsAssumption DEF Quantity
<1>3. at \in [Tranche -> [Location -> Nat]]
  BY DEF StockInv, TypeOK
<1> DEFINE mid == [at[t] EXCEPT ![from] = at[t][from] - n]
<1>4. mid \in [Location -> Nat] /\ mid[to] = at[t][to]
  BY <1>1, <1>2, <1>3
<1>5. at'[t] = [mid EXCEPT ![to] = at[t][to] + n]
  <2>1. at'[t] = [at[t] EXCEPT ![from] = at[t][from] - n, ![to] = at[t][to] + n]
    BY <1>1, <1>3
  <2>2. [at[t] EXCEPT ![from] = at[t][from] - n, ![to] = at[t][to] + n]
          = [mid EXCEPT ![to] = at[t][to] + n]
    BY <1>1, <1>3
  <2> QED BY <2>1, <2>2
<1>6. TypeOK'
  <2>1. at'[t] \in [Location -> Nat]
    BY <1>2, <1>3, <1>4, <1>5
  <2>2. at' \in [Tranche -> [Location -> Nat]]
    BY <1>1, <1>3, <2>1
  <2> QED BY <1>1, <2>2 DEF StockInv, TypeOK
<1>7. AccountedFor(t)'
  <2>1. SumFunctionOnSet(mid, Location)
          = SumFunctionOnSet(at[t], Location) + ((at[t][from] - n) - at[t][from])
    <3>1. at[t] \in [Location -> Int] /\ (at[t][from] - n) \in Int
      BY <1>2, <1>3
    <3> QED BY <3>1, LocationMoves
  <2>2. SumFunctionOnSet(at'[t], Location)
          = SumFunctionOnSet(mid, Location) + ((at[t][to] + n) - mid[to])
    <3>1. mid \in [Location -> Int] /\ (at[t][to] + n) \in Int
      BY <1>2, <1>3, <1>4
    <3> HIDE DEF mid
    <3> QED BY <3>1, <1>5, LocationMoves
  <2>3. SumFunctionOnSet(at[t], Location) = onHand[t] /\ onHand[t] \in Nat
    BY DEF StockInv, StockAccounted, TypeOK
  <2>4. SumFunctionOnSet(at'[t], Location) = onHand'[t]
    <3>1. at[t][from] \in Int /\ at[t][to] \in Int /\ n \in Int /\ onHand'[t] = onHand[t]
      BY <1>1, <1>2, <1>3
    <3> HIDE DEF mid
    <3> QED BY <1>4, <2>1, <2>2, <2>3, <3>1
  <2>5. Restricted(t)' = Restricted(t) /\ \A kinds : Outstanding(t, kinds)' = Outstanding(t, kinds)
    BY <1>1 DEF Restricted, Outstanding
  <2> QED BY <1>1, <2>4, <2>5 DEF AccountedFor, StockInv, StockAccounted
<1>8. StockAccounted'
  BY <1>1, <1>3, <1>7, OneTrancheStep
<1>9. CorrectedWithin'
  BY <1>1 DEF StockInv, CorrectedWithin
<1> QED BY <1>6, <1>8, <1>9

\* A restriction comes out of what is on hand and not restricted yet.
LEMMA RestrictKeepsStock ==
  ASSUME StockInv, GoodsTypeOK', NEW t \in Tranche, NEW n \in Quantity,
         \/ \E o \in Restriction : RestrictStock(t, n, o)
         \/ LiftHold(t, n)
  PROVE  TypeOK' /\ StockAccounted' /\ CorrectedWithin'
<1>1. UNCHANGED <<tranche, home, at, onHand, writeOff>>
  BY DEF RestrictStock, LiftHold, goodsVars
<1>2. n \in Nat
  BY GoodsAssumption DEF Quantity
<1>3. overlay \in [Tranche -> [Restriction -> Nat]]
  BY DEF StockInv, TypeOK
<1>4. /\ TypeOK'
      /\ \A u \in Tranche \ {t} : overlay'[u] = overlay[u]
      /\ Restricted(t)' <= Restricted(t) \/ Restricted(t)' <= onHand[t]
  <2>1. CASE \E o \in Restriction : RestrictStock(t, n, o)
    <3>1. PICK o \in Restriction : RestrictStock(t, n, o)
      BY <2>1
    <3>2. overlay' = [overlay EXCEPT ![t][o] = overlay[t][o] + n]
      BY <3>1 DEF RestrictStock
    <3>3. overlay' \in [Tranche -> [Restriction -> Nat]]
      BY <3>2, <1>2, <1>3
    <3>4. n <= onHand[t] - Restricted(t)
      BY <3>1 DEF RestrictStock, Covered
    <3>5. Restricted(t)' = Restricted(t) + n
      <4>1. overlay[t]["held"] \in Nat /\ overlay[t]["damaged"] \in Nat
        BY <1>3 DEF Restriction
      <4>2. CASE o = "held"
        <5>1. overlay'[t]["held"] = overlay[t]["held"] + n
              /\ overlay'[t]["damaged"] = overlay[t]["damaged"]
          BY <1>3, <3>2, <4>2 DEF Restriction
        <5> QED BY <4>1, <5>1, <1>2 DEF Restricted
      <4>3. CASE o = "damaged"
        <5>1. overlay'[t]["damaged"] = overlay[t]["damaged"] + n
              /\ overlay'[t]["held"] = overlay[t]["held"]
          BY <1>3, <3>2, <4>3 DEF Restriction
        <5> QED BY <4>1, <5>1, <1>2 DEF Restricted
      <4> QED BY <4>2, <4>3 DEF Restriction
    <3>6. Restricted(t)' <= onHand[t]
      BY <1>2, <3>4, <3>5, AvailableBounds
    <3> QED BY <1>1, <1>3, <3>2, <3>3, <3>6 DEF StockInv, TypeOK
  <2>2. CASE LiftHold(t, n)
    <3>1. n <= overlay[t]["held"] /\ overlay' = [overlay EXCEPT ![t]["held"] = overlay[t]["held"] - n]
      BY <2>2 DEF LiftHold
    <3>2. overlay[t]["held"] \in Nat /\ overlay[t]["damaged"] \in Nat /\ overlay[t]["held"] - n \in Nat
      BY <1>2, <1>3, <3>1 DEF Restriction
    <3>3. overlay' \in [Tranche -> [Restriction -> Nat]]
      BY <3>1, <3>2, <1>3
    <3>4. overlay'[t]["held"] = overlay[t]["held"] - n
          /\ overlay'[t]["damaged"] = overlay[t]["damaged"]
      BY <1>3, <3>1 DEF Restriction
    <3>5. Restricted(t)' <= Restricted(t)
      BY <1>2, <3>2, <3>4 DEF Restricted
    <3> QED BY <1>1, <1>3, <3>1, <3>3, <3>5 DEF StockInv, TypeOK
  <2> QED BY <2>1, <2>2
<1>5. AccountedFor(t)'
  <2>1. \A kinds : Outstanding(t, kinds)' = Outstanding(t, kinds)
    BY <1>1 DEF Outstanding
  <2>2. Restricted(t)' \in Int
    BY <1>4 DEF TypeOK, Restricted, Restriction
  <2>3. Restricted(t)' + Outstanding(t, {"damage"}) <= tranche[t]
    <3>1. /\ Outstanding(t, {"damage"}) \in Nat
          /\ Outstanding(t, AllKinds) \in Nat
          /\ Outstanding(t, {"damage"}) <= Outstanding(t, AllKinds)
      BY OutstandingBounds DEF StockInv
    <3>2. tranche[t] \in Nat
      BY DEF StockInv, TypeOK, GoodsTypeOK
    <3> QED BY <1>4, <2>2, <3>1, <3>2, AvailableBounds
  <2> QED BY <1>1, <2>1, <2>3 DEF AccountedFor, StockInv, StockAccounted
<1>6. StockAccounted'
  BY <1>1, <1>4, <1>5, OneTrancheStep
<1>7. CorrectedWithin'
  BY <1>1 DEF StockInv, CorrectedWithin
<1> QED BY <1>4, <1>6, <1>7

\* A write-off takes from one location, from the whole, and stands against both.
LEMMA RemoveKeepsStock ==
  ASSUME StockInv, GoodsTypeOK', NEW t \in Tranche, NEW n \in Quantity,
         NEW from \in Location, NEW w \in WriteOff,
         WriteOffDamage(t, n, from, w) \/ WriteOffOther(t, n, from, w)
  PROVE  TypeOK' /\ StockAccounted' /\ CorrectedWithin'
<1>1. PICK kind \in {"damage", "other"} :
        /\ Remove(t, n, from, w, kind)
        /\ kind = "damage" => /\ n <= overlay[t]["damaged"]
                              /\ overlay' = [overlay EXCEPT ![t]["damaged"] = overlay[t]["damaged"] - n]
        /\ kind = "other" => overlay' = overlay
  BY DEF WriteOffDamage, WriteOffOther
<1> DEFINE row == [kind |-> kind, amount |-> n, corrected |-> 0]
<1>2. /\ writeOff[t][w].amount = 0
      /\ n <= at[t][from]
      /\ at' = [at EXCEPT ![t][from] = at[t][from] - n]
      /\ onHand' = [onHand EXCEPT ![t] = onHand[t] - n]
      /\ writeOff' = [writeOff EXCEPT ![t][w] = row]
      /\ UNCHANGED <<tranche, home>>
  BY <1>1 DEF Remove, Present, goodsVars
<1>3. n \in Nat /\ row \in WriteOffRow
  BY GoodsAssumption DEF Quantity, WriteOffRow
<1>4. /\ at \in [Tranche -> [Location -> Nat]]
      /\ onHand \in [Tranche -> Nat]
      /\ overlay \in [Tranche -> [Restriction -> Nat]]
      /\ writeOff \in [Tranche -> [WriteOff -> WriteOffRow]]
      /\ tranche \in [Tranche -> Nat]
  BY DEF StockInv, TypeOK, GoodsTypeOK
<1>5. at[t][from] \in Nat /\ onHand[t] \in Nat /\ at[t][from] <= onHand[t]
  BY <1>4, LocationBounds
<1>6. (at[t][from] - n) \in Nat /\ (onHand[t] - n) \in Nat
  BY <1>2, <1>3, <1>5
<1>7. overlay[t]["held"] \in Nat /\ overlay[t]["damaged"] \in Nat
  BY <1>4 DEF Restriction
<1>8. /\ overlay' \in [Tranche -> [Restriction -> Nat]]
      /\ \A u \in Tranche \ {t} : overlay'[u] = overlay[u]
      /\ Restricted(t)' = Restricted(t) - (IF kind = "damage" THEN n ELSE 0)
  <2>1. CASE kind = "damage"
    <3>1. overlay[t]["damaged"] - n \in Nat
      BY <1>1, <1>3, <1>7, <2>1
    <3>2. overlay' = [overlay EXCEPT ![t]["damaged"] = overlay[t]["damaged"] - n]
      BY <1>1, <2>1
    <3>3. overlay'[t]["damaged"] = overlay[t]["damaged"] - n
          /\ overlay'[t]["held"] = overlay[t]["held"]
      BY <1>4, <3>2 DEF Restriction
    <3>4. overlay' \in [Tranche -> [Restriction -> Nat]]
      BY <1>4, <3>1, <3>2
    <3>5. Restricted(t)' = Restricted(t) - n
      BY <1>3, <1>7, <3>3 DEF Restricted
    <3> QED BY <1>4, <2>1, <3>2, <3>4, <3>5
  <2>2. CASE kind = "other"
    <3>1. overlay' = overlay
      BY <1>1, <2>2
    <3>2. Restricted(t)' = Restricted(t)
      BY <3>1 DEF Restricted
    <3>3. Restricted(t) \in Int
      BY <1>7 DEF Restricted
    <3> QED BY <1>4, <2>2, <3>1, <3>2, <3>3
  <2> QED BY <2>1, <2>2
<1>9. TypeOK'
  <2>1. at' \in [Tranche -> [Location -> Nat]]
    BY <1>2, <1>4, <1>6
  <2>2. onHand' \in [Tranche -> Nat]
    BY <1>2, <1>4, <1>6
  <2>3. writeOff' \in [Tranche -> [WriteOff -> WriteOffRow]]
    <3> HIDE DEF row
    <3> QED BY <1>2, <1>3, <1>4
  <2> QED BY <1>2, <1>8, <2>1, <2>2, <2>3 DEF StockInv, TypeOK
<1>10. writeOff[t][w].corrected = 0
  BY <1>2, <1>4 DEF StockInv, CorrectedWithin, WriteOffRow
<1>11. AccountedFor(t)'
  <2>1. \A kinds : Outstanding(t, kinds)' = Outstanding(t, kinds) + (IF kind \in kinds THEN n ELSE 0)
    <3> SUFFICES ASSUME NEW kinds
                 PROVE  Outstanding(t, kinds)' =
                          Outstanding(t, kinds) + (IF kind \in kinds THEN n ELSE 0)
      OBVIOUS
    <3>1. writeOff'[t] = [writeOff[t] EXCEPT ![w] = row]
      BY <1>2, <1>4
    <3>2. Owed(writeOff[t], kinds)[w] = 0
      BY <1>2, <1>10 DEF Owed
    <3>3. Outstanding(t, kinds)' =
            Outstanding(t, kinds)
              + ((IF row.kind \in kinds THEN row.amount - row.corrected ELSE 0)
                 - Owed(writeOff[t], kinds)[w])
      <4> HIDE DEF row
      <4> QED BY <1>3, <3>1, OutstandingMoves DEF StockInv
    <3> QED BY <1>3, <3>2, <3>3
  <2>2. Outstanding(t, AllKinds)' = Outstanding(t, AllKinds) + (IF kind \in AllKinds THEN n ELSE 0)
    BY <2>1
  <2>3. Outstanding(t, {"damage"})' = Outstanding(t, {"damage"}) + (IF kind \in {"damage"} THEN n ELSE 0)
    BY <2>1
  <2>4. Outstanding(t, AllKinds) \in Nat /\ Outstanding(t, {"damage"}) \in Nat
    BY OutstandingBounds DEF StockInv
  <2>5. at'[t] = [at[t] EXCEPT ![from] = at[t][from] - n]
    BY <1>2, <1>4
  <2>6. at[t] \in [Location -> Int] /\ (at[t][from] - n) \in Int
    BY <1>4, <1>6
  <2>7. SumFunctionOnSet(at'[t], Location)
          = SumFunctionOnSet(at[t], Location) + ((at[t][from] - n) - at[t][from])
    BY <2>5, <2>6, LocationMoves
  <2>8. SumFunctionOnSet(at[t], Location) = onHand[t]
    BY DEF StockInv, StockAccounted
  <2>9. onHand'[t] = onHand[t] - n /\ tranche'[t] = tranche[t]
    BY <1>2, <1>4
  <2>10. onHand'[t] = SumFunctionOnSet(at'[t], Location)
    BY <1>3, <1>5, <2>7, <2>8, <2>9
  <2>11. onHand'[t] + Outstanding(t, AllKinds)' = tranche'[t]
    BY <1>3, <1>5, <2>2, <2>4, <2>9, AvailableBounds DEF AllKinds
  <2>12. Restricted(t)' + Outstanding(t, {"damage"})' <= tranche'[t]
    BY <1>3, <1>8, <2>3, <2>4, <2>9, AvailableBounds
  <2> QED BY <2>10, <2>11, <2>12 DEF AccountedFor, AllKinds
<1>12. StockAccounted'
  BY <1>2, <1>4, <1>8, <1>11, OneTrancheStep
<1>13. CorrectedWithin'
  BY <1>2, <1>3, <1>4 DEF StockInv, CorrectedWithin
<1> QED BY <1>9, <1>12, <1>13

\* A correction gives back no more than its write-off took.
LEMMA CorrectKeepsStock ==
  ASSUME StockInv, GoodsTypeOK', NEW t \in Tranche, NEW n \in Quantity,
         NEW counted \in Location, NEW w \in WriteOff, Correct(t, n, counted, w)
  PROVE  TypeOK' /\ StockAccounted' /\ CorrectedWithin'
<1> DEFINE old == writeOff[t][w]
           row == [kind |-> old.kind, amount |-> old.amount, corrected |-> old.corrected + n]
<1>1. /\ at \in [Tranche -> [Location -> Nat]]
      /\ onHand \in [Tranche -> Nat]
      /\ writeOff \in [Tranche -> [WriteOff -> WriteOffRow]]
      /\ tranche \in [Tranche -> Nat]
  BY DEF StockInv, TypeOK, GoodsTypeOK
<1>2. old \in WriteOffRow
  BY <1>1
<1>3. /\ n <= old.amount - old.corrected
      /\ at' = [at EXCEPT ![t][counted] = at[t][counted] + n]
      /\ onHand' = [onHand EXCEPT ![t] = onHand[t] + n]
      /\ UNCHANGED <<tranche, home, overlay>>
  BY DEF Correct, Uncorrected, goodsVars
<1>4. writeOff' = [writeOff EXCEPT ![t][w] = row]
  <2>1. writeOff' = [writeOff EXCEPT ![t][w].corrected = writeOff[t][w].corrected + n]
    BY DEF Correct
  <2>2. [old EXCEPT !.corrected = old.corrected + n] = row
    BY <1>2 DEF WriteOffRow
  <2> QED BY <1>1, <2>1, <2>2
<1>5. n \in Nat /\ row \in WriteOffRow
  BY <1>2, GoodsAssumption DEF Quantity, WriteOffRow
<1>6. at[t][counted] + n \in Nat /\ onHand[t] + n \in Nat
  BY <1>1, <1>5
<1>7. TypeOK'
  <2>1. at' \in [Tranche -> [Location -> Nat]]
    BY <1>1, <1>3, <1>6
  <2>2. onHand' \in [Tranche -> Nat]
    BY <1>1, <1>3, <1>6
  <2>3. writeOff' \in [Tranche -> [WriteOff -> WriteOffRow]]
    <3> HIDE DEF row
    <3> QED BY <1>1, <1>4, <1>5
  <2> QED BY <1>3, <2>1, <2>2, <2>3 DEF StockInv, TypeOK
<1>8. AccountedFor(t)'
  <2>1. \A kinds : Outstanding(t, kinds)' = Outstanding(t, kinds) - (IF old.kind \in kinds THEN n ELSE 0)
    <3> SUFFICES ASSUME NEW kinds
                 PROVE  Outstanding(t, kinds)' =
                          Outstanding(t, kinds) - (IF old.kind \in kinds THEN n ELSE 0)
      OBVIOUS
    <3>1. writeOff'[t] = [writeOff[t] EXCEPT ![w] = row]
      BY <1>1, <1>4
    <3>2. Owed(writeOff[t], kinds)[w] = IF old.kind \in kinds THEN old.amount - old.corrected ELSE 0
      BY DEF Owed
    <3>3. Outstanding(t, kinds)' =
            Outstanding(t, kinds)
              + ((IF row.kind \in kinds THEN row.amount - row.corrected ELSE 0)
                 - Owed(writeOff[t], kinds)[w])
      <4> HIDE DEF row
      <4> QED BY <1>5, <3>1, OutstandingMoves DEF StockInv
    <3>4. Outstanding(t, kinds) \in Int
      <4>1. \A v \in WriteOff : Owed(writeOff[t], kinds)[v] \in Int
        BY OutstandingIsOwed DEF StockInv
      <4>2. SumFunctionOnSet(Owed(writeOff[t], kinds), WriteOff) \in Int
        BY <4>1, StockAssumption, SumInt
      <4> QED BY <4>2, OutstandingIsOwed DEF StockInv
    <3>5. old.amount \in Int /\ old.corrected \in Int
      BY <1>2 DEF WriteOffRow
    <3> HIDE DEF old
    <3> QED BY <1>5, <3>2, <3>3, <3>4, <3>5
  <2>2. Outstanding(t, AllKinds)' = Outstanding(t, AllKinds) - n
    <3>1. old.kind \in AllKinds
      BY <1>2 DEF WriteOffRow, AllKinds
    <3> QED BY <2>1, <3>1
  <2>3. Outstanding(t, {"damage"})' = Outstanding(t, {"damage"}) - (IF old.kind \in {"damage"} THEN n ELSE 0)
    BY <2>1
  <2>4. Outstanding(t, AllKinds) \in Nat /\ Outstanding(t, {"damage"}) \in Nat
    BY OutstandingBounds DEF StockInv
  <2>5. at'[t] = [at[t] EXCEPT ![counted] = at[t][counted] + n]
    BY <1>1, <1>3
  <2>6. at[t] \in [Location -> Int] /\ (at[t][counted] + n) \in Int
    BY <1>1, <1>6
  <2>7. SumFunctionOnSet(at'[t], Location)
          = SumFunctionOnSet(at[t], Location) + ((at[t][counted] + n) - at[t][counted])
    BY <2>5, <2>6, LocationMoves
  <2>8. SumFunctionOnSet(at[t], Location) = onHand[t] /\ onHand[t] \in Nat /\ at[t][counted] \in Nat
    BY <1>1 DEF StockInv, StockAccounted
  <2>9. onHand'[t] = onHand[t] + n /\ tranche'[t] = tranche[t]
    BY <1>1, <1>3
  <2>10. onHand'[t] = SumFunctionOnSet(at'[t], Location)
    BY <1>5, <2>7, <2>8, <2>9
  <2>11. onHand'[t] + Outstanding(t, AllKinds)' = tranche'[t]
    BY <1>5, <2>2, <2>4, <2>8, <2>9, AvailableBounds
  <2>12. Restricted(t)' = Restricted(t)
    BY <1>3 DEF Restricted
  <2>13. Restricted(t)' + Outstanding(t, {"damage"})' <= tranche'[t]
    <3>1. tranche[t] \in Nat
      BY <1>1
    <3> QED BY <1>5, <2>3, <2>4, <2>9, <2>12, <3>1, AvailableBounds
  <2> QED BY <2>10, <2>11, <2>13 DEF AccountedFor, AllKinds
<1>9. StockAccounted'
  BY <1>1, <1>3, <1>4, <1>8, OneTrancheStep
<1>10. CorrectedWithin'
  <2> SUFFICES ASSUME NEW u \in Tranche, NEW v \in WriteOff
               PROVE  writeOff'[u][v].corrected <= writeOff'[u][v].amount
    BY DEF CorrectedWithin
  <2>1. CASE u = t /\ v = w
    <3>1. writeOff'[u][v] = row
      BY <1>1, <1>4, <2>1
    <3>2. old.amount \in Nat /\ old.corrected \in Nat
      BY <1>2 DEF WriteOffRow
    <3> QED BY <1>3, <1>5, <3>1, <3>2
  <2>2. CASE ~(u = t /\ v = w)
    <3>1. writeOff'[u][v] = writeOff[u][v]
      BY <1>1, <1>4, <2>2
    <3> QED BY <3>1 DEF StockInv, CorrectedWithin
  <2> QED BY <2>1, <2>2
<1> QED BY <1>7, <1>9, <1>10

-----------------------------------------------------------------------------
LEMMA StockInitially == Init => StockInv
<1> SUFFICES ASSUME Init PROVE StockInv
  OBVIOUS
<1>1. GoodsInv
  BY GoodsInitially
<1>2. TypeOK
  BY <1>1 DEF Init, GoodsInv, TypeOK, WriteOffRow
<1>3. CorrectedWithin
  BY DEF Init, CorrectedWithin
<1>4. StockAccounted
  <2> SUFFICES ASSUME NEW t \in Tranche PROVE AccountedFor(t)
    BY DEF StockAccounted, AccountedFor
  <2>1. SumFunctionOnSet(at[t], Location) = 0
    BY StockAssumption, SumZero DEF Init
  <2>2. ASSUME NEW kinds PROVE Outstanding(t, kinds) = 0
    <3>1. \A w \in WriteOff : Owed(writeOff[t], kinds)[w] = 0
      BY DEF Init, Owed
    <3>2. SumFunctionOnSet(Owed(writeOff[t], kinds), WriteOff) = 0
      BY <3>1, StockAssumption, SumZero
    <3> QED BY <1>2, <3>2, OutstandingIsOwed
  <2>3. onHand[t] = 0 /\ tranche[t] = 0 /\ Restricted(t) = 0
    BY DEF Init, GoodsInit, Restricted, Restriction
  <2> QED BY <2>1, <2>2, <2>3 DEF AccountedFor
<1> QED BY <1>1, <1>2, <1>3, <1>4 DEF StockInv

LEMMA StockInductive == StockInv /\ [Next]_vars => StockInv'
<1> SUFFICES ASSUME StockInv, [Next]_vars PROVE StockInv'
  OBVIOUS
<1>1. GoodsInv' /\ GoodsTypeOK'
  BY GoodsInductive DEF StockInv, GoodsInv
<1>2. ASSUME UNCHANGED <<tranche, home, at, onHand, overlay, writeOff>>
      PROVE  TypeOK' /\ StockAccounted' /\ CorrectedWithin'
  <2>1. TypeOK' /\ CorrectedWithin'
    BY <1>1, <1>2 DEF StockInv, TypeOK, CorrectedWithin
  <2>2. \A t \in Tranche : AccountedFor(t)'
    BY <1>2, UntouchedAccounted DEF StockInv, StockAccounted, AccountedFor
  <2> QED BY <2>1, <2>2 DEF StockAccounted, AccountedFor
<1>3. CASE QuarantineNext /\ UNCHANGED stockVars
  <2>1. tranche' = tranche
    BY <1>3 DEF QuarantineNext, FinishPacking, ReconcilePacked, CreateLot, Expire,
                ResolveDeviation, Read, Inspect, OpenDeviation, Hold, Reject
  <2> QED BY <1>1, <1>2, <1>3, <2>1 DEF stockVars, StockInv
<1>4. CASE \E p \in Person, t \in Tranche, n \in Quantity : ReleaseToStock(p, t, n)
  BY <1>1, <1>4, ReleaseKeepsStock DEF StockInv
<1>5. CASE StockNext
  <2>1. PICK t \in Tranche, n \in Quantity :
          \/ \E from, to \in Location : Transfer(t, n, from, to)
          \/ (\E o \in Restriction : RestrictStock(t, n, o)) \/ LiftHold(t, n)
          \/ \E x \in Location, w \in WriteOff :
               (WriteOffDamage(t, n, x, w) \/ WriteOffOther(t, n, x, w)) \/ Correct(t, n, x, w)
    BY <1>5 DEF StockNext
  <2>2. TypeOK' /\ StockAccounted' /\ CorrectedWithin'
    BY <1>1, <2>1, TransferKeepsStock, RestrictKeepsStock, RemoveKeepsStock, CorrectKeepsStock
  <2> QED BY <1>1, <2>2 DEF StockInv
<1>6. CASE UNCHANGED vars
  BY <1>1, <1>2, <1>6 DEF vars, StockInv
<1> QED BY <1>3, <1>4, <1>5, <1>6 DEF Next

\* TypeOK: no balance, overlay or write-off of any tranche ever goes negative,
\* although losses look at one location only and restrictions at none.
THEOREM StockTypes == Spec => []TypeOK
<1>1. StockInv => TypeOK
  BY DEF StockInv
<1> QED BY <1>1, StockInitially, StockInductive, PTL DEF Spec

\* StockAccounted: locations, write-offs and corrections of any number add up
\* to what quality released.
THEOREM StockIsAccounted == Spec => []StockAccounted
<1>1. StockInv => StockAccounted
  BY DEF StockInv
<1> QED BY <1>1, StockInitially, StockInductive, PTL DEF Spec
=============================================================================
