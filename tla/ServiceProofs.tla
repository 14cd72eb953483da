---------------------------- MODULE ServiceProofs ----------------------------
(***************************************************************************)
(* Proofs about the three services a checkout leans on, each on its own:   *)
(* stock, for any products, reservations, replicas, stock adjustments and  *)
(* bounds; checkout under one idempotency key, for any number of calls and *)
(* requests and any split between the RPC and direct callers; and refunds, *)
(* keyed or not, for any set of payments, refund keys and amounts.  The    *)
(* three specifications share no variable.                                 *)
(***************************************************************************)
EXTENDS Inventory, IdempotencyKeys, Payment, SequenceTheorems, Sums

-----------------------------------------------------------------------------
(* Stock (inventory).                                                      *)

(* A product without a stock row has no stock, no reservation line and no  *)
(* announcement: what lets EnsureStockRow seed a level silently.           *)
RowlessIsBlank ==
    \A p \in Products \ rows :
        /\ onHand[p] = 0 /\ reserved[p] = 0 /\ lastStock[p] = {}
        /\ \A r \in Reservations : items[r][p] = 0

(* ExpireDue works on reservations that exist.                             *)
SelectedExist == \A s \in Sweepers : \A r \in todo[s] : rstatus[r] # "NONE"

StockInv == TypeOK /\ RowlessIsBlank /\ NoOvercommit /\ StockEventsCurrent
SweepInv == TypeOK /\ SelectedExist /\ ExpiredHoldsNothing

-----------------------------------------------------------------------------
(* finish() for either target, per product: a resolved or unknown          *)
(* reservation is left alone.                                              *)
Left(n, q) == IF n - q < 0 THEN 0 ELSE n - q
FinishChanges(r) ==
    /\ rstatus[r] = "HELD"
    /\ \/ rstatus' = [rstatus EXCEPT ![r] = "COMMITTED"]
       \/ rstatus' = [rstatus EXCEPT ![r] = "RELEASED"]
    /\ onHand' \in [Products -> Nat] /\ reserved' \in [Products -> Nat]
    /\ \/ \A p \in Products : onHand'[p] = Left(onHand[p], items[r][p])
       \/ onHand' = onHand
    /\ \A p \in Products : reserved'[p] = Left(reserved[p], items[r][p])
    /\ OutboxStock(Touched(items[r]))

(* Commit and Release change a HELD reservation that way, and no other.    *)
LEMMA FinishEffect ==
    ASSUME TypeOK, NEW r \in Reservations, FinishCommit(r) \/ FinishRelease(r)
    PROVE  /\ UNCHANGED <<rows, supplied, shrunk>>
           /\ UNCHANGED <<onHand, reserved, rstatus, lastStock>> \/ FinishChanges(r)
<1>1. CASE rstatus[r] # "HELD"
  BY <1>1 DEF FinishCommit, FinishRelease, Finish, stockVars
<1>2. CASE rstatus[r] = "HELD"
  <2>1. \A p \in Products : items[r][p] \in Nat /\ onHand[p] \in Nat /\ reserved[p] \in Nat
    BY DEF TypeOK, Lines
  <2>2. CASE FinishCommit(r)
    <3>1. /\ onHand' = [p \in Products |-> AtLeastZero(onHand[p] - items[r][p])]
          /\ reserved' = [p \in Products |-> AtLeastZero(reserved[p] - items[r][p])]
          /\ rstatus' = [rstatus EXCEPT ![r] = "COMMITTED"]
          /\ OutboxStock(Touched(items[r])) /\ UNCHANGED <<rows, supplied, shrunk>>
      BY <1>2, <2>2 DEF FinishCommit, Finish
    <3> QED
      BY <1>2, <2>1, <3>1 DEF FinishChanges, Left, AtLeastZero
  <2>3. CASE FinishRelease(r)
    <3>1. /\ onHand' = [p \in Products |-> AtLeastZero(onHand[p] - NoLines[p])]
          /\ reserved' = [p \in Products |-> AtLeastZero(reserved[p] - items[r][p])]
          /\ rstatus' = [rstatus EXCEPT ![r] = "RELEASED"]
          /\ OutboxStock(Touched(items[r])) /\ UNCHANGED <<rows, supplied, shrunk>>
      BY <1>2, <2>3 DEF FinishRelease, Finish
    <3>2. onHand' = onHand
      BY <2>1, <3>1 DEF TypeOK, AtLeastZero, NoLines
    <3> QED
      BY <1>2, <2>1, <3>1, <3>2 DEF FinishChanges, Left, AtLeastZero, TypeOK
  <2> QED
    BY <2>2, <2>3
<1> QED
  BY <1>1, <1>2

(* Every action keeps levels natural numbers and the tables well formed.   *)
LEMMA StockTypeStep == TypeOK /\ [Next]_vars => TypeOK'
<1> SUFFICES ASSUME TypeOK, [Next]_vars PROVE TypeOK'
  OBVIOUS
<1> USE InventoryConstants DEF TypeOK, RStatus, Lines, stockVars, sweepVars
<1>1. ASSUME NEW p \in Products, EnsureStockRow(p) PROVE TypeOK'
  BY <1>1 DEF EnsureStockRow
<1>2. ASSUME NEW p \in Products, NEW d \in Deltas, AdjustStock(p, d) PROVE TypeOK'
  <2>1. d \in Int
    OBVIOUS
  <2>2. onHand' \in [Products -> Nat] /\ reserved' \in [Products -> Nat]
    BY <1>2, <2>1 DEF AdjustStock, AtLeastZero
  <2>3. supplied' \in [Products -> Nat] /\ rows' \subseteq Products /\ shrunk' \subseteq Products
    BY <1>2, <2>1 DEF AdjustStock
  <2>4. lastStock' \in [Products -> SUBSET (Nat \X Nat)]
    BY <1>2, <2>2 DEF AdjustStock, OutboxStock
  <2> QED
    BY <1>2, <2>2, <2>3, <2>4 DEF AdjustStock
<1>3. ASSUME NEW r \in Reservations, NEW lines \in Lines, Reserve(r, lines) PROVE TypeOK'
  <2>1. onHand' \in [Products -> Nat] /\ reserved' \in [Products -> Nat]
    BY <1>3 DEF Reserve
  <2>2. lastStock' \in [Products -> SUBSET (Nat \X Nat)]
    BY <1>3, <2>1 DEF Reserve, OutboxStock
  <2> QED
    BY <1>3, <2>1, <2>2 DEF Reserve
<1>4. ASSUME NEW r \in Reservations, FinishCommit(r) \/ FinishRelease(r)
      PROVE  /\ rows' \subseteq Products /\ onHand' \in [Products -> Nat]
             /\ reserved' \in [Products -> Nat] /\ rstatus' \in [Reservations -> RStatus]
             /\ lastStock' \in [Products -> SUBSET (Nat \X Nat)]
             /\ supplied' \in [Products -> Nat] /\ shrunk' \subseteq Products
  <2>1. onHand' \in [Products -> Nat] /\ reserved' \in [Products -> Nat]
    BY <1>4, FinishEffect DEF FinishChanges
  <2>2. lastStock' \in [Products -> SUBSET (Nat \X Nat)]
    BY <1>4, <2>1, FinishEffect DEF FinishChanges, OutboxStock
  <2> QED
    BY <1>4, <2>1, <2>2, FinishEffect DEF FinishChanges
<1>5. ASSUME NEW r \in Reservations, Commit(r) \/ Release(r) PROVE TypeOK'
  BY <1>4, <1>5 DEF Commit, Release
<1>6. ASSUME NEW r \in Reservations, PassExpiry(r) PROVE TypeOK'
  BY <1>6 DEF PassExpiry
<1>7. ASSUME NEW s \in Sweepers, ExpireDueSelect(s) PROVE TypeOK'
  BY <1>7 DEF ExpireDueSelect
<1>8. ASSUME NEW s \in Sweepers, NEW r \in Reservations, ExpireDueRelease(s, r) PROVE TypeOK'
  BY <1>4, <1>8 DEF ExpireDueRelease
<1>9. ASSUME NEW s \in Sweepers, NEW r \in Reservations, ExpireDueEmit(s, r) PROVE TypeOK'
  BY <1>9 DEF ExpireDueEmit
<1>10. ASSUME NEW s \in Sweepers, ExpireDueAbort(s) PROVE TypeOK'
  BY <1>10 DEF ExpireDueAbort
<1>11. CASE UNCHANGED vars
  BY <1>11 DEF vars
<1> QED
  BY <1>1, <1>2, <1>3, <1>5, <1>6, <1>7, <1>8, <1>9, <1>10, <1>11 DEF Next, SweepStep

(* Stock and reserved levels stay natural numbers although applyStockDelta *)
(* and AdjustStock subtract: type correctness of the schema.               *)
THEOREM StockTypeCorrect == Spec => []TypeOK
<1>1. Init => TypeOK
  BY InventoryConstants DEF Init, TypeOK, RStatus, Lines, NoLines
<1> QED
  BY <1>1, StockTypeStep, PTL DEF Spec

-----------------------------------------------------------------------------
(* The stock levels, their announcements and the over-commitment bound are *)
(* preserved together.                                                     *)
LEMMA StockStep == StockInv /\ TypeOK' /\ [Next]_vars => StockInv'
<1> SUFFICES ASSUME StockInv, TypeOK', [Next]_vars PROVE StockInv'
  OBVIOUS
<1>1. /\ TypeOK
      /\ \A p \in Products : onHand[p] \in Nat /\ reserved[p] \in Nat
      /\ \A r \in Reservations, p \in Products : items[r][p] \in Nat
      /\ onHand \in [Products -> Nat]
  BY DEF StockInv, TypeOK, Lines
<1>2. RowlessIsBlank /\ NoOvercommit /\ StockEventsCurrent
  BY DEF StockInv
<1>3. ASSUME NEW p \in Products, EnsureStockRow(p) PROVE StockInv'
  <2>1. RowlessIsBlank'
    BY <1>1, <1>2, <1>3 DEF EnsureStockRow, RowlessIsBlank
  <2>2. NoOvercommit'
    BY <1>1, <1>2, <1>3, InventoryConstants DEF EnsureStockRow, RowlessIsBlank, NoOvercommit
  <2>3. StockEventsCurrent'
    BY <1>1, <1>2, <1>3 DEF EnsureStockRow, RowlessIsBlank, StockEventsCurrent
  <2> QED
    BY <2>1, <2>2, <2>3 DEF StockInv
<1>4. ASSUME NEW p \in Products, NEW d \in Deltas, AdjustStock(p, d) PROVE StockInv'
  <2>1. d \in Int
    BY InventoryConstants
  <2>2. \A q \in Products : lastStock'[q] = IF q = p THEN {<<onHand'[q], reserved'[q]>>}
                                                     ELSE lastStock[q]
    BY <1>4 DEF AdjustStock, OutboxStock
  <2>3. \A q \in Products \ {p} : onHand'[q] = onHand[q] /\ reserved'[q] = reserved[q]
    BY <1>1, <1>4 DEF AdjustStock
  <2>4. RowlessIsBlank'
    BY <1>2, <1>4, <2>2, <2>3 DEF AdjustStock, RowlessIsBlank
  <2>5. NoOvercommit'
    <3>1. d >= 0 => reserved'[p] = reserved[p] /\ onHand'[p] = onHand[p] + d
      BY <1>1, <1>4, <2>1 DEF AdjustStock, AtLeastZero
    <3>2. d < 0 => p \in shrunk'
      BY <1>4 DEF AdjustStock
    <3>3. shrunk \subseteq shrunk'
      BY <1>4 DEF AdjustStock
    <3> QED
      BY <1>1, <1>2, <2>1, <2>3, <3>1, <3>2, <3>3 DEF NoOvercommit
  <2>6. StockEventsCurrent'
    BY <1>2, <2>2, <2>3 DEF StockEventsCurrent
  <2> QED
    BY <2>4, <2>5, <2>6 DEF StockInv
<1>5. ASSUME NEW r \in Reservations, NEW lines \in Lines, Reserve(r, lines) PROVE StockInv'
  <2>1. \A p \in Products : lines[p] \in Nat
    BY InventoryConstants DEF Lines
  <2>2. \A p \in Products : lines[p] = 0 \/ (p \in rows /\ onHand[p] - reserved[p] >= lines[p])
    BY <1>5, <2>1 DEF Reserve, CanReserve, Touched, Available
  <2>3. /\ UNCHANGED <<rows, shrunk, onHand>>
        /\ \A p \in Products : reserved'[p] = reserved[p] + lines[p]
        /\ \A p \in Products : lines[p] > 0 => lastStock'[p] = {<<onHand'[p], reserved'[p]>>}
        /\ \A p \in Products : lines[p] = 0 => lastStock'[p] = lastStock[p]
    BY <1>5, <2>1 DEF Reserve, OutboxStock, Touched
  <2>4. \A q \in Reservations, p \in Products : items'[q][p] \in {items[q][p], lines[p]}
    BY <1>1, <1>5 DEF Reserve, TypeOK
  <2>5. RowlessIsBlank'
    <3> SUFFICES ASSUME NEW p \in Products, p \notin rows'
                 PROVE  /\ onHand'[p] = 0 /\ reserved'[p] = 0 /\ lastStock'[p] = {}
                        /\ \A q \in Reservations : items'[q][p] = 0
      BY DEF RowlessIsBlank
    <3>1. lines[p] = 0 /\ p \notin rows
      BY <2>2, <2>3
    <3>2. /\ onHand[p] = 0 /\ reserved[p] = 0 /\ lastStock[p] = {}
          /\ \A q \in Reservations : items[q][p] = 0
      BY <1>2, <3>1 DEF RowlessIsBlank
    <3> QED
      BY <2>3, <2>4, <3>1, <3>2
  <2>6. NoOvercommit'
    BY <1>1, <1>2, <2>1, <2>2, <2>3 DEF NoOvercommit
  <2>7. StockEventsCurrent'
    <3> SUFFICES ASSUME NEW p \in Products
                 PROVE  lastStock'[p] \subseteq {<<onHand'[p], reserved'[p]>>}
      BY DEF StockEventsCurrent
    <3>1. CASE lines[p] > 0
      BY <2>3, <3>1
    <3>2. CASE lines[p] = 0
      <4>1. lastStock'[p] = lastStock[p] /\ onHand'[p] = onHand[p] /\ reserved'[p] = reserved[p]
        BY <1>1, <2>3, <3>2
      <4>2. lastStock[p] \subseteq {<<onHand[p], reserved[p]>>}
        BY <1>2 DEF StockEventsCurrent
      <4> QED
        BY <4>1, <4>2
    <3> QED
      BY <2>1, <3>1, <3>2
  <2> QED
    BY <2>5, <2>6, <2>7 DEF StockInv
<1>6. ASSUME NEW r \in Reservations, FinishCommit(r) \/ FinishRelease(r), UNCHANGED items
      PROVE StockInv'
  <2>1. UNCHANGED <<rows, shrunk>>
    BY <1>1, <1>6, FinishEffect
  <2>2. CASE UNCHANGED <<onHand, reserved, rstatus, lastStock>>
    BY <1>2, <1>6, <2>1, <2>2 DEF StockInv, RowlessIsBlank, NoOvercommit, StockEventsCurrent
  <2>3. CASE FinishChanges(r)
    <3>1. /\ \A p \in Products : items[r][p] > 0 => lastStock'[p] = {<<onHand'[p], reserved'[p]>>}
          /\ \A p \in Products : items[r][p] = 0 => lastStock'[p] = lastStock[p]
      BY <1>1, <2>3 DEF FinishChanges, OutboxStock, Touched
    <3>2. \A p \in Products : /\ items[r][p] = 0 => onHand'[p] = onHand[p] /\ reserved'[p] = reserved[p]
                              /\ reserved[p] <= onHand[p] => reserved'[p] <= onHand'[p]
      BY <1>1, <2>3 DEF FinishChanges, Left
    <3>3. RowlessIsBlank'
      <4> SUFFICES ASSUME NEW p \in Products, p \notin rows'
                   PROVE  /\ onHand'[p] = 0 /\ reserved'[p] = 0 /\ lastStock'[p] = {}
                          /\ \A q \in Reservations : items'[q][p] = 0
        BY DEF RowlessIsBlank
      <4>1. /\ onHand[p] = 0 /\ reserved[p] = 0 /\ lastStock[p] = {}
            /\ \A q \in Reservations : items[q][p] = 0
        BY <1>2, <2>1 DEF RowlessIsBlank
      <4> QED
        BY <1>6, <3>1, <3>2, <4>1
    <3>4. NoOvercommit'
      <4> SUFFICES ASSUME NEW p \in Products, p \notin shrunk' PROVE reserved'[p] <= onHand'[p]
        BY DEF NoOvercommit
      <4>1. reserved[p] <= onHand[p]
        BY <1>2, <2>1 DEF NoOvercommit
      <4> QED
        BY <3>2, <4>1
    <3>5. StockEventsCurrent'
      <4> SUFFICES ASSUME NEW p \in Products
                   PROVE  lastStock'[p] \subseteq {<<onHand'[p], reserved'[p]>>}
        BY DEF StockEventsCurrent
      <4>1. CASE items[r][p] > 0
        BY <3>1, <4>1
      <4>2. CASE items[r][p] = 0
        <5>1. lastStock'[p] = lastStock[p] /\ onHand'[p] = onHand[p] /\ reserved'[p] = reserved[p]
          BY <3>1, <3>2, <4>2
        <5>2. lastStock[p] \subseteq {<<onHand[p], reserved[p]>>}
          BY <1>2 DEF StockEventsCurrent
        <5> QED
          BY <5>1, <5>2
      <4> QED
        BY <1>1, <4>1, <4>2
    <3> QED
      BY <3>3, <3>4, <3>5 DEF StockInv
  <2> QED
    BY <1>1, <1>6, <2>2, <2>3, FinishEffect
<1>7. ASSUME NEW r \in Reservations, Commit(r) \/ Release(r) PROVE StockInv'
  BY <1>6, <1>7 DEF Commit, Release
<1>8. ASSUME NEW s \in Sweepers, NEW r \in Reservations, ExpireDueRelease(s, r) PROVE StockInv'
  BY <1>6, <1>8 DEF ExpireDueRelease
<1>9. ASSUME UNCHANGED <<stockVars, items>> PROVE StockInv'
  BY <1>2, <1>9 DEF stockVars, StockInv, RowlessIsBlank, NoOvercommit, StockEventsCurrent
<1> QED
  BY <1>3, <1>4, <1>5, <1>7, <1>8, <1>9
  DEF Next, SweepStep, PassExpiry, ExpireDueSelect, ExpireDueEmit, ExpireDueAbort, vars

(* StockInv holds in every reachable state.                                *)
THEOREM StockInductive == Spec => []StockInv
<1>1. Init => StockInv
  <2>1. Init => TypeOK
    BY InventoryConstants DEF Init, TypeOK, RStatus, Lines, NoLines
  <2> QED
    BY <2>1 DEF Init, StockInv, RowlessIsBlank, NoOvercommit, StockEventsCurrent, NoLines
<1> QED
  BY <1>1, StockStep, StockTypeCorrect, PTL DEF Spec

(* Reserve never promises more than is on the shelf, whatever commits,     *)
(* releases and sweeps follow, until an operator writes stock off.         *)
THEOREM NeverOvercommitted == Spec => []NoOvercommit
BY StockInductive, PTL DEF StockInv

(* The newest stock_changed row of a product always carries its levels.    *)
THEOREM EventsCurrent == Spec => []StockEventsCurrent
BY StockInductive, PTL DEF StockInv

-----------------------------------------------------------------------------
(* A sweep announces only what holds no stock any more.                    *)
LEMMA SweepInvStep == SweepInv /\ TypeOK' /\ [Next]_vars => SweepInv'
<1> SUFFICES ASSUME SweepInv, TypeOK', [Next]_vars PROVE SweepInv'
  OBVIOUS
<1> USE DEF SweepInv, SelectedExist, ExpiredHoldsNothing, TypeOK, RStatus, stockVars, sweepVars
<1>1. ASSUME NEW r \in Reservations, NEW lines \in Lines, Reserve(r, lines) PROVE SweepInv'
  BY <1>1 DEF Reserve
<1>2. ASSUME NEW r \in Reservations, Commit(r) \/ Release(r) PROVE SweepInv'
  BY <1>2, FinishEffect DEF Commit, Release, FinishChanges
<1>3. ASSUME NEW s \in Sweepers, ExpireDueSelect(s) PROVE SweepInv'
  BY <1>3 DEF ExpireDueSelect
<1>4. ASSUME NEW s \in Sweepers, NEW r \in Reservations, ExpireDueRelease(s, r) PROVE SweepInv'
  <2>1. rstatus'[r] \in {"COMMITTED", "RELEASED"}
    BY <1>4 DEF ExpireDueRelease, FinishRelease, Finish
  <2>2. \A q \in Reservations \ {r} : rstatus'[q] = rstatus[q]
    <3>1. FinishRelease(r)
      BY <1>4 DEF ExpireDueRelease
    <3> QED
      BY <3>1, FinishEffect DEF FinishChanges
  <2> QED
    BY <1>4, <2>1, <2>2 DEF ExpireDueRelease
<1>5. ASSUME NEW s \in Sweepers, NEW r \in Reservations, ExpireDueEmit(s, r) PROVE SweepInv'
  BY <1>5 DEF ExpireDueEmit
<1>6. ASSUME NEW s \in Sweepers, ExpireDueAbort(s) PROVE SweepInv'
  BY <1>6 DEF ExpireDueAbort
<1>7. ASSUME UNCHANGED <<rstatus, sweepVars>> PROVE SweepInv'
  BY <1>7
<1> QED
  BY <1>1, <1>2, <1>3, <1>4, <1>5, <1>6, <1>7
  DEF Next, SweepStep, EnsureStockRow, AdjustStock, PassExpiry, vars

(* Whatever raced with the sweep, a ReservationExpired row is only written *)
(* for a reservation that was committed or released.                       *)
THEOREM ExpiredEventsHoldNothing == Spec => []ExpiredHoldsNothing
<1>1. Init => SweepInv
  <2>1. Init => TypeOK
    BY InventoryConstants DEF Init, TypeOK, RStatus, Lines, NoLines
  <2> QED
    BY <2>1 DEF Init, SweepInv, SelectedExist, ExpiredHoldsNothing
<1> QED
  BY <1>1, SweepInvStep, StockTypeCorrect, PTL DEF Spec, SweepInv

(* Commit and Release settle a reservation for good.                       *)
THEOREM ResolutionIsFinal == Spec => ResolvedIsFinal
<1> DEFINE Step == \A r \in Reservations :
                      rstatus[r] \in {"COMMITTED", "RELEASED"} => rstatus'[r] = rstatus[r]
<1>1. TypeOK /\ [Next]_vars => [Step]_vars
  <2> SUFFICES ASSUME TypeOK, Next PROVE Step
    OBVIOUS
  <2>1. ASSUME NEW r \in Reservations, FinishCommit(r) \/ FinishRelease(r) PROVE Step
    BY <2>1, FinishEffect DEF TypeOK, FinishChanges
  <2>2. ASSUME NEW r \in Reservations, NEW lines \in Lines, Reserve(r, lines) PROVE Step
    BY <2>2 DEF Reserve, TypeOK
  <2> QED
    BY <2>1, <2>2 DEF Next, SweepStep, Commit, Release, EnsureStockRow, AdjustStock, PassExpiry,
                     ExpireDueSelect, ExpireDueRelease, ExpireDueEmit, ExpireDueAbort
<1> QED
  BY <1>1, StockTypeCorrect, PTL DEF Spec, ResolvedIsFinal

-----------------------------------------------------------------------------
Known == {r \in Reservations : rstatus[r] # "NONE"}
With(st) == {r \in Reservations : rstatus[r] = st}
LinesOf(p) == [r \in Reservations |-> items[r][p]]

(* Only finitely many reservations were ever made, and the books balance.  *)
UnitsInv == StockInv /\ IsFiniteSet(Known) /\ ReservedIsHeld /\ SoldUnitsWereSupplied

(* The reservations in a status are finitely many, their units a number,   *)
(* and none of them has more units than all together.                      *)
LEMMA UnitsType ==
    ASSUME TypeOK, IsFiniteSet(Known), NEW p \in Products, NEW st \in {"HELD", "COMMITTED"}
    PROVE  /\ IsFiniteSet(With(st)) /\ Units(p, st) = SumFunctionOnSet(LinesOf(p), With(st))
           /\ \A r \in Reservations : LinesOf(p)[r] = items[r][p] /\ items[r][p] \in Nat
           /\ Units(p, st) \in Nat
           /\ \A r \in With(st) : items[r][p] <= Units(p, st)
<1>1. IsFiniteSet(With(st))
  <2>1. With(st) \subseteq Known
    BY DEF With, Known
  <2> QED
    BY <2>1, FS_Subset
<1>2. Units(p, st) = SumFunctionOnSet(LinesOf(p), With(st))
  BY DEF Units, LinesOf, With
<1>3. \A r \in Reservations : LinesOf(p)[r] = items[r][p] /\ items[r][p] \in Nat
  BY InventoryConstants DEF LinesOf, TypeOK, Lines
<1>4. \A r \in With(st) : LinesOf(p)[r] \in Nat /\ r \in Reservations
  BY <1>3 DEF With
<1>5. Units(p, st) \in Nat
  BY <1>1, <1>2, <1>4, SumType
<1>6. ASSUME NEW r \in With(st) PROVE items[r][p] <= Units(p, st)
  <2>1. IsFiniteSet(With(st) \ {r}) /\ \A q \in With(st) \ {r} : LinesOf(p)[q] \in Nat
    BY <1>1, <1>4, FS_Subset
  <2>2. SumFunctionOnSet(LinesOf(p), With(st) \ {r}) \in Nat
    BY <2>1, SumType
  <2>3. SumFunctionOnSet(LinesOf(p), With(st)) = LinesOf(p)[r] + SumFunctionOnSet(LinesOf(p), With(st) \ {r})
    BY <1>1, <1>4, SumRemove
  <2> QED
    BY <1>2, <1>3, <1>4, <2>2, <2>3
<1> QED
  BY <1>1, <1>2, <1>3, <1>5, <1>6

(* Reserve adds the lines of its reservation to the units held.            *)
LEMMA ReserveUnits ==
    ASSUME TypeOK, IsFiniteSet(Known), NEW r \in Reservations, NEW lines \in Lines, Reserve(r, lines), NEW p \in Products
    PROVE  /\ Units(p, "HELD")' = lines[p] + Units(p, "HELD")
           /\ Units(p, "COMMITTED")' = Units(p, "COMMITTED")
<1> DEFINE f == LinesOf(p)
           g == [q \in Reservations |-> items'[q][p]]
<1>1. \A st \in {"HELD", "COMMITTED"} :
        /\ IsFiniteSet(With(st)) /\ Units(p, st) = SumFunctionOnSet(f, With(st))
        /\ r \notin With(st) /\ With(st) \subseteq Reservations
  BY UnitsType DEF With, Reserve
<1>2. \A st \in {"HELD", "COMMITTED"} : Units(p, st)' = SumFunctionOnSet(g, With(st)')
  BY DEF Units, With
<1>3. With("HELD")' = With("HELD") \cup {r} /\ With("COMMITTED")' = With("COMMITTED")
  BY DEF With, Reserve, TypeOK
<1>4. g[r] = lines[p] /\ \A q \in Reservations \ {r} : g[q] = f[q]
  BY DEF Reserve, TypeOK, LinesOf
<1>5. \A q \in Reservations : g[q] \in Int /\ f[q] \in Int
  <2>1. lines[p] \in Int
    BY InventoryConstants DEF Lines
  <2>2. \A q \in Reservations : f[q] \in Int
    BY UnitsType
  <2> HIDE DEF f, g
  <2> QED
    BY <1>4, <2>1, <2>2
<1> HIDE DEF f, g
<1>6. \A st \in {"HELD", "COMMITTED"} : SumFunctionOnSet(g, With(st)) = SumFunctionOnSet(f, With(st))
  <2> SUFFICES ASSUME NEW st \in {"HELD", "COMMITTED"} PROVE SumFunctionOnSet(g, With(st)) = SumFunctionOnSet(f, With(st))
    OBVIOUS
  <2>1. IsFiniteSet(With(st)) /\ \A q \in With(st) : g[q] = f[q]
    BY <1>1, <1>4
  <2> QED
    BY <2>1, SumSame
<1>7. SumFunctionOnSet(g, With("HELD") \cup {r}) = g[r] + SumFunctionOnSet(g, With("HELD"))
  BY <1>1, <1>5, SumAdd
<1> QED
  BY <1>1, <1>2, <1>3, <1>4, <1>6, <1>7

(* finish() takes them out again, and counts them as sold if it commits.   *)
LEMMA FinishUnits ==
    ASSUME TypeOK, IsFiniteSet(Known), NEW r \in Reservations, FinishChanges(r), UNCHANGED items, NEW p \in Products
    PROVE  /\ Units(p, "HELD")' = Units(p, "HELD") - items[r][p]
           /\ rstatus'[r] = "COMMITTED" => Units(p, "COMMITTED")' = items[r][p] + Units(p, "COMMITTED")
           /\ rstatus'[r] # "COMMITTED" => Units(p, "COMMITTED")' = Units(p, "COMMITTED")
<1> DEFINE f == LinesOf(p)
<1>1. \A st \in {"HELD", "COMMITTED"} :
        /\ IsFiniteSet(With(st)) /\ Units(p, st) = SumFunctionOnSet(f, With(st))
        /\ Units(p, st) \in Nat /\ With(st) \subseteq Reservations
  BY UnitsType DEF With
<1>2. \A q \in Reservations : f[q] = items[q][p] /\ f[q] \in Int
  BY UnitsType
<1>3. \A st \in {"HELD", "COMMITTED"} : Units(p, st)' = SumFunctionOnSet(f, With(st)')
  BY DEF Units, With, LinesOf
<1>4. /\ With("HELD")' = With("HELD") \ {r} /\ r \in With("HELD") /\ r \notin With("COMMITTED")
      /\ rstatus'[r] = "COMMITTED" => With("COMMITTED")' = With("COMMITTED") \cup {r}
      /\ rstatus'[r] # "COMMITTED" => With("COMMITTED")' = With("COMMITTED")
  BY DEF With, FinishChanges, TypeOK
<1> HIDE DEF f
<1>5. SumFunctionOnSet(f, With("HELD")) = f[r] + SumFunctionOnSet(f, With("HELD") \ {r})
  BY <1>1, <1>2, <1>4, SumRemove
<1>6. SumFunctionOnSet(f, With("COMMITTED") \cup {r}) = f[r] + SumFunctionOnSet(f, With("COMMITTED"))
  BY <1>1, <1>2, <1>4, SumAdd
<1>7. SumFunctionOnSet(f, With("HELD") \ {r}) \in Int
  <2>1. IsFiniteSet(With("HELD") \ {r}) /\ \A q \in With("HELD") \ {r} : f[q] \in Int
    BY <1>1, <1>2, FS_Subset
  <2> QED
    BY <2>1, SumType
<1>8. Units(p, "HELD")' = SumFunctionOnSet(f, With("HELD") \ {r})
  BY <1>3, <1>4
<1>9. /\ rstatus'[r] = "COMMITTED" => Units(p, "COMMITTED")' = SumFunctionOnSet(f, With("COMMITTED") \cup {r})
      /\ rstatus'[r] # "COMMITTED" => Units(p, "COMMITTED")' = SumFunctionOnSet(f, With("COMMITTED"))
  BY <1>3, <1>4
<1>10. f[r] = items[r][p] /\ f[r] \in Int
  BY <1>2
<1>11. Units(p, "HELD")' = Units(p, "HELD") - items[r][p]
  BY <1>1, <1>5, <1>7, <1>8, <1>10
<1> QED
  BY <1>1, <1>6, <1>9, <1>10, <1>11

(* Every step keeps the books.                                             *)
LEMMA UnitsStep == UnitsInv /\ StockInv' /\ [Next]_vars => UnitsInv'
<1> SUFFICES ASSUME UnitsInv, StockInv', [Next]_vars PROVE UnitsInv'
  OBVIOUS
<1>1. /\ TypeOK /\ RowlessIsBlank /\ NoOvercommit /\ IsFiniteSet(Known) /\ ReservedIsHeld /\ SoldUnitsWereSupplied
      /\ \A p \in Products : onHand[p] \in Nat /\ reserved[p] \in Nat /\ supplied[p] \in Nat
      /\ onHand \in [Products -> Nat] /\ supplied \in [Products -> Nat]
  BY DEF UnitsInv, StockInv, TypeOK
<1>2. \A p \in Products, r \in Reservations :
        /\ items[r][p] \in Nat /\ Units(p, "HELD") \in Nat /\ Units(p, "COMMITTED") \in Nat
        /\ rstatus[r] = "HELD" => items[r][p] <= Units(p, "HELD")
  BY <1>1, UnitsType DEF With
<1>n. \A p \in Products : Units(p, "HELD") \in Nat /\ Units(p, "COMMITTED") \in Nat
  BY <1>1, UnitsType
<1>3. ASSUME UNCHANGED <<rstatus, items>>
      PROVE  IsFiniteSet(Known') /\ \A p \in Products, st \in {"HELD", "COMMITTED"} : Units(p, st)' = Units(p, st)
  BY <1>1, <1>3 DEF Known, Units
<1>4. ASSUME NEW p \in Products, EnsureStockRow(p) PROVE UnitsInv'
  <2>1. UNCHANGED <<rstatus, items, reserved, shrunk>>
    BY <1>4 DEF EnsureStockRow
  <2>2. Units(p, "COMMITTED") = 0
    <3>1. \A r \in With("COMMITTED") : LinesOf(p)[r] = 0
      BY <1>1, <1>4 DEF RowlessIsBlank, With, LinesOf, EnsureStockRow
    <3> QED
      BY <1>1, <3>1, UnitsType, SumZero
  <2>3. onHand'[p] = supplied'[p] /\ onHand'[p] \in Nat
    BY <1>1, <1>4, InventoryConstants DEF EnsureStockRow
  <2>4. \A q \in Products \ {p} : onHand'[q] = onHand[q] /\ supplied'[q] = supplied[q]
    BY <1>1, <1>4 DEF EnsureStockRow
  <2>5. ReservedIsHeld'
    BY <1>1, <1>3, <2>1 DEF ReservedIsHeld
  <2>6. SoldUnitsWereSupplied'
    BY <1>1, <1>3, <2>1, <2>2, <2>3, <2>4 DEF SoldUnitsWereSupplied
  <2> QED
    BY <1>3, <2>1, <2>5, <2>6 DEF UnitsInv
<1>5. ASSUME NEW p \in Products, NEW d \in Deltas, AdjustStock(p, d) PROVE UnitsInv'
  <2>1. UNCHANGED <<rstatus, items, reserved>> /\ shrunk \subseteq shrunk' /\ d \in Int
    BY <1>5, InventoryConstants DEF AdjustStock
  <2>2. p \notin shrunk' => onHand'[p] = onHand[p] + d /\ supplied'[p] = supplied[p] + d
    BY <1>1, <1>5, <2>1 DEF AdjustStock, AtLeastZero
  <2>3. \A q \in Products \ {p} : onHand'[q] = onHand[q] /\ supplied'[q] = supplied[q]
    BY <1>1, <1>5 DEF AdjustStock
  <2>4. ReservedIsHeld'
    BY <1>1, <1>3, <2>1 DEF ReservedIsHeld
  <2>5. SoldUnitsWereSupplied'
    BY <1>1, <1>n, <1>3, <2>1, <2>2, <2>3 DEF SoldUnitsWereSupplied
  <2> QED
    BY <1>3, <2>1, <2>4, <2>5 DEF UnitsInv
<1>6. ASSUME NEW r \in Reservations, NEW lines \in Lines, Reserve(r, lines) PROVE UnitsInv'
  <2>1. UNCHANGED <<onHand, supplied, shrunk>> /\ \A p \in Products : reserved'[p] = reserved[p] + lines[p]
    BY <1>6 DEF Reserve
  <2>2. IsFiniteSet(Known')
    <3>1. Known' = Known \cup {r}
      BY <1>1, <1>6 DEF Known, Reserve, TypeOK
    <3> QED
      BY <1>1, <3>1, FS_AddElement
  <2>3. \A p \in Products : /\ Units(p, "HELD")' = lines[p] + Units(p, "HELD")
                            /\ Units(p, "COMMITTED")' = Units(p, "COMMITTED")
    BY <1>1, <1>6, ReserveUnits
  <2>4. \A p \in Products : lines[p] \in Nat
    BY InventoryConstants DEF Lines
  <2>5. ReservedIsHeld'
    BY <1>1, <1>n, <2>1, <2>3, <2>4 DEF ReservedIsHeld
  <2>6. SoldUnitsWereSupplied'
    BY <1>1, <2>1, <2>3 DEF SoldUnitsWereSupplied
  <2> QED
    BY <2>2, <2>5, <2>6 DEF UnitsInv
<1>7. ASSUME NEW r \in Reservations, FinishCommit(r) \/ FinishRelease(r), UNCHANGED items PROVE UnitsInv'
  <2>1. UNCHANGED <<supplied, shrunk>>
    BY <1>1, <1>7, FinishEffect
  <2>2. CASE UNCHANGED <<onHand, reserved, rstatus, lastStock>>
    BY <1>1, <1>3, <1>7, <2>1, <2>2 DEF UnitsInv, ReservedIsHeld, SoldUnitsWereSupplied
  <2>3. CASE FinishChanges(r)
    <3>1. Known' = Known /\ rstatus[r] = "HELD"
      BY <1>1, <2>3 DEF Known, FinishChanges, TypeOK
    <3>2. \A p \in Products :
            /\ Units(p, "HELD")' = Units(p, "HELD") - items[r][p]
            /\ rstatus'[r] = "COMMITTED" => Units(p, "COMMITTED")' = items[r][p] + Units(p, "COMMITTED")
            /\ rstatus'[r] # "COMMITTED" => Units(p, "COMMITTED")' = Units(p, "COMMITTED")
      BY <1>1, <1>7, <2>3, FinishUnits
    <3>3. \A p \in Products : items[r][p] <= reserved[p] /\ reserved'[p] = reserved[p] - items[r][p]
      BY <1>1, <1>2, <2>3, <3>1 DEF ReservedIsHeld, FinishChanges, Left
    <3>4. ReservedIsHeld'
      BY <1>1, <3>2, <3>3 DEF ReservedIsHeld
    <3>5. /\ rstatus'[r] # "COMMITTED" => onHand' = onHand
          /\ rstatus'[r] = "COMMITTED" => \A p \in Products : onHand'[p] = Left(onHand[p], items[r][p])
      <4>1. rstatus'[r] = "COMMITTED" <=> FinishCommit(r)
        BY <1>1, <1>7, <3>1 DEF FinishCommit, FinishRelease, Finish, TypeOK
      <4>2. ASSUME FinishCommit(r), NEW p \in Products PROVE onHand'[p] = Left(onHand[p], items[r][p])
        BY <3>1, <4>2 DEF FinishCommit, Finish, AtLeastZero, Left
      <4>3. ASSUME FinishRelease(r) PROVE onHand' = onHand
        BY <1>1, <3>1, <4>3 DEF FinishRelease, Finish, AtLeastZero, NoLines
      <4> QED
        BY <1>7, <4>1, <4>2, <4>3
    <3>6. SoldUnitsWereSupplied'
      <4> SUFFICES ASSUME NEW p \in Products, p \notin shrunk'
                   PROVE  onHand'[p] + Units(p, "COMMITTED")' = supplied'[p]
        BY DEF SoldUnitsWereSupplied
      <4>1. onHand[p] + Units(p, "COMMITTED") = supplied[p] /\ reserved[p] <= onHand[p]
        BY <1>1, <2>1 DEF SoldUnitsWereSupplied, NoOvercommit
      <4>2. items[r][p] <= onHand[p] /\ items[r][p] \in Nat
        BY <1>1, <1>2, <3>3, <4>1
      <4>3. Left(onHand[p], items[r][p]) = onHand[p] - items[r][p]
        BY <1>1, <4>2 DEF Left
      <4> QED
        BY <1>1, <1>n, <2>1, <3>2, <3>5, <4>1, <4>2, <4>3
    <3> QED
      BY <1>1, <3>1, <3>4, <3>6 DEF UnitsInv
  <2> QED
    BY <1>1, <1>7, <2>2, <2>3, FinishEffect
<1>8. ASSUME NEW r \in Reservations, Commit(r) \/ Release(r) PROVE UnitsInv'
  BY <1>7, <1>8 DEF Commit, Release
<1>9. ASSUME NEW s \in Sweepers, NEW r \in Reservations, ExpireDueRelease(s, r) PROVE UnitsInv'
  BY <1>7, <1>9 DEF ExpireDueRelease
<1>10. ASSUME UNCHANGED <<stockVars, rstatus, items>> PROVE UnitsInv'
  BY <1>1, <1>3, <1>10 DEF stockVars, UnitsInv, ReservedIsHeld, SoldUnitsWereSupplied
<1> QED
  BY <1>4, <1>5, <1>6, <1>8, <1>9, <1>10
  DEF Next, SweepStep, PassExpiry, ExpireDueSelect, ExpireDueEmit, ExpireDueAbort, vars

(* UnitsInv holds in every reachable state.                                *)
THEOREM UnitsInductive == Spec => []UnitsInv
<1>1. Init => UnitsInv
  <2> SUFFICES ASSUME Init PROVE UnitsInv
    OBVIOUS
  <2>1. StockInv
    <3>1. TypeOK
      BY InventoryConstants DEF Init, TypeOK, RStatus, Lines, NoLines
    <3> QED
      BY <3>1 DEF Init, StockInv, RowlessIsBlank, NoOvercommit, StockEventsCurrent, NoLines
  <2>2. Known = {} /\ \A st \in {"HELD", "COMMITTED"} : {r \in Reservations : rstatus[r] = st} = {}
    BY DEF Init, Known
  <2>3. \A p \in Products, st \in {"HELD", "COMMITTED"} : Units(p, st) = 0
    BY <2>2, SumEmpty DEF Units
  <2>4. ReservedIsHeld /\ SoldUnitsWereSupplied
    BY <2>3 DEF Init, ReservedIsHeld, SoldUnitsWereSupplied
  <2> QED
    BY <2>1, <2>2, <2>4, FS_EmptySet DEF UnitsInv
<1> QED
  BY <1>1, UnitsStep, StockInductive, PTL DEF Spec

(* stock.reserved is the sum of what the HELD reservations hold, for any   *)
(* number of them and any interleaving of their ends with the sweepers.    *)
THEOREM HeldUnitsReserved == Spec => []ReservedIsHeld
BY UnitsInductive, PTL DEF UnitsInv

(* No unit is lost or made up: on_hand and the units of the COMMITTED      *)
(* reservations add up to what was brought in, so that the clamp at zero   *)
(* of applyStockDelta never hides a missing unit.                          *)
THEOREM SoldUnitsSupplied == Spec => []SoldUnitsWereSupplied
BY UnitsInductive, PTL DEF UnitsInv

-----------------------------------------------------------------------------
(* Checkout (order: idempotency keys).                                     *)

(* Orders placed under the key.                                            *)
Keyed == orders \ ViaRPC

(* As long as no completed row was reaped, an order placed under the key   *)
(* is the one the completed row names, and so is every answer given under  *)
(* it.                                                                     *)
KeyedIsRecorded ==
    ~reaped => \A c \in Keyed : kstatus = "COMPLETED" /\ korder = c
AnswerIsRecorded ==
    ~reaped => \A c \in Calls \ ViaRPC :
        answered[c] # NoOrder => kstatus = "COMPLETED" /\ korder = answered[c]

(* Calls through the RPC never claim, the others never go without a claim. *)
RPCGoesUnkeyed ==
    \A c \in Calls :
        /\ pc[c] \in {"select", "takeover", "working", "failing"} => c \notin ViaRPC
        /\ pc[c] = "unkeyed" => c \in ViaRPC

(* While no call outlived its claim, a claim has one owner, whose request  *)
(* the row carries; a call about to take a stale claim over knows whose it *)
(* is; and a completed row names an order of its own request.              *)
AtWork(c) == pc[c] \in {"working", "failing"}
OneOwner == \A c, d \in Calls : AtWork(c) /\ AtWork(d) => c = d
OwnerIsRecorded ==
    \A c \in Calls : AtWork(c) => kstatus = "IN_FLIGHT" /\ kage = "fresh" /\ kprint = req[c]
TakeoverIsRecorded ==
    \A c \in Calls : pc[c] = "takeover" /\ kstatus = "IN_FLIGHT" /\ kage # "fresh" => kprint = req[c]
CompletedMatches == kstatus = "COMPLETED" => korder \in Calls /\ req[korder] = kprint

OwnerInv ==
    /\ KeysTypeOK /\ AnswerMatchesRequest
    /\ ~outlived => OneOwner /\ OwnerIsRecorded /\ TakeoverIsRecorded /\ CompletedMatches

KeysIndInv == KeysTypeOK /\ KeyNamesOrder /\ KeyedIsRecorded /\ AnswerIsRecorded /\ RPCGoesUnkeyed

-----------------------------------------------------------------------------
(* The schema's types hold in every reachable state.                       *)
THEOREM KeysTypeCorrect == KeysSpec => []KeysTypeOK
<1>1. KeysInit => KeysTypeOK
  BY KeyConstants DEF KeysInit, KeysTypeOK, PC
<1>2. KeysTypeOK /\ [KeysNext]_keysVars => KeysTypeOK'
  <2> SUFFICES ASSUME KeysTypeOK, [KeysNext]_keysVars PROVE KeysTypeOK'
    OBVIOUS
  <2> USE DEF KeysTypeOK, PC, Goto, rowVars, history
  <2>1. ASSUME NEW c \in Calls, CallStep(c) PROVE KeysTypeOK'
    <3>1. CASE CreateOrderRPC(c)
      BY <3>1 DEF CreateOrderRPC
    <3>2. CASE ClaimInsert(c)
      BY <3>2 DEF ClaimInsert
    <3>3. CASE ClaimSelect(c)
      BY <3>3 DEF ClaimSelect
    <3>4. CASE ClaimTakeOver(c)
      BY <3>4 DEF ClaimTakeOver
    <3>5. CASE InsertWithKey(c)
      BY <3>5 DEF InsertWithKey
    <3>6. CASE InsertWithoutKey(c)
      BY <3>6 DEF InsertWithoutKey
    <3>7. CASE CheckoutFails(c)
      BY <3>7 DEF CheckoutFails
    <3>8. CASE ReleaseKey(c)
      BY <3>8 DEF ReleaseKey
    <3> QED
      BY <2>1, <3>1, <3>2, <3>3, <3>4, <3>5, <3>6, <3>7, <3>8 DEF CallStep
  <2>2. ASSUME NEW c \in Calls, Crash(c) PROVE KeysTypeOK'
    BY <2>2 DEF Crash
  <2>3. CASE Age
    BY <2>3 DEF Age
  <2>4. CASE ReapKeys
    BY <2>4 DEF ReapKeys
  <2>5. CASE UNCHANGED keysVars
    BY <2>5 DEF keysVars, history
  <2> QED
    BY <2>1, <2>2, <2>3, <2>4, <2>5 DEF KeysNext
<1> QED
  BY <1>1, <1>2, PTL DEF KeysSpec

(* The inductive invariant is preserved by every statement of              *)
(* ClaimIdempotencyKey, InsertWithKey, the release and the reaper.         *)
LEMMA KeysIndInvStep == KeysIndInv /\ KeysTypeOK' /\ [KeysNext]_keysVars => KeysIndInv'
<1> SUFFICES ASSUME KeysIndInv, KeysTypeOK', [KeysNext]_keysVars PROVE KeysIndInv'
  OBVIOUS
<1> USE KeyConstants DEF KeysIndInv, KeysTypeOK, KeyNamesOrder, KeyedIsRecorded, AnswerIsRecorded,
                         RPCGoesUnkeyed, Keyed, Goto, rowVars, history
<1>1. ASSUME NEW c \in Calls, CallStep(c) PROVE KeysIndInv'
  <2>1. CASE CreateOrderRPC(c)
    BY <2>1 DEF CreateOrderRPC
  <2>2. CASE ClaimInsert(c)
    BY <2>2 DEF ClaimInsert
  <2>3. CASE ClaimSelect(c)
    BY <2>3 DEF ClaimSelect
  <2>4. CASE ClaimTakeOver(c)
    BY <2>4 DEF ClaimTakeOver
  <2>5. CASE InsertWithKey(c)
    BY <2>5 DEF InsertWithKey
  <2>6. CASE InsertWithoutKey(c)
    BY <2>6 DEF InsertWithoutKey
  <2>7. CASE CheckoutFails(c)
    BY <2>7 DEF CheckoutFails
  <2>8. CASE ReleaseKey(c)
    BY <2>8 DEF ReleaseKey
  <2> QED
    BY <1>1, <2>1, <2>2, <2>3, <2>4, <2>5, <2>6, <2>7, <2>8 DEF CallStep
<1>2. ASSUME NEW c \in Calls, Crash(c) PROVE KeysIndInv'
  BY <1>2 DEF Crash
<1>3. CASE Age
  BY <1>3 DEF Age
<1>4. CASE ReapKeys
  BY <1>4 DEF ReapKeys
<1>5. CASE UNCHANGED keysVars
  BY <1>5 DEF keysVars, history
<1> QED
  BY <1>1, <1>2, <1>3, <1>4, <1>5 DEF KeysNext

(* KeysIndInv holds in every reachable state.                                  *)
THEOREM KeysInductive == KeysSpec => []KeysIndInv
<1>1. KeysInit => KeysIndInv
  BY KeyConstants DEF KeysInit, KeysIndInv, KeysTypeOK, PC, KeyNamesOrder, KeyedIsRecorded,
                      AnswerIsRecorded, RPCGoesUnkeyed, Keyed
<1> QED
  BY <1>1, KeysIndInvStep, KeysTypeCorrect, PTL DEF KeysSpec

(* InsertWithKey is "both or neither" for good: a completed key and every  *)
(* answer name an order that was committed.                                *)
THEOREM KeysNameOrders == KeysSpec => []KeyNamesOrder
BY KeysInductive, PTL DEF KeysIndInv

(* At most one order per key, however many CreateOrder calls present it,   *)
(* stall, crash or take each other's claim over.                           *)
THEOREM OneOrder == KeysSpec => []OneOrderPerKey
<1>1. KeysIndInv => OneOrderPerKey
  BY DEF KeysIndInv, KeyedIsRecorded, Keyed, OneOrderPerKey
<1> QED
  BY <1>1, KeysInductive, PTL

(* A retried CreateOrder is answered with the original order.              *)
THEOREM RetriesAgree == KeysSpec => []RetryGetsOriginal
<1>1. KeysIndInv => RetryGetsOriginal
  BY DEF KeysIndInv, AnswerIsRecorded, RetryGetsOriginal
<1> QED
  BY <1>1, KeysInductive, PTL

-----------------------------------------------------------------------------
(* No statement of a call, the clock or the reaper gives a claim a second  *)
(* owner while nobody outlived one.                                        *)
LEMMA OwnerInvStep == OwnerInv /\ KeysTypeOK' /\ [KeysNext]_keysVars => OwnerInv'
<1> SUFFICES ASSUME OwnerInv, KeysTypeOK', [KeysNext]_keysVars, ~outlived' PROVE OwnerInv'
  BY DEF OwnerInv, AnswerMatchesRequest
<1> USE KeyConstants DEF OwnerInv, KeysTypeOK, OneOwner, OwnerIsRecorded, TakeoverIsRecorded,
                         CompletedMatches, AnswerMatchesRequest, AtWork, PC, Goto, rowVars, history
<1>1. ASSUME NEW c \in Calls, CallStep(c) PROVE OwnerInv'
  <2>1. CASE CreateOrderRPC(c)
    BY <2>1 DEF CreateOrderRPC
  <2>2. CASE ClaimInsert(c)
    BY <2>2 DEF ClaimInsert
  <2>3. CASE ClaimSelect(c)
    BY <2>3 DEF ClaimSelect
  <2>4. CASE ClaimTakeOver(c)
    BY <2>4 DEF ClaimTakeOver
  <2>5. CASE InsertWithKey(c)
    BY <2>5 DEF InsertWithKey
  <2>6. CASE InsertWithoutKey(c)
    BY <2>6 DEF InsertWithoutKey
  <2>7. CASE CheckoutFails(c)
    BY <2>7 DEF CheckoutFails
  <2>8. CASE ReleaseKey(c)
    BY <2>8 DEF ReleaseKey
  <2> QED
    BY <1>1, <2>1, <2>2, <2>3, <2>4, <2>5, <2>6, <2>7, <2>8 DEF CallStep
<1>2. ASSUME NEW c \in Calls, Crash(c) PROVE OwnerInv'
  BY <1>2 DEF Crash
<1>3. CASE Age
  BY <1>3 DEF Age
<1>4. CASE ReapKeys
  BY <1>4 DEF ReapKeys
<1>5. CASE UNCHANGED keysVars
  BY <1>5 DEF keysVars
<1> QED
  BY <1>1, <1>2, <1>3, <1>4, <1>5 DEF KeysNext

(* Unless some CreateOrder call outlived StaleInFlightAfter, nobody is     *)
(* answered with the order of a different request.                         *)
THEOREM AnswersMatch == KeysSpec => []AnswerMatchesRequest
<1>1. KeysInit => OwnerInv
  BY KeyConstants DEF KeysInit, OwnerInv, KeysTypeOK, PC, OneOwner, OwnerIsRecorded, TakeoverIsRecorded,
                      CompletedMatches, AnswerMatchesRequest, AtWork
<1>2. OwnerInv => AnswerMatchesRequest
  BY DEF OwnerInv
<1> QED
  BY <1>1, <1>2, OwnerInvStep, KeysTypeCorrect, PTL DEF KeysSpec

-----------------------------------------------------------------------------
(* Refunds (payment).                                                      *)

(* Before a payment exists, and until it is authorised, nothing has been   *)
(* refunded; a created payment is for a positive amount.                   *)
MoneyFollowsStatus ==
    \A p \in Payments :
        /\ pstatus[p] \in {"NONE", "REQUIRES_CONFIRMATION", "FAILED"} => refunded[p] = 0
        /\ pstatus[p] # "NONE" => amount[p] > 0

RefundInv == PaymentTypeOK /\ MoneyFollowsStatus /\ NeverOverRefunded /\ KeyRefundsOnce /\ EventsMatchStatus

-----------------------------------------------------------------------------
(* The schema's types, in particular refunded_cents never leaves           *)
(* 0..amount_cents' range.                                                 *)
LEMMA PaymentTypeStep == PaymentTypeOK /\ [PaymentNext]_paymentVars => PaymentTypeOK'
<1> SUFFICES ASSUME PaymentTypeOK, [PaymentNext]_paymentVars PROVE PaymentTypeOK'
  OBVIOUS
<1> USE PaymentConstants DEF PaymentTypeOK, PStatus
<1>1. ASSUME NEW p \in Payments, NEW cents \in 1..MaxAmount, NEW decline \in BOOLEAN,
             Create(p, cents, decline)
      PROVE PaymentTypeOK'
  BY <1>1 DEF Create
<1>2. ASSUME NEW p \in Payments, NEW to \in {"AUTHORIZED", "FAILED", "VOIDED"}, Transition(p, to)
      PROVE PaymentTypeOK'
  BY <1>2 DEF Transition, EventFor
<1>3. ASSUME NEW p \in Payments, NEW outcome \in {"AUTHORIZE", "FAIL"}, ConfirmPayment(p, outcome)
      PROVE PaymentTypeOK'
  BY <1>2, <1>3 DEF ConfirmPayment
<1>4. ASSUME NEW p \in Payments, Void(p) PROVE PaymentTypeOK'
  BY <1>2, <1>4 DEF Void
<1>5. ASSUME NEW p \in Payments, NEW requested \in 0..MaxAmount,
             NEW key \in RefundKeys \cup {NoKey}, Refund(p, requested, key)
      PROVE PaymentTypeOK'
  <2> DEFINE cents == ResolveRefundAmount(p, requested)
  <2>1. cents \in 1..MaxAmount /\ refunded[p] + cents \in 0..MaxAmount
    BY <1>5 DEF Refund, ResolveRefundAmount, Remaining
  <2>2. [key |-> key, cents |-> cents] \in RefundRow
    BY <2>1 DEF RefundRow
  <2>3. refunds' \in [Payments -> Seq(RefundRow)]
    BY <1>5, <2>2 DEF Refund
  <2> QED
    BY <1>5, <2>1, <2>3 DEF Refund
<1>6. CASE UNCHANGED paymentVars
  BY <1>6 DEF paymentVars
<1> QED
  BY <1>1, <1>3, <1>4, <1>5, <1>6 DEF PaymentNext

(* Type correctness of the payments and refunds tables.                    *)
THEOREM PaymentTypeCorrect == PaymentSpec => []PaymentTypeOK
<1>1. PaymentInit => PaymentTypeOK
  BY PaymentConstants DEF PaymentInit, PaymentTypeOK, PStatus
<1> QED
  BY <1>1, PaymentTypeStep, PTL DEF PaymentSpec

(* A key that is new to a payment's refunds is still used once after the   *)
(* row is appended.                                                        *)
LEMMA KeyStaysUnique ==
    ASSUME NEW table \in Seq(RefundRow), NEW row \in RefundRow,
           \A i, j \in DOMAIN table : table[i].key = table[j].key /\ table[i].key # NoKey => i = j,
           row.key = NoKey \/ \A i \in DOMAIN table : table[i].key # row.key
    PROVE  \A i, j \in DOMAIN Append(table, row) :
              Append(table, row)[i].key = Append(table, row)[j].key
                  /\ Append(table, row)[i].key # NoKey => i = j
<1>1. /\ DOMAIN table = 1..Len(table)
      /\ Append(table, row) \in Seq(RefundRow)
      /\ DOMAIN Append(table, row) = 1..(Len(table) + 1)
      /\ \A i \in 1..Len(table) : Append(table, row)[i] = table[i]
      /\ Append(table, row)[Len(table) + 1] = row
      /\ Len(table) \in Nat
  OBVIOUS
<1> QED
  BY <1>1

(* Every step keeps the money and the announcements consistent.            *)
LEMMA RefundInvStep == RefundInv /\ PaymentTypeOK' /\ [PaymentNext]_paymentVars => RefundInv'
<1> SUFFICES ASSUME RefundInv, PaymentTypeOK', [PaymentNext]_paymentVars PROVE RefundInv'
  OBVIOUS
<1> USE PaymentConstants DEF RefundInv, PaymentTypeOK, PStatus, MoneyFollowsStatus, NeverOverRefunded,
                             EventsMatchStatus
<1>1. ASSUME NEW p \in Payments, NEW cents \in 1..MaxAmount, NEW decline \in BOOLEAN,
             Create(p, cents, decline)
      PROVE RefundInv'
  BY <1>1 DEF Create, KeyRefundsOnce
<1>2. ASSUME NEW p \in Payments, NEW to \in {"AUTHORIZED", "FAILED", "VOIDED"}, Transition(p, to)
      PROVE RefundInv'
  BY <1>2 DEF Transition, canTransition, EventFor, KeyRefundsOnce
<1>3. ASSUME NEW p \in Payments, NEW outcome \in {"AUTHORIZE", "FAIL"}, ConfirmPayment(p, outcome)
      PROVE RefundInv'
  BY <1>2, <1>3 DEF ConfirmPayment
<1>4. ASSUME NEW p \in Payments, Void(p) PROVE RefundInv'
  BY <1>2, <1>4 DEF Void
<1>5. ASSUME NEW p \in Payments, NEW requested \in 0..MaxAmount,
             NEW key \in RefundKeys \cup {NoKey}, Refund(p, requested, key)
      PROVE RefundInv'
  <2> DEFINE cents == ResolveRefundAmount(p, requested)
             row == [key |-> key, cents |-> cents]
  <2>1. cents \in 1..MaxAmount /\ refunded[p] + cents <= amount[p]
    BY <1>5 DEF Refund, ResolveRefundAmount, Remaining
  <2>2. MoneyFollowsStatus' /\ NeverOverRefunded' /\ EventsMatchStatus'
    BY <1>5, <2>1 DEF Refund
  <2>3. KeyRefundsOnce'
    <3>1. row \in RefundRow /\ row.key = key
      BY <2>1 DEF RefundRow
    <3>2. row.key = NoKey \/ \A i \in DOMAIN refunds[p] : refunds[p][i].key # row.key
      BY <1>5, <3>1 DEF Refund, RefundAlreadyApplied
    <3>3. refunds' = [refunds EXCEPT ![p] = Append(@, row)]
      BY <1>5 DEF Refund
    <3>4. \A i, j \in DOMAIN refunds'[p] :
             refunds'[p][i].key = refunds'[p][j].key /\ refunds'[p][i].key # NoKey => i = j
      <4>1. refunds[p] \in Seq(RefundRow)
        OBVIOUS
      <4>2. \A i, j \in DOMAIN refunds[p] :
               refunds[p][i].key = refunds[p][j].key /\ refunds[p][i].key # NoKey => i = j
        BY DEF KeyRefundsOnce
      <4>3. \A i, j \in DOMAIN Append(refunds[p], row) :
               Append(refunds[p], row)[i].key = Append(refunds[p], row)[j].key
                   /\ Append(refunds[p], row)[i].key # NoKey => i = j
        BY <3>1, <3>2, <4>1, <4>2, KeyStaysUnique
      <4> QED
        BY <3>3, <4>3
    <3> QED
      BY <3>3, <3>4 DEF KeyRefundsOnce
  <2> QED
    BY <2>2, <2>3
<1>6. CASE UNCHANGED paymentVars
  BY <1>6 DEF paymentVars, KeyRefundsOnce
<1> QED
  BY <1>1, <1>3, <1>4, <1>5, <1>6 DEF PaymentNext

(* RefundInv holds in every reachable state.                                  *)
THEOREM RefundsInductive == PaymentSpec => []RefundInv
<1>1. PaymentInit => RefundInv
  <2>1. PaymentInit => PaymentTypeOK
    BY PaymentConstants DEF PaymentInit, PaymentTypeOK, PStatus
  <2> QED
    BY <2>1 DEF PaymentInit, RefundInv, MoneyFollowsStatus, NeverOverRefunded, KeyRefundsOnce,
                EventsMatchStatus
<1> QED
  BY <1>1, RefundInvStep, PaymentTypeCorrect, PTL DEF PaymentSpec

(* No sequence of full, partial, keyed and repeated Refund calls gives     *)
(* back more than was taken.                                               *)
THEOREM NoOverRefund == PaymentSpec => []NeverOverRefunded
BY RefundsInductive, PTL DEF RefundInv

(* A Refund repeated under its idempotency key moves money once.           *)
THEOREM KeysRefundOnce == PaymentSpec => []KeyRefundsOnce
BY RefundsInductive, PTL DEF RefundInv

(* What was announced to the saga stays true of the payment.               *)
THEOREM EventsTruthful == PaymentSpec => []EventsMatchStatus
BY RefundsInductive, PTL DEF RefundInv

(* Refunds only ever touch payments that were authorised.                  *)
THEOREM RefundsAuthorized == PaymentSpec => RefundsOnlyAuthorized
<1> DEFINE Step == \A p \in Payments : refunded'[p] # refunded[p] =>
                      /\ "authorized" \in payEvents[p]
                      /\ pstatus[p] \notin {"VOIDED", "FAILED"}
<1>1. RefundInv /\ [PaymentNext]_paymentVars => [Step]_paymentVars
  <2> SUFFICES ASSUME RefundInv, PaymentNext PROVE Step
    OBVIOUS
  <2>1. PICK p \in Payments :
          \/ \E cents \in 1..MaxAmount, decline \in BOOLEAN : Create(p, cents, decline)
          \/ \E outcome \in {"AUTHORIZE", "FAIL"} : ConfirmPayment(p, outcome)
          \/ Void(p)
          \/ \E requested \in 0..MaxAmount, key \in RefundKeys \cup {NoKey} :
                Refund(p, requested, key)
    BY DEF PaymentNext
  <2>2. \/ refunded' = refunded
        \/ /\ pstatus[p] \in {"AUTHORIZED", "REFUNDED"}
           /\ \A q \in Payments \ {p} : refunded'[q] = refunded[q]
    BY <2>1 DEF Create, ConfirmPayment, Void, Transition, Refund, RefundInv, PaymentTypeOK
  <2> QED
    BY <2>2 DEF RefundInv, EventsMatchStatus
<1> QED
  BY <1>1, RefundsInductive, PTL DEF PaymentSpec, RefundsOnlyAuthorized

-----------------------------------------------------------------------------
(* A row more in the refunds table adds its cents to the total.            *)
LEMMA RowAddsItsCents ==
    ASSUME NEW table \in Seq(RefundRow), NEW row \in RefundRow
    PROVE  RefundedTotal(Append(table, row)) = row.cents + RefundedTotal(table)
<1> DEFINE S == DOMAIN table
           n == Len(table) + 1
           f == [i \in S |-> table[i].cents]
           g == [i \in DOMAIN Append(table, row) |-> Append(table, row)[i].cents]
<1>1. /\ S = 1..Len(table) /\ DOMAIN Append(table, row) = S \cup {n} /\ n \notin S
      /\ \A i \in S : Append(table, row)[i] = table[i]
      /\ Append(table, row)[n] = row /\ Len(table) \in Nat
  OBVIOUS
<1>2. IsFiniteSet(S)
  BY <1>1, FS_Interval
<1>3. /\ \A i \in S : g[i] = f[i] /\ f[i] \in Int
      /\ g[n] = row.cents /\ g[n] \in Int
  <2>r. \A x \in RefundRow : x.cents \in Int
    BY PaymentConstants DEF RefundRow
  <2>1. \A i \in S : table[i].cents \in Int
    <3>1. \A i \in S : table[i] \in RefundRow
      BY <1>1
    <3> QED
      BY <2>r, <3>1
  <2>2. row.cents \in Int
    BY <2>r
  <2> QED
    BY <1>1, <2>1, <2>2
<1>4. RefundedTotal(table) = SumFunctionOnSet(f, S) /\ RefundedTotal(Append(table, row)) = SumFunctionOnSet(g, S \cup {n})
  BY <1>1 DEF RefundedTotal
<1> HIDE DEF S, n, f, g
<1>5. SumFunctionOnSet(g, S \cup {n}) = g[n] + SumFunctionOnSet(g, S)
  BY <1>1, <1>2, <1>3, SumAdd
<1>6. SumFunctionOnSet(g, S) = SumFunctionOnSet(f, S)
  BY <1>2, <1>3, SumSame
<1> QED
  BY <1>3, <1>4, <1>5, <1>6

(* refunded_cents is the sum of the refunds table, for any number of       *)
(* partial, full, keyed and repeated Refund calls.                         *)
THEOREM RefundsAddUp == PaymentSpec => []RefundedMatchesRows
<1>1. PaymentInit => RefundedMatchesRows
  <2>1. RefundedTotal(<<>>) = 0
    <3>1. DOMAIN <<>> = {}
      OBVIOUS
    <3> QED
      BY <3>1, SumEmpty DEF RefundedTotal
  <2> QED
    BY <2>1 DEF PaymentInit, RefundedMatchesRows
<1>2. PaymentTypeOK /\ RefundedMatchesRows /\ [PaymentNext]_paymentVars => RefundedMatchesRows'
  <2> SUFFICES ASSUME PaymentTypeOK, RefundedMatchesRows, [PaymentNext]_paymentVars PROVE RefundedMatchesRows'
    OBVIOUS
  <2>1. ASSUME UNCHANGED <<refunded, refunds>> PROVE RefundedMatchesRows'
    BY <2>1 DEF RefundedMatchesRows
  <2>2. ASSUME NEW p \in Payments, NEW requested \in 0..MaxAmount,
               NEW key \in RefundKeys \cup {NoKey}, Refund(p, requested, key)
        PROVE  RefundedMatchesRows'
    <3> DEFINE cents == ResolveRefundAmount(p, requested)
               row == [key |-> key, cents |-> cents]
    <3>1. cents \in 1..MaxAmount
      BY <2>2, PaymentConstants DEF Refund, ResolveRefundAmount, Remaining, PaymentTypeOK
    <3>2. row \in RefundRow /\ row.cents = cents
      BY <3>1 DEF RefundRow
    <3>3. /\ refunds[p] \in Seq(RefundRow) /\ refunded[p] \in Int /\ cents \in Int
          /\ refunds'[p] = Append(refunds[p], row) /\ refunded'[p] = refunded[p] + cents
          /\ \A q \in Payments \ {p} : refunds'[q] = refunds[q] /\ refunded'[q] = refunded[q]
      BY <2>2, <3>1, PaymentConstants DEF Refund, PaymentTypeOK
    <3> HIDE DEF row, cents
    <3>4. RefundedTotal(Append(refunds[p], row)) = cents + RefundedTotal(refunds[p])
      BY <3>2, <3>3, RowAddsItsCents
    <3>5. refunded'[p] = RefundedTotal(refunds'[p])
      BY <3>3, <3>4 DEF RefundedMatchesRows
    <3>6. \A q \in Payments \ {p} : refunded'[q] = RefundedTotal(refunds'[q])
      BY <3>3 DEF RefundedMatchesRows
    <3> QED
      BY <3>5, <3>6 DEF RefundedMatchesRows
  <2> QED
    BY <2>1, <2>2 DEF PaymentNext, Create, ConfirmPayment, Void, Transition, paymentVars
<1> QED
  BY <1>1, <1>2, PaymentTypeCorrect, PTL DEF PaymentSpec
=============================================================================
