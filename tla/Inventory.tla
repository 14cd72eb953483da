------------------------------ MODULE Inventory ------------------------------
(***************************************************************************)
(* The inventory service: stock levels, time-bounded reservations and the  *)
(* sweeper that expires them (services/inventory/internal/store/store.go). *)
(*                                                                         *)
(* Reserve, Commit, Release and AdjustStock each run in one row-locked     *)
(* PostgreSQL transaction, so each is one atomic action.  ExpireDue is not *)
(* one transaction: it selects the due reservations through the pool (its  *)
(* row locks are gone when the statement ends), then releases each one in  *)
(* a transaction of its own, then writes that reservation's                *)
(* ReservationExpired outbox row in another statement.  Those are separate *)
(* actions here, and every replica of the service runs its own sweeper.    *)
(***************************************************************************)
EXTENDS Integers, FiniteSetsExt, Functions

CONSTANTS Products,        \* product ids
          Reservations,    \* reservation ids, each used by one Reserve call
          Sweepers,        \* replicas of the service running runSweeper
          MaxQty,          \* bound on a reservation line's quantity
          Deltas,          \* the deltas operators pass to AdjustStock
          DefaultOnHand,   \* stock seeded by the catalog consumer
          SweepLimit,      \* LIMIT of one ExpireDue call
          MaxStock,        \* bound on on_hand for AdjustStock
          MaxSweepFaults   \* bound on sweeps cut short by an error or a crash

ASSUME InventoryConstants ==
    /\ MaxQty \in Nat /\ DefaultOnHand \in Nat /\ SweepLimit \in Nat
    /\ MaxStock \in Nat /\ MaxSweepFaults \in Nat
    /\ Deltas \subseteq Int

VARIABLES rows,          \* products that have a stock row
          onHand,        \* stock.on_hand
          reserved,      \* stock.reserved
          rstatus,       \* reservations.status ("NONE": not yet inserted)
          items,         \* reservation_items: quantity per product, 0 = no line
          due,           \* reservations past their expires_at
          todo,          \* per sweeper: selected and not yet released
          emitting,      \* per sweeper: released, ReservationExpired not yet written
          expiredEvents, \* number of ReservationExpired outbox rows per reservation
          lastStock,     \* last stock_changed outbox row per product, {} if none
          sweepFaults,   \* sweeps cut short so far
          supplied,      \* history: units brought into stock, until the product shrinks
          shrunk         \* history: products that saw a negative AdjustStock

stockVars == <<rows, onHand, reserved, lastStock, supplied, shrunk>>
sweepVars == <<todo, emitting, expiredEvents, sweepFaults>>
vars == <<stockVars, rstatus, items, due, sweepVars>>

Lines == [Products -> 0..MaxQty]
NoLines == [p \in Products |-> 0]
RStatus == {"NONE", "HELD", "COMMITTED", "RELEASED"}

TypeOK ==
    /\ rows \subseteq Products
    /\ onHand \in [Products -> Nat]
    /\ reserved \in [Products -> Nat]
    /\ rstatus \in [Reservations -> RStatus]
    /\ items \in [Reservations -> Lines]
    /\ due \subseteq Reservations
    /\ todo \in [Sweepers -> SUBSET Reservations]
    /\ emitting \in [Sweepers -> SUBSET Reservations]
    /\ expiredEvents \in [Reservations -> Nat]
    /\ lastStock \in [Products -> SUBSET (Nat \X Nat)]
    /\ sweepFaults \in 0..MaxSweepFaults
    /\ supplied \in [Products -> Nat]
    /\ shrunk \subseteq Products

Init ==
    /\ rows = {}
    /\ onHand = [p \in Products |-> 0]
    /\ reserved = [p \in Products |-> 0]
    /\ rstatus = [r \in Reservations |-> "NONE"]
    /\ items = [r \in Reservations |-> NoLines]
    /\ due = {}
    /\ todo = [s \in Sweepers |-> {}]
    /\ emitting = [s \in Sweepers |-> {}]
    /\ expiredEvents = [r \in Reservations |-> 0]
    /\ lastStock = [p \in Products |-> {}]
    /\ sweepFaults = 0
    /\ supplied = [p \in Products |-> 0]
    /\ shrunk = {}

-----------------------------------------------------------------------------
(* GREATEST(n, 0) in AdjustStock, and the clamps of applyStockDelta.        *)
AtLeastZero(n) == IF n < 0 THEN 0 ELSE n

Available(p) == onHand[p] - reserved[p]

(* outboxStock, in the transaction of every product touched: the row       *)
(* carries the levels the transaction leaves behind.                       *)
OutboxStock(touched) ==
    lastStock' = [p \in Products |-> IF p \in touched
                                     THEN {<<onHand'[p], reserved'[p]>>}
                                     ELSE lastStock[p]]

Touched(lines) == {p \in Products : lines[p] > 0}

(* catalog.product_changed reached the inventory consumer: seed a stock    *)
(* row unless there is one.  This path writes no stock_changed row.        *)
EnsureStockRow(p) ==
    /\ p \notin rows
    /\ rows' = rows \cup {p}
    /\ onHand' = [onHand EXCEPT ![p] = DefaultOnHand]
    /\ supplied' = [supplied EXCEPT ![p] = DefaultOnHand]
    /\ UNCHANGED <<reserved, lastStock, shrunk, rstatus, items, due, sweepVars>>

(* Mutant: what others hold is not subtracted.                             *)
CanReserveOnHand(lines) ==
    \A p \in Touched(lines) : p \in rows /\ onHand[p] >= lines[p]

(* Every line has a stock row with enough free stock; otherwise Reserve    *)
(* answers INSUFFICIENT_STOCK and its transaction rolls back.              *)
CanReserve(lines) ==
    \A p \in Touched(lines) : p \in rows /\ Available(p) >= lines[p]

Reserve(r, lines) ==
    /\ rstatus[r] = "NONE"
    /\ Touched(lines) # {}
    /\ CanReserve(lines)
    /\ rstatus' = [rstatus EXCEPT ![r] = "HELD"]
    /\ items' = [items EXCEPT ![r] = lines]
    /\ onHand' = onHand
    /\ reserved' = [p \in Products |-> reserved[p] + lines[p]]
    /\ OutboxStock(Touched(lines))
    /\ UNCHANGED <<rows, supplied, shrunk, due, sweepVars>>

(* finish(): a reservation that is unknown or already resolved is left     *)
(* alone and the call succeeds; otherwise every line is applied, the sold  *)
(* units leaving on_hand, and the status set.  The first case is what      *)
(* makes Commit and Release idempotent.                                    *)
Finish(r, target, sold) ==
    IF rstatus[r] # "HELD"
    THEN UNCHANGED <<stockVars, rstatus>>
    ELSE /\ rstatus' = [rstatus EXCEPT ![r] = target]
         /\ onHand' = [p \in Products |-> AtLeastZero(onHand[p] - sold[p])]
         /\ reserved' = [p \in Products |-> AtLeastZero(reserved[p] - items[r][p])]
         /\ OutboxStock(Touched(items[r]))
         /\ UNCHANGED <<rows, supplied, shrunk>>

(* Mutants: Commit leaves on_hand alone; Release lacks the HELD guard.     *)
FinishCommitKeepsOnHand(r) == Finish(r, "COMMITTED", NoLines)
FinishReleaseAgain(r) ==
    /\ rstatus' = [rstatus EXCEPT ![r] = IF @ = "NONE" THEN @ ELSE "RELEASED"]
    /\ reserved' = [p \in Products |-> AtLeastZero(reserved[p] - items[r][p])]
    /\ onHand' = onHand
    /\ OutboxStock(Touched(items[r]))
    /\ UNCHANGED <<rows, supplied, shrunk>>

FinishCommit(r) == Finish(r, "COMMITTED", items[r])
FinishRelease(r) == Finish(r, "RELEASED", NoLines)

Commit(r) == FinishCommit(r) /\ UNCHANGED <<items, due, sweepVars>>
Release(r) == FinishRelease(r) /\ UNCHANGED <<items, due, sweepVars>>

(* An operator, or the saga restocking a return, changes on_hand.  It also *)
(* creates a missing stock row.                                            *)
AdjustStock(p, delta) ==
    /\ onHand[p] + delta <= MaxStock
    /\ rows' = rows \cup {p}
    /\ onHand' = [onHand EXCEPT ![p] = AtLeastZero(@ + delta)]
    /\ reserved' = reserved
    /\ OutboxStock({p})
    /\ supplied' = [supplied EXCEPT ![p] = IF delta > 0 /\ p \notin shrunk
                                                THEN @ + delta ELSE @]
    /\ shrunk' = IF delta < 0 THEN shrunk \cup {p} ELSE shrunk
    /\ UNCHANGED <<rstatus, items, due, sweepVars>>

-----------------------------------------------------------------------------
(* Time passes expires_at of a reservation.                                *)
PassExpiry(r) ==
    /\ rstatus[r] # "NONE"
    /\ r \notin due
    /\ due' = due \cup {r}
    /\ UNCHANGED <<stockVars, rstatus, items, sweepVars>>

Idle(s) == todo[s] = {} /\ emitting[s] = {}

(* Mutant: the expiry comparison is the wrong way round.                   *)
ExpireDueSelectUnexpired(s) ==
    /\ Idle(s)
    /\ \E found \in SUBSET {r \in Reservations \ due : rstatus[r] = "HELD"} :
         /\ found # {} /\ Cardinality(found) <= SweepLimit
         /\ todo' = [todo EXCEPT ![s] = found]
    /\ UNCHANGED <<stockVars, rstatus, items, due, emitting, expiredEvents, sweepFaults>>

(* The SELECT of ExpireDue.  SKIP LOCKED leaves out rows a concurrent      *)
(* transaction holds, so any part of the due reservations may come back.   *)
ExpireDueSelect(s) ==
    /\ Idle(s)
    /\ \E found \in SUBSET {r \in due : rstatus[r] = "HELD"} :
         /\ found # {} /\ Cardinality(found) <= SweepLimit
         /\ todo' = [todo EXCEPT ![s] = found]
    /\ UNCHANGED <<stockVars, rstatus, items, due, emitting, expiredEvents, sweepFaults>>

(* The Release call of the loop: a no-op when the reservation was resolved *)
(* after the SELECT.                                                       *)
ExpireDueRelease(s, r) ==
    /\ r \in todo[s] /\ emitting[s] = {}
    /\ FinishRelease(r)
    /\ todo' = [todo EXCEPT ![s] = @ \ {r}]
    /\ emitting' = [emitting EXCEPT ![s] = {r}]
    /\ UNCHANGED <<items, due, expiredEvents, sweepFaults>>

(* emitReservationExpired, a statement of its own.                         *)
ExpireDueEmit(s, r) ==
    /\ r \in emitting[s]
    /\ expiredEvents' = [expiredEvents EXCEPT ![r] = @ + 1]
    /\ emitting' = [emitting EXCEPT ![s] = {}]
    /\ UNCHANGED <<stockVars, rstatus, items, due, todo, sweepFaults>>

(* A statement of the sweep fails, or its replica stops: ExpireDue returns *)
(* and the next tick starts from a fresh SELECT.                           *)
ExpireDueAbort(s) ==
    /\ ~Idle(s)
    /\ sweepFaults < MaxSweepFaults
    /\ sweepFaults' = sweepFaults + 1
    /\ todo' = [todo EXCEPT ![s] = {}]
    /\ emitting' = [emitting EXCEPT ![s] = {}]
    /\ UNCHANGED <<stockVars, rstatus, items, due, expiredEvents>>

SweepStep(s) ==
    \/ ExpireDueSelect(s)
    \/ \E r \in Reservations : ExpireDueRelease(s, r) \/ ExpireDueEmit(s, r)

Next ==
    \/ \E p \in Products : EnsureStockRow(p) \/ \E d \in Deltas : AdjustStock(p, d)
    \/ \E r \in Reservations :
         \/ \E lines \in Lines : Reserve(r, lines)
         \/ Commit(r)
         \/ Release(r)
         \/ PassExpiry(r)
    \/ \E s \in Sweepers : SweepStep(s) \/ ExpireDueAbort(s)

(* runSweeper's ticker keeps every replica sweeping.                       *)
Spec == Init /\ [][Next]_vars /\ \A s \in Sweepers : WF_vars(SweepStep(s))

-----------------------------------------------------------------------------
Units(p, st) ==
    SumFunctionOnSet([r \in Reservations |-> items[r][p]], {r \in Reservations : rstatus[r] = st})

(* stock.reserved is exactly the units of the HELD reservations: no        *)
(* interleaving of Reserve, Commit, Release and the sweepers releases a    *)
(* reservation twice or forgets one (store.go finish, ExpireDue).          *)
ReservedIsHeld == \A p \in Products : reserved[p] = Units(p, "HELD")

(* As long as no operator writes stock off, the units promised never       *)
(* exceed the units on the shelf (the INSUFFICIENT_STOCK check of Reserve, *)
(* across all later commits, releases and expiries).                       *)
NoOvercommit == \A p \in Products \ shrunk : reserved[p] <= onHand[p]

(* Units are neither lost nor made up: what came in is on the shelf or was *)
(* sold by a COMMITTED reservation.  The clamp at zero in applyStockDelta  *)
(* never hides a unit that was sold without being there.                   *)
SoldUnitsWereSupplied ==
    \A p \in Products \ shrunk : onHand[p] + Units(p, "COMMITTED") = supplied[p]

(* The newest stock_changed row of a product carries its current levels,   *)
(* so a consumer that has caught up shows the right availability (package  *)
(* comment of store.go).                                                   *)
StockEventsCurrent ==
    \A p \in Products : lastStock[p] \subseteq {<<onHand[p], reserved[p]>>}

(* A ReservationExpired row is only ever written for a reservation that    *)
(* holds no stock any more, whatever raced with the sweep.                 *)
ExpiredHoldsNothing ==
    \A r \in Reservations :
        expiredEvents[r] > 0 \/ (\E s \in Sweepers : r \in emitting[s])
            => rstatus[r] \in {"COMMITTED", "RELEASED"}

(* A resolved reservation is never resolved differently later: a Release   *)
(* that arrives after the Commit does not put sold units back.             *)
ResolvedIsFinal ==
    [][\A r \in Reservations :
          rstatus[r] \in {"COMMITTED", "RELEASED"} => rstatus'[r] = rstatus[r]]_vars

(* Every reservation past its expiry stops holding stock, although sweeps  *)
(* may be cut short and replicas sweep at the same time.                   *)
DueIsResolved ==
    \A r \in Reservations : (r \in due /\ rstatus[r] = "HELD") ~> rstatus[r] # "HELD"
=============================================================================
