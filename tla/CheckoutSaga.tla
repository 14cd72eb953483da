----------------------------- MODULE CheckoutSaga -----------------------------
(***************************************************************************)
(* The order service's checkout saga composed with the inventory and the   *)
(* payment service (services/order/internal/saga, store, reconcile,        *)
(* consumer and grpcsvc).                                                  *)
(*                                                                         *)
(* An order, its reservation and its payment carry the same id here: the   *)
(* saga opens one reservation and one payment per order id.                *)
(*                                                                         *)
(* Concurrency.  The service runs in several replicas.  A worker is one    *)
(* goroutine of some replica: a Kafka consumer handling a record, an RPC   *)
(* handler cancelling an order, or the reconciler.  Between two steps of a *)
(* worker (a database transaction, an RPC to another service) every other  *)
(* worker may take steps.  store.Apply is two steps: its SELECT takes no   *)
(* row lock, so the status it decides on may be stale when its UPDATE      *)
(* commits.                                                                *)
(*                                                                         *)
(* Faults.  An RPC may fail before or after its effect took place, a       *)
(* transaction may fail and is rolled back, and a worker may crash between *)
(* any two steps, MaxFaults times altogether.                              *)
(***************************************************************************)
EXTENDS Integers, Sequences, FiniteSets

CONSTANTS Orders, Products, Shops, Sweepers,
          Consumers,      \* consumer goroutines of the order service
          Callers,        \* RPC handlers running CancelOrder
          Reconcilers,    \* reconcile.Sweeper goroutines
          InitialStock,   \* units of each product on the shelf
          Attempts,       \* deliveries of a record before it is parked in the DLQ
          MaxCopies,      \* bound on copies of one event on its topic
          Republished,    \* topics whose records the relay publishes again
          MaxFaults,      \* bound on failed calls and crashes
          MaxSweepFaults, \* bound on inventory sweeps cut short
          SweepLimit,     \* LIMIT of the reconciler's query (COMPENSATION_SWEEP_BATCH)
          Expiring        \* orders whose reservation may outlive its TTL

ASSUME SagaConstants ==
    /\ Attempts \in Nat \ {0} /\ MaxCopies \in Nat \ {0}
    /\ MaxFaults \in Nat /\ MaxSweepFaults \in Nat /\ InitialStock \in Nat
    /\ SweepLimit \in Nat \ {0}
    /\ Expiring \subseteq Orders
    /\ IsFiniteSet(Sweepers) /\ Cardinality(Sweepers) <= MaxCopies  \* each sweeper may emit an expiry

VARIABLES \* inventory service
          rows, onHand, reserved, rstatus, items, due, todo, emitting,
          expiredEvents, lastStock, sweepFaults, supplied, shrunk,
          \* payment service
          pstatus, amount, declined, refunded, refunds, payEvents,
          \* order service: the database
          ostatus,     \* orders.status ("NONE": no row)
          older,       \* orders.updated_at: <<a, b>> if a was updated before b
          releasedAt,  \* orders with reservation_released_at set
          voidedAt,    \* orders with payment_voided_at set
          delivered,   \* order_shipment_deliveries: shops per order
          processed,   \* processed_events
          orderEvents, \* order.* outbox rows written, per order
          \* order service: the running code
          checkout,    \* progress of CreateOrder per order id
          worker,      \* local state of each worker
          \* Kafka
          published,   \* records on the topics the order service reads
          closed,      \* records whose offset is committed (handled or parked)
          faults       \* failed calls and crashes so far

invVars == <<rows, onHand, reserved, rstatus, items, due, todo, emitting,
             expiredEvents, lastStock, sweepFaults, supplied, shrunk>>
payVars == <<pstatus, amount, declined, refunded, refunds, payEvents>>
dbVars == <<ostatus, older, releasedAt, voidedAt, delivered, processed, orderEvents>>
busVars == <<published, closed>>
vars == <<invVars, payVars, dbVars, checkout, worker, busVars, faults>>

Inv == INSTANCE Inventory
         WITH Reservations <- Orders, MaxQty <- 1, Deltas <- {}, MaxStock <- InitialStock,
              DefaultOnHand <- InitialStock, SweepLimit <- Cardinality(Orders)
Pay == INSTANCE Payment
         WITH Payments <- Orders, RefundKeys <- {}, NoKey <- "", MaxAmount <- 1

Workers == Consumers \cup Callers \cup Reconcilers
Basket == [p \in Products |-> 1]  \* every cart: one unit of each product
NoShop == "-"

OStatus == {"NONE", "PENDING_PAYMENT", "CONFIRMED", "CANCELLED", "FULFILLED"}
Topics == {"authorized", "failed", "expired", "delivered"}

(* A record of a topic; its copy number stands for its offset, which is    *)
(* what the event id is made of: a record the relay publishes again is a   *)
(* different event to processed_events.                                    *)
Event == [topic : Topics, order : Orders, shop : Shops \cup {NoShop}, copy : 1..MaxCopies]
EventOf(topic, o, shop, copy) == [topic |-> topic, order |-> o, shop |-> shop, copy |-> copy]

Steps == {"commit", "release", "markReleased", "void", "markVoided"}

(* A row PendingCompensations returned: what it lacked when it was read.   *)
Pending == [order : Orders, owes : SUBSET {"release", "void"}]

(* pc: "idle", "apply" (transaction open, order read) or "run" (RPCs and   *)
(* marks in steps are still to be done).  A consumer keeps a record it     *)
(* failed to handle, and how often it tried, until it handles or parks it; *)
(* the reconciler keeps the rows of its list it has not come to.           *)
WorkerState ==
    [pc : {"idle", "apply", "run"}, op : Topics \cup {"cancel", "none"},
     ev : SUBSET Event, order : SUBSET Orders, read : OStatus,
     seen : SUBSET Shops, steps : Seq(Steps), tries : 0..(Attempts - 1),
     list : SUBSET Pending]
IdleWorker == [pc |-> "idle", op |-> "none", ev |-> {}, order |-> {}, read |-> "NONE",
               seen |-> {}, steps |-> <<>>, tries |-> 0, list |-> {}]

TypeOK ==
    /\ Inv!TypeOK /\ Pay!PaymentTypeOK
    /\ ostatus \in [Orders -> OStatus] /\ older \subseteq Orders \X Orders
    /\ releasedAt \subseteq Orders /\ voidedAt \subseteq Orders
    /\ delivered \in [Orders -> SUBSET Shops]
    /\ orderEvents \in [Orders -> SUBSET {"created", "confirmed", "cancelled", "fulfilled"}]
    /\ checkout \in [Orders -> {"start", "reserved", "paid", "undoReserve", "undoBoth",
                                "undoPay", "done", "failed"}]
    /\ worker \in [Workers -> WorkerState]
    /\ published \subseteq Event /\ closed \subseteq published /\ processed \subseteq published
    /\ faults \in 0..MaxFaults

Init ==
    /\ rows = Products /\ shrunk = {} /\ due = {} /\ sweepFaults = 0
    /\ onHand = [p \in Products |-> InitialStock]
    /\ supplied = [p \in Products |-> InitialStock]
    /\ reserved = [p \in Products |-> 0]
    /\ lastStock = [p \in Products |-> {}]
    /\ rstatus = [o \in Orders |-> "NONE"]
    /\ items = [o \in Orders |-> Inv!NoLines]
    /\ todo = [s \in Sweepers |-> {}] /\ emitting = [s \in Sweepers |-> {}]
    /\ expiredEvents = [o \in Orders |-> 0]
    /\ Pay!PaymentInit
    /\ ostatus = [o \in Orders |-> "NONE"] /\ older = {}
    /\ releasedAt = {} /\ voidedAt = {} /\ processed = {}
    /\ delivered = [o \in Orders |-> {}]
    /\ orderEvents = [o \in Orders |-> {}]
    /\ checkout = [o \in Orders |-> "start"]
    /\ worker = [w \in Workers |-> IdleWorker]
    /\ published = {} /\ closed = {} /\ faults = 0

Fault == faults < MaxFaults /\ faults' = faults + 1
NoFault == faults' = faults

(* updated_at = now(): the row is the newest.  (now() is when the           *)
(* transaction began; two that overlap may be the other way round.)        *)
Touch(o) ==
    older' = {pair \in older : o \notin {pair[1], pair[2]}}
                \cup {<<x, o>> : x \in {x \in Orders \ {o} : ostatus[x] # "NONE"}}

-----------------------------------------------------------------------------
(* saga.CreateOrder, steps 3 to 5; each is an RPC or a transaction.        *)
Goto(o, pc) == checkout' = [checkout EXCEPT ![o] = pc]

CreateReserve(o) ==
    /\ checkout[o] = "start"
    /\ \/ Inv!Reserve(o, Basket) /\ Goto(o, "reserved") /\ NoFault
       \/ ~Inv!CanReserve(Basket) /\ Goto(o, "failed") /\ NoFault /\ UNCHANGED invVars
       \/ Fault /\ Goto(o, "failed") /\ (Inv!Reserve(o, Basket) \/ UNCHANGED invVars)
    /\ UNCHANGED <<payVars, dbVars, worker, busVars>>

CreatePayment(o) ==
    /\ checkout[o] = "reserved"
    /\ \/ Pay!Create(o, 1, FALSE) /\ Goto(o, "paid") /\ NoFault
       \/ Fault /\ Goto(o, "undoReserve") /\ (Pay!Create(o, 1, FALSE) \/ UNCHANGED payVars)
    /\ UNCHANGED <<invVars, dbVars, worker, busVars>>

(* InsertWithKey; the idempotency key is modelled in IdempotencyKeys.      *)
InsertOrder(o) ==
    /\ checkout[o] = "paid"
    /\ \/ /\ ostatus' = [ostatus EXCEPT ![o] = "PENDING_PAYMENT"] /\ Touch(o)
          /\ orderEvents' = [orderEvents EXCEPT ![o] = @ \cup {"created"}]
          /\ Goto(o, "done") /\ NoFault
       \/ Fault /\ Goto(o, "undoBoth") /\ UNCHANGED <<ostatus, older, orderEvents>>
    /\ UNCHANGED <<invVars, payVars, releasedAt, voidedAt, delivered, processed, worker, busVars>>

(* compensateRelease and compensateVoid before there is an order row: a    *)
(* failure is logged and nothing records it.                               *)
UndoReserve(o) ==
    /\ checkout[o] \in {"undoReserve", "undoBoth"}
    /\ Goto(o, IF checkout[o] = "undoBoth" THEN "undoPay" ELSE "failed")
    /\ \/ Inv!Release(o) /\ NoFault
       \/ Fault /\ (Inv!Release(o) \/ UNCHANGED invVars)
    /\ UNCHANGED <<payVars, dbVars, worker, busVars>>

UndoPay(o) ==
    /\ checkout[o] = "undoPay"
    /\ Goto(o, "failed")
    /\ \/ Pay!Void(o) /\ NoFault
       \/ Fault /\ (Pay!Void(o) \/ UNCHANGED payVars)
    /\ UNCHANGED <<invVars, dbVars, worker, busVars>>

CrashCheckout(o) ==
    /\ checkout[o] \notin {"start", "done", "failed"}
    /\ Fault /\ Goto(o, "failed")
    /\ UNCHANGED <<invVars, payVars, dbVars, worker, busVars>>

-----------------------------------------------------------------------------
(* domain.Order: the transition table, and Confirm, Cancel and Fulfill as  *)
(* the status they leave, or BAD_TRANSITION.                               *)
CanTransitionTo(from, to) ==
    \/ from = "PENDING_PAYMENT" /\ to \in {"CONFIRMED", "CANCELLED"}
    \/ from = "CONFIRMED" /\ to \in {"FULFILLED", "CANCELLED"}

MoveTo(from, to) == IF from = to \/ CanTransitionTo(from, to) THEN to ELSE "BAD_TRANSITION"

(* Mutant: the first delivery fulfils the order.                           *)
OutcomeFirstDelivery(op, read, seen) ==
    CASE op = "authorized"           -> MoveTo(read, "CONFIRMED")
      [] op \in {"failed", "cancel"} -> MoveTo(read, "CANCELLED")
      [] op = "expired"              -> IF read = "PENDING_PAYMENT" THEN "CANCELLED" ELSE read
      [] op = "delivered"            -> IF read = "CONFIRMED" /\ seen # {}
                                        THEN "FULFILLED" ELSE read

(* The function each caller passes to Apply, and ApplyShipmentDelivered's  *)
(* decision from the shops it counted.                                     *)
Outcome(op, read, seen) ==
    CASE op = "authorized"           -> MoveTo(read, "CONFIRMED")
      [] op \in {"failed", "cancel"} -> MoveTo(read, "CANCELLED")
      [] op = "expired"              -> IF read = "PENDING_PAYMENT" THEN "CANCELLED" ELSE read
      [] op = "delivered"            -> IF read = "CONFIRMED" /\ Shops \subseteq seen
                                        THEN "FULFILLED" ELSE read

OutboxTransition(to) ==
    CASE to = "CONFIRMED" -> {"confirmed"}
      [] to = "CANCELLED" -> {"cancelled"}
      [] to = "FULFILLED" -> {"fulfilled"}

(* Mutant: a failed payment commits the stock.                             *)
FollowUpAlwaysCommits(op, new) ==
    CASE op \in {"authorized", "failed"} -> <<"commit">>
      [] op = "cancel"     -> <<"release", "markReleased", "void", "markVoided">>
      [] op = "expired"    -> IF new = "CANCELLED"
                              THEN <<"markReleased", "void", "markVoided">> ELSE <<>>
      [] op = "delivered"  -> <<>>

(* What the saga still does once Apply has committed.                      *)
FollowUp(op, new) ==
    CASE op = "authorized" -> <<"commit">>
      [] op = "failed"     -> <<"release", "markReleased">>
      [] op = "cancel"     -> <<"release", "markReleased", "void", "markVoided">>
      [] op = "expired"    -> IF new = "CANCELLED"
                              THEN <<"markReleased", "void", "markVoided">> ELSE <<>>
      [] op = "delivered"  -> <<>>

-----------------------------------------------------------------------------
(* A record is handled by one consumer at a time per partition; after a    *)
(* rebalance the same record may be in two consumers' hands, but then the  *)
(* second blocks on processed_events until the first's transaction ends.   *)
MayHandle(w, e) ==
    \A v \in Consumers \ {w} : \A f \in worker[v].ev :
        f.topic = e.topic /\ f.order = e.order => f = e /\ worker[v].pc # "apply"

(* Mutant: a record of an order that does not exist is never skipped.      *)
StartEventKnownOrder(w, e) ==
    /\ worker[w].pc = "idle"
    /\ worker[w].ev = {e} \/ (worker[w].ev = {} /\ e \in published \ closed)
    /\ MayHandle(w, e)
    /\ ostatus[e.order] # "NONE"
    /\ \/ e \in processed /\ closed' = closed \cup {e} /\ worker' = [worker EXCEPT ![w] = IdleWorker]
       \/ /\ e \notin processed /\ closed' = closed
          /\ worker' = [worker EXCEPT ![w] =
                [pc |-> "apply", op |-> e.topic, ev |-> {e}, order |-> {e.order},
                 read |-> ostatus[e.order], steps |-> <<>>, tries |-> worker[w].tries,
                 list |-> {}, seen |-> (delivered[e.order] \cup {e.shop}) \cap Shops]]
    /\ UNCHANGED <<invVars, payVars, dbVars, checkout, published, faults>>

(* consumer.Handler up to and including Apply's SELECT.                    *)
StartEvent(w, e) ==
    /\ worker[w].pc = "idle"
    /\ worker[w].ev = {e} \/ (worker[w].ev = {} /\ e \in published \ closed)
    /\ MayHandle(w, e)
    /\ \/ /\ e \in processed \/ ostatus[e.order] = "NONE"
          /\ closed' = closed \cup {e} /\ worker' = [worker EXCEPT ![w] = IdleWorker]
       \/ /\ e \notin processed /\ ostatus[e.order] # "NONE"
          /\ closed' = closed
          /\ worker' = [worker EXCEPT ![w] =
                [pc |-> "apply", op |-> e.topic, ev |-> {e}, order |-> {e.order},
                 read |-> ostatus[e.order], steps |-> <<>>, tries |-> worker[w].tries,
                 list |-> {}, seen |-> (delivered[e.order] \cup {e.shop}) \cap Shops]]
    /\ UNCHANGED <<invVars, payVars, dbVars, checkout, published, faults>>

(* grpcsvc.CancelOrder up to and including Apply's SELECT.                 *)
StartCancel(w, o) ==
    /\ worker[w].pc = "idle" /\ ostatus[o] # "NONE"
    /\ worker' = [worker EXCEPT ![w] =
          [IdleWorker EXCEPT !.pc = "apply", !.op = "cancel", !.order = {o}, !.read = ostatus[o]]]
    /\ UNCHANGED <<invVars, payVars, dbVars, checkout, busVars, faults>>

(* The rest of Apply: decide on the status read, overwrite the row, record *)
(* the event, write the outbox row, commit.                                *)
ApplyCommit(w, o) ==
    LET me == worker[w]
        new == Outcome(me.op, me.read, me.seen) IN
    /\ me.pc = "apply" /\ o \in me.order /\ new # "BAD_TRANSITION"
    /\ ostatus' = [ostatus EXCEPT ![o] = IF new # me.read THEN new ELSE @]
    /\ IF new # me.read THEN Touch(o) ELSE older' = older
    /\ orderEvents' = [orderEvents EXCEPT ![o] =
                          IF new # me.read THEN @ \cup OutboxTransition(new) ELSE @]
    /\ delivered' = [delivered EXCEPT ![o] =
                          @ \cup ({e.shop : e \in me.ev} \cap Shops)]
    /\ processed' = processed \cup me.ev
    /\ worker' = [worker EXCEPT ![w] =
                    [IdleWorker EXCEPT !.pc = "run", !.ev = me.ev, !.order = me.order,
                                       !.tries = me.tries, !.steps = FollowUp(me.op, new)]]
    /\ UNCHANGED <<invVars, payVars, releasedAt, voidedAt, checkout, busVars, faults>>

(* A handler returned an error: the consumer calls it again for the same   *)
(* record (handleRecord), or parks the record after the last attempt.  An  *)
(* RPC handler just answers.                                               *)
HandlerFails(w) ==
    LET me == worker[w]
        parked == me.ev = {} \/ me.tries + 1 = Attempts IN
    /\ worker' = [worker EXCEPT ![w] =
                    IF parked THEN IdleWorker
                    ELSE [IdleWorker EXCEPT !.ev = me.ev, !.tries = me.tries + 1]]
    /\ closed' = IF parked THEN closed \cup me.ev ELSE closed
    /\ published' = published

(* BAD_TRANSITION, or the transaction itself failed: everything is rolled  *)
(* back, the processed_events row included.                                *)
ApplyFails(w) ==
    LET me == worker[w] IN
    /\ me.pc = "apply"
    /\ \/ Outcome(me.op, me.read, me.seen) = "BAD_TRANSITION" /\ NoFault
       \/ Fault
    /\ HandlerFails(w)
    /\ UNCHANGED <<invVars, payVars, dbVars, checkout>>

-----------------------------------------------------------------------------
NextIs(w, o, step) == worker[w].pc = "run" /\ o \in worker[w].order
                        /\ worker[w].steps # <<>> /\ Head(worker[w].steps) = step
Advance(w, n) == worker' = [worker EXCEPT ![w].steps = SubSeq(@, n + 1, Len(@))]

(* Inventory.Commit from OnPaymentAuthorized: an error is returned to the  *)
(* consumer.                                                               *)
CallCommit(w, o) ==
    /\ NextIs(w, o, "commit")
    /\ \/ Inv!Commit(o) /\ Advance(w, 1) /\ NoFault /\ UNCHANGED busVars
       \/ Fault /\ HandlerFails(w) /\ (Inv!Commit(o) \/ UNCHANGED invVars)
    /\ UNCHANGED <<payVars, dbVars, checkout>>

(* ReleaseReservation and VoidPayment: the RPC, then the mark if the RPC   *)
(* succeeded; an error is logged and the worker goes on.                   *)
CallRelease(w, o) ==
    /\ NextIs(w, o, "release")
    /\ \/ Inv!Release(o) /\ Advance(w, 1) /\ NoFault
       \/ Fault /\ Advance(w, 2) /\ (Inv!Release(o) \/ UNCHANGED invVars)
    /\ UNCHANGED <<payVars, dbVars, checkout, busVars>>

MarkReservationReleased(w, o) ==
    /\ NextIs(w, o, "markReleased")
    /\ Advance(w, 1)
    /\ \/ releasedAt' = releasedAt \cup {o} /\ NoFault
       \/ Fault /\ UNCHANGED releasedAt
    /\ UNCHANGED <<invVars, payVars, ostatus, older, voidedAt, delivered, processed, orderEvents,
                   checkout, busVars>>

(* Mutant: a refused Void is recorded as done.                             *)
CallVoidIgnoresRefusal(w, o) ==
    /\ NextIs(w, o, "void")
    /\ \/ Pay!Void(o) /\ Advance(w, 1) /\ NoFault
       \/ pstatus[o] = "VOIDED" /\ Advance(w, 1) /\ NoFault /\ UNCHANGED payVars
       \/ ~Pay!VoidAccepted(o) /\ Advance(w, 1) /\ NoFault /\ UNCHANGED payVars
       \/ Fault /\ Advance(w, 2) /\ (Pay!Void(o) \/ UNCHANGED payVars)
    /\ UNCHANGED <<invVars, dbVars, checkout, busVars>>

CallVoid(w, o) ==
    /\ NextIs(w, o, "void")
    /\ \/ Pay!Void(o) /\ Advance(w, 1) /\ NoFault
       \/ pstatus[o] = "VOIDED" /\ Advance(w, 1) /\ NoFault /\ UNCHANGED payVars
       \/ ~Pay!VoidAccepted(o) /\ Advance(w, 2) /\ NoFault /\ UNCHANGED payVars
       \/ Fault /\ Advance(w, 2) /\ (Pay!Void(o) \/ UNCHANGED payVars)
    /\ UNCHANGED <<invVars, dbVars, checkout, busVars>>

MarkPaymentVoided(w, o) ==
    /\ NextIs(w, o, "markVoided")
    /\ Advance(w, 1)
    /\ \/ voidedAt' = voidedAt \cup {o} /\ NoFault
       \/ Fault /\ UNCHANGED voidedAt
    /\ UNCHANGED <<invVars, payVars, ostatus, older, releasedAt, delivered, processed, orderEvents,
                   checkout, busVars>>

(* The handler returns nil; a consumer commits the record's offset.  The   *)
(* sweep is over when its list is.                                         *)
Done(w) ==
    /\ worker[w].pc = "run" /\ worker[w].steps = <<>> /\ worker[w].list = {}
    /\ closed' = closed \cup worker[w].ev
    /\ worker' = [worker EXCEPT ![w] = IdleWorker]
    /\ UNCHANGED <<invVars, payVars, dbVars, checkout, published, faults>>

CrashWorker(w) ==
    /\ worker[w] # IdleWorker /\ Fault
    /\ worker' = [worker EXCEPT ![w] = IdleWorker]
    /\ UNCHANGED <<invVars, payVars, dbVars, checkout, busVars>>

-----------------------------------------------------------------------------
(* Mutant: the payment's mark is not looked at.                            *)
PendingRelease(o) == ostatus[o] = "CANCELLED" /\ o \notin releasedAt

(* The rows PendingCompensations selects from: a cancelled order that      *)
(* still owes a release or a void.                                         *)
PendingCompensation(o) == ostatus[o] = "CANCELLED" /\ (o \notin releasedAt \/ o \notin voidedAt)

(* ORDER BY updated_at LIMIT: the oldest of them.                          *)
Page == {o \in Orders : PendingCompensation(o) /\
            Cardinality({x \in Orders : PendingCompensation(x) /\ <<x, o>> \in older}) < SweepLimit}

Owed(o) == (IF o \in releasedAt THEN {} ELSE {"release"}) \cup (IF o \in voidedAt THEN {} ELSE {"void"})

(* reconcile.Sweeper.Sweep: one query, then row by row what the row owed   *)
(* when it was read, whatever comes of the rows before it.                 *)
StartSweep(w) ==
    /\ worker[w].pc = "idle" /\ Page # {}
    /\ worker' = [worker EXCEPT ![w] =
          [IdleWorker EXCEPT !.pc = "run", !.list = {[order |-> o, owes |-> Owed(o)] : o \in Page}]]
    /\ UNCHANGED <<invVars, payVars, dbVars, checkout, busVars, faults>>

SweepNext(w, p) ==
    /\ worker[w].pc = "run" /\ worker[w].steps = <<>> /\ p \in worker[w].list
    /\ worker' = [worker EXCEPT ![w] =
          [IdleWorker EXCEPT !.pc = "run", !.list = worker[w].list \ {p}, !.order = {p.order},
             !.steps = (IF "release" \in p.owes THEN <<"release", "markReleased">> ELSE <<>>)
                    \o (IF "void" \in p.owes THEN <<"void", "markVoided">> ELSE <<>>)]]
    /\ UNCHANGED <<invVars, payVars, dbVars, checkout, busVars, faults>>

-----------------------------------------------------------------------------
(* The shopper confirms the payment of an order that exists.  The outbox   *)
(* row payment writes reaches the order service's topic.                   *)
ConfirmPayment(o, outcome) ==
    /\ ostatus[o] # "NONE"
    /\ Pay!ConfirmPayment(o, outcome)
    /\ published' = published \cup {EventOf(t, o, NoShop, 1) : t \in payEvents'[o]}
    /\ UNCHANGED <<invVars, dbVars, checkout, worker, closed, faults>>

(* Inventory's sweeper, its outbox row included.                           *)
InventorySweep(s) ==
    /\ \/ Inv!ExpireDueSelect(s) /\ published' = published
       \/ \E o \in Orders : Inv!ExpireDueRelease(s, o) /\ published' = published
       \/ \E o \in Orders :
            /\ Inv!ExpireDueEmit(s, o)
            /\ published' = published \cup {EventOf("expired", o, NoShop, expiredEvents'[o])}
    /\ UNCHANGED <<payVars, dbVars, checkout, worker, closed, faults>>

InventoryAbort(s) ==
    Inv!ExpireDueAbort(s) /\ UNCHANGED <<payVars, dbVars, checkout, worker, busVars, faults>>

PassExpiry(o) ==
    /\ o \in Expiring
    /\ Inv!PassExpiry(o)
    /\ UNCHANGED <<payVars, dbVars, checkout, worker, busVars, faults>>

(* Fulfillment ships every order it heard was confirmed and reports each   *)
(* shop's delivery; it does not read order.cancelled.                      *)
ShipmentDelivered(o, shop) ==
    /\ "confirmed" \in orderEvents[o]
    /\ EventOf("delivered", o, shop, 1) \notin published
    /\ published' = published \cup {EventOf("delivered", o, shop, 1)}
    /\ UNCHANGED <<invVars, payVars, dbVars, checkout, worker, closed, faults>>

(* The outbox relay publishes a row again (another replica read it too, or *)
(* the relay stopped before it marked the row published).                  *)
Republish(e) ==
    /\ e.copy < MaxCopies /\ e.topic \in Republished
    /\ [e EXCEPT !.copy = e.copy + 1] \notin published
    /\ published' = published \cup {[e EXCEPT !.copy = e.copy + 1]}
    /\ UNCHANGED <<invVars, payVars, dbVars, checkout, worker, closed, faults>>

-----------------------------------------------------------------------------
CreateStep(o) == CreateReserve(o) \/ CreatePayment(o) \/ InsertOrder(o) \/ UndoReserve(o) \/ UndoPay(o)

RunStep(w) ==
    \/ \E o \in Orders : ApplyCommit(w, o) \/ CallCommit(w, o) \/ CallRelease(w, o) \/ CallVoid(w, o)
                           \/ MarkReservationReleased(w, o) \/ MarkPaymentVoided(w, o)
    \/ \E p \in worker[w].list : SweepNext(w, p)
    \/ ApplyFails(w)
    \/ Done(w)

Next ==
    \/ \E o \in Orders : CreateStep(o) \/ CrashCheckout(o) \/ PassExpiry(o)
    \/ \E o \in Orders, outcome \in {"AUTHORIZE", "FAIL"} : ConfirmPayment(o, outcome)
    \/ \E o \in Orders, shop \in Shops : ShipmentDelivered(o, shop)
    \/ \E w \in Consumers : \E e \in published : StartEvent(w, e)
    \/ \E w \in Callers, o \in Orders : StartCancel(w, o)
    \/ \E w \in Reconcilers : StartSweep(w)
    \/ \E w \in Workers : RunStep(w) \/ CrashWorker(w)
    \/ \E s \in Sweepers : InventorySweep(s) \/ InventoryAbort(s)
    \/ \E e \in published : Republish(e)

(* The goroutines of main.go keep running: a checkout or a handler that    *)
(* was started goes on, the consumers poll, both sweepers tick, and time   *)
(* passes.  The shopper and the carrier owe nothing.                       *)
Fairness ==
    /\ \A o \in Orders : WF_vars(CreateStep(o))
    /\ \A w \in Workers : WF_vars(RunStep(w))
    /\ \A w \in Consumers : WF_vars(\E e \in published : StartEvent(w, e))
    /\ \A w \in Reconcilers : WF_vars(StartSweep(w))
    /\ \A s \in Sweepers : WF_vars(InventorySweep(s))
    /\ \A o \in Orders : WF_vars(PassExpiry(o))

Spec == Init /\ [][Next]_vars /\ Fairness

-----------------------------------------------------------------------------
(* What the order row says about its compensations is true of the other    *)
(* services, through retries, lost answers and crashes: a reservation      *)
(* recorded as released holds no stock, and a payment recorded as voided   *)
(* is voided (ReleaseReservation, VoidPayment, OnReservationExpired).  The *)
(* reconciler never looks at such an order again.                          *)
CompensationsRecordedTruthfully ==
    /\ \A o \in releasedAt : rstatus[o] \in {"COMMITTED", "RELEASED"}
    /\ \A o \in voidedAt : pstatus[o] = "VOIDED"

(* The state has its types, and stock is only sold, and an order only      *)
(* confirmed or fulfilled, when its payment was authorised, whatever the   *)
(* interleaving of events, redelivery and cancellation                     *)
(* (OnPaymentAuthorized).  And a payment is voided only for an order that  *)
(* was announced as cancelled, or that was never stored: an expiry or a    *)
(* redelivered record that finds the order confirmed leaves its payment    *)
(* alone (CompensateCancelled, OnReservationExpired).                      *)
MoneyFollowsOrder ==
    TypeOK /\ \A o \in Orders :
        /\ (\/ rstatus[o] = "COMMITTED"
            \/ ostatus[o] \in {"CONFIRMED", "FULFILLED"}
            \/ "confirmed" \in orderEvents[o])
               => "authorized" \in payEvents[o]
        /\ pstatus[o] = "VOIDED" => ostatus[o] = "NONE" \/ "cancelled" \in orderEvents[o]

(* order.fulfilled is announced only once every shop of the order has      *)
(* delivered (ApplyShipmentDelivered), and only for an order that was      *)
(* confirmed.                                                              *)
FulfilledMeansDelivered ==
    \A o \in Orders : "fulfilled" \in orderEvents[o] =>
        delivered[o] = Shops /\ "confirmed" \in orderEvents[o]

(* No handler wedges its partition: the consumers always catch up again,   *)
(* with every record published so far handled or parked.                   *)
RecordsAreClosed == []<>(published \subseteq closed)

(* The reconciler never comes to the order: its page is full of older      *)
(* orders whose payment FAILED, whose void is refused for ever             *)
(* (OnPaymentFailed marks no void, and Void refuses a failed payment).     *)
Starved(o) ==
    /\ PendingCompensation(o)
    /\ Cardinality({x \in Orders : /\ PendingCompensation(x) /\ <<x, o>> \in older
                                   /\ pstatus[x] = "FAILED"}) >= SweepLimit

(* All records of a topic for the order were parked or dropped.            *)
SetAside(topic, o) ==
    \A e \in published : e.topic = topic /\ e.order = o => e \in closed \ processed

(* payment.authorized was parked, and so was, or was never written, the    *)
(* reservation_expired that would have cancelled the order.                *)
Stranded(o) ==
    /\ ostatus[o] = "PENDING_PAYMENT" /\ SetAside("authorized", o) /\ SetAside("expired", o)
    /\ rstatus[o] # "HELD"
    /\ \A s \in Sweepers : o \notin todo[s] \cup emitting[s]

(* PRD: we never take your money and lose your order.  An authorised       *)
(* payment leads to a confirmed order or is voided, through failing calls, *)
(* crashes and a parked payment.authorized: the expiry of the reservation  *)
(* and the reconciler close the holes.  What they do not close is named:   *)
(* an order starved behind a full page, and one that was set aside twice.  *)
PaidIsHonoured ==
    \A o \in Expiring :
        pstatus[o] = "AUTHORIZED"
            ~> \/ ostatus[o] \in {"CONFIRMED", "FULFILLED"} \/ pstatus[o] = "VOIDED"
               \/ Starved(o) \/ Stranded(o)

(* store.Apply's comment: fn runs inside a row-locked transaction, so the  *)
(* decision is made on the current row and a cancelled order stays         *)
(* cancelled.                                                              *)
CancelledIsFinal ==
    [][\A o \in Orders : ostatus[o] = "CANCELLED" => ostatus'[o] = "CANCELLED"]_vars

(* OnPaymentAuthorized's comment: Commit is idempotent; a transient        *)
(* failure is retried by the consumer.  So the stock of a confirmed order  *)
(* is committed in the end.                                                *)
ConfirmedIsCommitted ==
    \A o \in Orders :
        ostatus[o] = "CONFIRMED" ~> (rstatus[o] = "COMMITTED" \/ ostatus[o] # "CONFIRMED")
=============================================================================
