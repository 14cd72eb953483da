------------------------------ MODULE AfterSale ------------------------------
(***************************************************************************)
(* What happens once an order is confirmed: fulfillment, payout and review *)
(* each consume order.confirmed on their own, and notification consumes it *)
(* together with what fulfillment announces.  The topics deliver at least  *)
(* once (EventChannel); a record the relay publishes again has another     *)
(* offset and so another event id.  A handler that fails is rolled back    *)
(* and called again; after Attempts calls the record is parked on the      *)
(* topic's .dlq, which nothing reads (pkg/kafka: all four consumers have a *)
(* DeadLetter and none names an error it would wait for).                  *)
(***************************************************************************)
EXTENDS Integers, Sequences, FiniteSets, Access

CONSTANTS Orders, Shops, FirstParty, Lines, OwnerOf, Ratings,
          Carriers, Settlers, Mailers,
          MaxCopies, MaxModerations, MaxMails, SendMayFail,
          Watched,    \* kinds of events the instance sends mails about
          Attempts,   \* KAFKA_RETRY_ATTEMPTS
          MaxFaults,  \* bound on sweeps cut short, settlements and calls that fail
          Deployments \* the sets of services that may be up together

VARIABLES confirmed,
          fProcessed, shipment, shipEvents, targets,
          poProcessed, payout, owed, poEvents, toSettle,
          rProcessed, purchases, drafts, review, rating, reviewEvents,
          nProcessed, sending, mails, noted, announced,
          tries,      \* the failed calls behind a record, per service
          up,         \* the services that are up in this behaviour
          faults

Products == UNION {{l.product : l \in Lines[o]} : o \in Orders}
ShopsOf == [o \in Orders |-> {l.shop : l \in Lines[o]}]
ProductsOf == [o \in Orders |-> {l.product : l \in Lines[o]}]

(* Orders have lines of known shops, each with an amount, and owners; the  *)
(* shops, lines and callers are finitely many; faults and moderations are  *)
(* bounded.                                                                *)
ASSUME AfterSaleConstants ==
    /\ ShopsOf \in [Orders -> (SUBSET Shops) \ {{}}] /\ OwnerOf \in [Orders -> Principals]
    /\ IsFiniteSet(Shops) /\ IsFiniteSet(Principals)
    /\ \A o \in Orders : IsFiniteSet(Lines[o]) /\ \A l \in Lines[o] : l.total \in Nat
    /\ MaxFaults \in Nat /\ MaxModerations \in Nat /\ Attempts \in Nat \ {0}

Notice(kind, o, s, copy) == [kind |-> kind, order |-> o, shop |-> s, copy |-> copy]

(* consumer.extract: the records of the topics as mails to send.           *)
Notices ==
    {n \in {Notice("order_confirmed", r.order, FirstParty, r.copy) : r \in confirmed}
           \cup {Notice("shipment_shipped", x[1], x[2], 1) :
                   x \in {y \in Orders \X Shops : Len(shipEvents[y[1]][y[2]]) > 1
                                                   /\ shipEvents[y[1]][y[2]][2] = "shipped"}}
           \cup {Notice("shipment_delivered", x[1], x[2], 1) :
                   x \in {y \in Orders \X Shops : shipment[y[1]][y[2]] = "DELIVERED"}}
     : n.kind \in Watched}

Ful == INSTANCE Fulfillment
Po  == INSTANCE Payout
Rev == INSTANCE Review
Not == INSTANCE Notification WITH notices <- Notices

fulVars == <<fProcessed, shipment, shipEvents, targets>>
poVars == <<poProcessed, payout, owed, poEvents, toSettle>>
revVars == <<rProcessed, purchases, drafts, review, rating, reviewEvents>>
notVars == <<nProcessed, sending, mails, noted, announced>>
vars == <<confirmed, fulVars, poVars, revVars, notVars, tries, up, faults>>

CommonTypeOK ==
    /\ confirmed \subseteq [order : Orders, copy : 1..MaxCopies]
    /\ \A x \in DOMAIN tries : tries[x] \in Nat
    /\ up \in Deployments /\ faults \in 0..MaxFaults

Init ==
    /\ up \in Deployments /\ confirmed = {} /\ faults = 0 /\ tries = [x \in {} |-> 0]
    /\ Ful!FulInit /\ Po!PoInit /\ Rev!RevInit /\ Not!NotInit

Fault == faults < MaxFaults /\ faults' = faults + 1

(* Consumer.handleRecord and dispatch: a record is tried Attempts times in *)
(* a row and then parked; what a process that stops has counted is lost.   *)
Tries(svc, r) == IF <<svc, r>> \in DOMAIN tries THEN tries[<<svc, r>>] ELSE 0
Parked(svc, r) == Tries(svc, r) >= Attempts
CallFails(svc, r) ==
    tries' = [x \in DOMAIN tries \cup {<<svc, r>>} |-> IF x = <<svc, r>> THEN Tries(svc, r) + 1 ELSE tries[x]]
CountForgotten(svc, r) == tries' = [x \in DOMAIN tries \ {<<svc, r>>} |-> tries[x]]

(* The order service confirms an order (CheckoutSaga), or its relay        *)
(* publishes the outbox row again.                                         *)
Publish(o) ==
    \E c \in 1..MaxCopies :
        /\ [order |-> o, copy |-> c] \notin confirmed
        /\ \A b \in 1..(c - 1) : [order |-> o, copy |-> b] \in confirmed
        /\ confirmed' = confirmed \cup {[order |-> o, copy |-> c]}
        /\ UNCHANGED <<up, fulVars, poVars, revVars, notVars, tries, faults>>

(* The three consumers of order.confirmed, one record each.                *)
Fulfil(r) ==
    /\ ~Parked("fulfillment", r) /\ Ful!CreateShipments(r) /\ CountForgotten("fulfillment", r)
    /\ UNCHANGED <<up, confirmed, poVars, revVars, notVars, faults>>
Owe(r) ==
    /\ ~Parked("payout", r) /\ Po!CreatePayouts(r) /\ CountForgotten("payout", r)
    /\ UNCHANGED <<up, confirmed, fulVars, revVars, notVars, faults>>
Note(r) ==
    /\ ~Parked("review", r) /\ Rev!RecordPurchases(r) /\ CountForgotten("review", r)
    /\ UNCHANGED <<up, confirmed, fulVars, poVars, notVars, faults>>

(* Their handlers' transactions fail, whatever the error is.               *)
RecordFails(svc, r, processed) ==
    /\ r \notin processed /\ ~Parked(svc, r) /\ CallFails(svc, r)
    /\ Fault /\ UNCHANGED <<up, confirmed, fulVars, poVars, revVars, notVars>>

(* The process stops before the offset is committed: the record is handed  *)
(* out again, parked or not.                                               *)
HandedOutAgain(svc, r) ==
    /\ Tries(svc, r) > 0 /\ CountForgotten(svc, r)
    /\ Fault /\ UNCHANGED <<up, confirmed, fulVars, poVars, revVars, notVars>>

Operate(p, o, s) ==
    /\ Ful!MarkShipped(p, o, s) \/ Ful!MarkDelivered(p, o, s) \/ Ful!CancelShipment(p, o, s)
    /\ UNCHANGED <<up, confirmed, poVars, revVars, notVars, tries, faults>>

Sweep(c, due) == Ful!CarrierSweep(c, due) /\ UNCHANGED <<up, confirmed, poVars, revVars, notVars, tries, faults>>
Carry(c) ==
    /\ \E t \in targets[c] : Ful!CarrierAdvance(c, t)
    /\ UNCHANGED <<up, confirmed, poVars, revVars, notVars, tries, faults>>
CarrierStops(c) == Ful!CarrierRestart(c) /\ Fault /\ UNCHANGED <<up, confirmed, poVars, revVars, notVars, tries>>

SettleSweep(w, due) == Po!SettlementSweep(w, due) /\ UNCHANGED <<up, confirmed, fulVars, revVars, notVars, tries, faults>>
SettleNext(w) ==
    /\ \E x \in toSettle[w] : Po!SettlementStep(w, x)
    /\ UNCHANGED <<up, confirmed, fulVars, revVars, notVars, tries, faults>>
SettleFails(w) ==
    /\ \E x \in toSettle[w] : Po!SettlementFails(w, x)
    /\ Fault /\ UNCHANGED <<up, confirmed, fulVars, revVars, notVars, tries>>
Finance(p, o, s) == Po!MarkPaid(p, o, s) /\ UNCHANGED <<up, confirmed, fulVars, revVars, notVars, tries, faults>>

WriteReview(a, p, n) ==
    /\ Rev!CreateReview(a, p, n) \/ Rev!InsertReview(a, p, n)
    /\ UNCHANGED <<up, confirmed, fulVars, poVars, notVars, tries, faults>>
ModerateReview(m, a, p, to) ==
    Rev!Moderate(m, a, p, to) /\ UNCHANGED <<up, confirmed, fulVars, poVars, notVars, tries, faults>>

Mail(m) ==
    /\ \/ \E n \in Notices : ~Parked("notification", n) /\ Not!SendNotice(m, n) /\ UNCHANGED tries
       \/ \E x \in sending[m] : Not!RecordNotice(m) /\ CountForgotten("notification", x[1])
    /\ UNCHANGED <<up, confirmed, fulVars, poVars, revVars, faults>>
MailFails(m) ==
    /\ Not!RecordNoticeFails(m)
    /\ \E x \in sending[m] : CallFails("notification", x[1]) \/ CountForgotten("notification", x[1])
    /\ Fault /\ UNCHANGED <<up, confirmed, fulVars, poVars, revVars>>
TestMail ==  \* one test mail is enough to see
    /\ \A x \in noted : x[1].kind # "test"
    /\ Not!SendTest /\ UNCHANGED <<up, confirmed, fulVars, poVars, revVars, tries, faults>>

FulfillmentStep ==
    /\ "fulfillment" \in up
    /\ \/ \E r \in confirmed : Fulfil(r) \/ RecordFails("fulfillment", r, fProcessed) \/ HandedOutAgain("fulfillment", r)
       \/ \E p \in Principals, o \in Orders, s \in Shops : Operate(p, o, s)
       \/ \E c \in Carriers :
            (\E due \in SUBSET Ful!DueForAdvance : Sweep(c, due)) \/ Carry(c) \/ CarrierStops(c)

PayoutStep ==
    /\ "payout" \in up
    /\ \/ \E r \in confirmed : Owe(r) \/ RecordFails("payout", r, poProcessed) \/ HandedOutAgain("payout", r)
       \/ \E p \in Principals, o \in Orders, s \in Shops : Finance(p, o, s)
       \/ \E w \in Settlers :
            (\E due \in SUBSET Po!DuePayoutIDs : SettleSweep(w, due)) \/ SettleNext(w) \/ SettleFails(w)

ReviewStep ==
    /\ "review" \in up
    /\ \/ \E r \in confirmed : Note(r) \/ RecordFails("review", r, rProcessed) \/ HandedOutAgain("review", r)
       \/ \E a \in Principals, p \in Products, n \in Ratings : WriteReview(a, p, n)
       \/ \E m, a \in Principals, p \in Products, to \in {"PUBLISHED", "HIDDEN"} : ModerateReview(m, a, p, to)

NotificationStep ==
    /\ "notification" \in up
    /\ \/ \E m \in Mailers : Mail(m) \/ MailFails(m)
       \/ \E n \in Notices : HandedOutAgain("notification", n)
       \/ TestMail

Next ==
    \/ \E o \in Orders : Publish(o)
    \/ FulfillmentStep \/ PayoutStep \/ ReviewStep \/ NotificationStep

(* Each service's main runs its consumer and its sweep for as long as the  *)
(* process lives, and a row that waits is old enough in the end.           *)
Fairness ==
    /\ \A o \in Orders, k \in 1..MaxCopies :
         LET r == [order |-> o, copy |-> k] IN
         /\ WF_vars("fulfillment" \in up /\ Fulfil(r))
         /\ WF_vars("payout" \in up /\ Owe(r))
    /\ \A c \in Carriers : WF_vars("fulfillment" \in up /\ Carry(c))
    /\ \A c \in Carriers : WF_vars("fulfillment" \in up /\ \E due \in SUBSET Ful!DueForAdvance : Sweep(c, due))
    /\ \A w \in Settlers : WF_vars("payout" \in up /\ SettleNext(w))
    /\ \A w \in Settlers : WF_vars("payout" \in up /\ \E due \in SUBSET Po!DuePayoutIDs : SettleSweep(w, due))

Spec == Init /\ [][Next]_vars /\ Fairness

-----------------------------------------------------------------------------
(* Each service's own promise, its types included, kept while the others   *)
(* run (the comments are with the definitions): shipments announce what    *)
(* happened to them (Transition) ...                                       *)
ShipmentHistory == CommonTypeOK /\ Ful!FulTypeOK /\ Ful!ShipmentHistory
(* ... the shops are owed their lines and paid once (CreateFromOrder,      *)
(* MarkPaid) ...                                                           *)
ShopsPaidTheirLines == Po!PoTypeOK /\ Po!ShopsOwedTheirLines /\ Po!PaidOnce
(* ... reviewers have bought the product, and review events match the      *)
(* rating summary (CreateReview, Create, Moderate) ...                     *)
ReviewsRight == Rev!RevTypeOK /\ Rev!ReviewerBought /\ Rev!ReviewEventsMatchSummary
(* ... and the notifications tell how sending went, each announced once    *)
(* (Handler, Record).                                                      *)
NotedTruthfully == Not!NotTypeOK /\ Not!NotedTruthfully

(* Every record of the confirmation a service was given is parked: its     *)
(* database was away for Attempts calls in a row.                          *)
SetAside(svc, o) == \A r \in confirmed : r.order = o => Parked(svc, r)

(* A confirmed order is carried through by services that never talk to     *)
(* each other: every shop's parcel arrives or is cancelled and every shop  *)
(* is paid, through redelivered records, failing calls, sweeps working on  *)
(* stale lists, restarts and operators who get in between, unless the      *)
(* service has parked every record of it (CreateFromOrder, sweep).         *)
ConfirmedIsHonoured ==
    \A o \in Orders :
        (\E k \in 1..MaxCopies : [order |-> o, copy |-> k] \in confirmed)
            ~> \A s \in ShopsOf[o] :
                 /\ "fulfillment" \in up =>
                      shipment[o][s] \in {"DELIVERED", "CANCELLED"} \/ SetAside("fulfillment", o)
                 /\ "payout" \in up /\ s # FirstParty =>
                      payout[o][s] = "PAID" \/ SetAside("payout", o)
=============================================================================
