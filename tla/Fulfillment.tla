------------------------------ MODULE Fulfillment ------------------------------
(***************************************************************************)
(* The fulfillment service (services/fulfillment): one shipment per order  *)
(* and shop, created from order.confirmed, moved on by the sandbox carrier *)
(* and by operators.  Every status change and its outbox row is one        *)
(* transaction holding the shipment's row lock; the carrier works on a     *)
(* list it read before.                                                    *)
(***************************************************************************)
EXTENDS Naturals, Sequences, FiniteSets, Access

CONSTANTS Orders, Shops,
          ShopsOf,   \* the shops (first-party included) an order has lines of
          Carriers   \* carrier.Advancer goroutines

VARIABLES confirmed,   \* records on order.confirmed
          fProcessed,  \* processed_events of this service
          shipment,    \* shipments.status per order and shop ("NONE": no row)
          shipEvents,  \* outbox rows per shipment, oldest first
          targets      \* what each carrier sweep still has to do

fulVars == <<fProcessed, shipment, shipEvents, targets>>

ShipStatus == {"PENDING", "SHIPPED", "DELIVERED", "CANCELLED"}
ShipTopics == {"shipment_created", "shipped", "delivered", "cancelled"}
AdvanceTarget == [order : Orders, shop : Shops, to : ShipStatus]

FulTypeOK ==
    /\ fProcessed \subseteq confirmed
    /\ shipment \in [Orders -> [Shops -> ShipStatus \cup {"NONE"}]]
    /\ \A o \in Orders, s \in Shops :
         /\ Len(shipEvents[o][s]) <= 3
         /\ \A i \in 1..Len(shipEvents[o][s]) : shipEvents[o][s][i] \in ShipTopics
    /\ targets \in [Carriers -> SUBSET AdvanceTarget]

FulInit ==
    /\ fProcessed = {}
    /\ shipment = [o \in Orders |-> [s \in Shops |-> "NONE"]]
    /\ shipEvents = [o \in Orders |-> [s \in Shops |-> <<>>]]
    /\ targets = [c \in Carriers |-> {}]

(* groupsFrom: the lines of an order bucketed by shop.                     *)
ShipmentGroups(o) == ShopsOf[o]

(* consumer.Handler and Store.CreateFromOrder, one transaction: the record *)
(* is marked, the missing shipments are inserted, each with its event.     *)
CreateShipments(r) ==
    LET o == r.order
        new == {s \in ShipmentGroups(o) : shipment[o][s] = "NONE"} IN
    /\ r \in confirmed \ fProcessed
    /\ fProcessed' = fProcessed \cup {r}
    /\ shipment' = [shipment EXCEPT ![o] = [s \in Shops |->
          IF s \in new THEN "PENDING" ELSE shipment[o][s]]]
    /\ shipEvents' = [shipEvents EXCEPT ![o] = [s \in Shops |->
          IF s \in new THEN <<"shipment_created">> ELSE shipEvents[o][s]]]
    /\ UNCHANGED targets

(* Mutant: a shipment may be delivered from any status.                    *)
CanMoveAnyToDelivered(from, to) ==
    \/ from = "PENDING" /\ to \in {"SHIPPED", "CANCELLED"}
    \/ to \in {"DELIVERED"}
    \/ from = "SHIPPED" /\ to = "CANCELLED"

(* Shipment.CanTransitionTo.                                               *)
CanMove(from, to) ==
    \/ from = "PENDING" /\ to \in {"SHIPPED", "CANCELLED"}
    \/ from = "SHIPPED" /\ to \in {"DELIVERED", "CANCELLED"}

(* eventFor: the topic a shipment's new status is announced on.            *)
ShipEventFor(to) ==
    CASE to = "SHIPPED" -> "shipped" [] to = "DELIVERED" -> "delivered" [] to = "CANCELLED" -> "cancelled"

(* Store.Transition on the locked row; a shipment already in `to`, or one  *)
(* the move is refused for, is left alone.                                 *)
ShipTransition(o, s, to) ==
    /\ shipment[o][s] # "NONE"
    /\ \/ /\ CanMove(shipment[o][s], to)
          /\ shipment' = [shipment EXCEPT ![o][s] = to]
          /\ shipEvents' = [shipEvents EXCEPT ![o][s] = Append(@, ShipEventFor(to))]
       \/ ~CanMove(shipment[o][s], to) /\ UNCHANGED <<shipment, shipEvents>>

(* The operator's RPCs.                                                    *)
MarkShipped(p, o, s) ==
    RequireRole(p, "order_manager") /\ ShipTransition(o, s, "SHIPPED") /\ UNCHANGED <<fProcessed, targets>>
MarkDelivered(p, o, s) ==
    RequireRole(p, "order_manager") /\ ShipTransition(o, s, "DELIVERED") /\ UNCHANGED <<fProcessed, targets>>
CancelShipment(p, o, s) ==
    RequireRole(p, "order_manager") /\ ShipTransition(o, s, "CANCELLED") /\ UNCHANGED <<fProcessed, targets>>

(* Mutant: only shipments that wait for pickup are looked for.             *)
DueForPickup == {t \in AdvanceTarget : shipment[t.order][t.shop] = "PENDING" /\ t.to = "SHIPPED"}

(* Store.DueForAdvance: the shipments that wait for the carrier and what   *)
(* each is to become next.                                                 *)
DueForAdvance ==
    {t \in AdvanceTarget : \/ shipment[t.order][t.shop] = "PENDING" /\ t.to = "SHIPPED"
                           \/ shipment[t.order][t.shop] = "SHIPPED" /\ t.to = "DELIVERED"}

(* Advancer.Run: a tick reads those that are old enough by now.            *)
CarrierSweep(c, due) ==
    /\ targets[c] = {} /\ due # {} /\ due \subseteq DueForAdvance
    /\ targets' = [targets EXCEPT ![c] = due]
    /\ UNCHANGED <<fProcessed, shipment, shipEvents>>

(* Advancer.sweep, one target: the transition, or its refusal, is logged.  *)
CarrierAdvance(c, t) ==
    /\ t \in targets[c]
    /\ targets' = [targets EXCEPT ![c] = @ \ {t}]
    /\ ShipTransition(t.order, t.shop, t.to)
    /\ UNCHANGED fProcessed

(* The process restarts in the middle of a sweep.                          *)
CarrierRestart(c) ==
    /\ targets[c] # {} /\ targets' = [targets EXCEPT ![c] = {}]
    /\ UNCHANGED <<fProcessed, shipment, shipEvents>>

-----------------------------------------------------------------------------
(* What a shipment has announced is exactly how it got where it is, one    *)
(* event per move: no redelivered order.confirmed announces it again, and  *)
(* no carrier acting on a stale list announces a delivery of a cancelled   *)
(* shipment (CreateFromOrder, Transition).                                 *)
ShipmentHistory ==
    \A o \in Orders, s \in Shops :
        LET h == shipEvents[o][s] IN
        CASE shipment[o][s] = "NONE"      -> h = <<>>
          [] shipment[o][s] = "PENDING"   -> h = <<"shipment_created">>
          [] shipment[o][s] = "SHIPPED"   -> h = <<"shipment_created", "shipped">>
          [] shipment[o][s] = "DELIVERED" -> h = <<"shipment_created", "shipped", "delivered">>
          [] shipment[o][s] = "CANCELLED" ->
                h \in {<<"shipment_created", "cancelled">>, <<"shipment_created", "shipped", "cancelled">>}
=============================================================================
