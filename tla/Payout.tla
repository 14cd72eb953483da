-------------------------------- MODULE Payout --------------------------------
(***************************************************************************)
(* The payout service (services/payout): what each marketplace shop is     *)
(* owed for an order, created from order.confirmed and settled by the      *)
(* sandbox sweep or by finance.  Amounts are cents.                        *)
(***************************************************************************)
EXTENDS Integers, FiniteSets, Functions, Access

CONSTANTS Orders, Shops,
          FirstParty,  \* the shop id "" of the platform's own lines
          Lines,       \* the lines of an order: records with shop and total
          Settlers     \* settlement.Sweeper goroutines

VARIABLES confirmed,   \* records on order.confirmed
          poProcessed, \* processed_events of this service
          payout,      \* payouts.status per order and shop ("NONE": no row)
          owed,        \* payouts.amount_cents
          poEvents,    \* how often created and paid were announced
          toSettle     \* what each settlement sweep still has to do

poVars == <<poProcessed, payout, owed, poEvents, toSettle>>

PoTypeOK ==
    /\ poProcessed \subseteq confirmed
    /\ payout \in [Orders -> [Shops -> {"NONE", "PENDING", "PAID"}]]
    /\ owed \in [Orders -> [Shops -> Nat]]
    /\ poEvents \in [Orders -> [Shops -> [created : Nat, paid : Nat]]]
    /\ toSettle \in [Settlers -> SUBSET (Orders \X Shops)]

PoInit ==
    /\ poProcessed = {}
    /\ payout = [o \in Orders |-> [s \in Shops |-> "NONE"]]
    /\ owed = [o \in Orders |-> [s \in Shops |-> 0]]
    /\ poEvents = [o \in Orders |-> [s \in Shops |-> [created |-> 0, paid |-> 0]]]
    /\ toSettle = [w \in Settlers |-> {}]

(* consumer.groupsFrom: a shop's lines summed (Money.Add).                 *)
GroupAmount(o, s) == SumFunctionOnSet([l \in Lines[o] |-> l.total], {l \in Lines[o] : l.shop = s})

(* consumer.Handler and Store.CreateFromOrder, one transaction.            *)
CreatePayouts(r) ==
    LET o == r.order
        new == {s \in Shops \ {FirstParty} :
                  payout[o][s] = "NONE" /\ \E l \in Lines[o] : l.shop = s} IN
    /\ r \in confirmed \ poProcessed
    /\ poProcessed' = poProcessed \cup {r}
    /\ payout' = [payout EXCEPT ![o] = [s \in Shops |-> IF s \in new THEN "PENDING" ELSE payout[o][s]]]
    /\ owed' = [owed EXCEPT ![o] = [s \in Shops |-> IF s \in new THEN GroupAmount(o, s) ELSE owed[o][s]]]
    /\ poEvents' = [poEvents EXCEPT ![o] = [s \in Shops |->
          IF s \in new THEN [created |-> poEvents[o][s].created + 1, paid |-> 0] ELSE poEvents[o][s]]]
    /\ UNCHANGED toSettle

(* Mutant: a payout that is paid already is paid again.                    *)
SettleAgain(o, s) ==
    /\ payout[o][s] # "NONE"
    /\ payout' = [payout EXCEPT ![o][s] = "PAID"]
    /\ poEvents' = [poEvents EXCEPT ![o][s].paid = @ + 1]

(* Payout.MarkPaid inside Store.MarkPaid: the row is locked; one that is   *)
(* paid already is returned unchanged.                                     *)
Settle(o, s) ==
    /\ payout[o][s] # "NONE"
    /\ \/ /\ payout[o][s] = "PENDING"
          /\ payout' = [payout EXCEPT ![o][s] = "PAID"]
          /\ poEvents' = [poEvents EXCEPT ![o][s].paid = @ + 1]
       \/ payout[o][s] = "PAID" /\ UNCHANGED <<payout, poEvents>>

(* grpcsvc.MarkPaid.                                                       *)
MarkPaid(p, o, s) ==
    /\ RequireRole(p, "finance") /\ Settle(o, s)
    /\ UNCHANGED <<poProcessed, owed, toSettle>>

(* Store.DuePayoutIDs: the payouts that wait to be settled.                *)
DuePayoutIDs == {x \in Orders \X Shops : payout[x[1]][x[2]] = "PENDING"}

(* Sweeper.Run: a tick reads those that are old enough by now.             *)
SettlementSweep(w, due) ==
    /\ toSettle[w] = {} /\ due # {} /\ due \subseteq DuePayoutIDs
    /\ toSettle' = [toSettle EXCEPT ![w] = due]
    /\ UNCHANGED <<poProcessed, payout, owed, poEvents>>

(* Sweeper.sweep, one payout of the list.                                  *)
SettlementStep(w, x) ==
    /\ x \in toSettle[w]
    /\ toSettle' = [toSettle EXCEPT ![w] = @ \ {x}]
    /\ Settle(x[1], x[2])
    /\ UNCHANGED <<poProcessed, owed>>

(* A payout that could not be marked is logged; a later sweep finds it.    *)
SettlementFails(w, x) ==
    /\ x \in toSettle[w]
    /\ toSettle' = [toSettle EXCEPT ![w] = @ \ {x}]
    /\ UNCHANGED <<poProcessed, payout, owed, poEvents>>

-----------------------------------------------------------------------------
(* The shops are owed together what the marketplace lines of the order     *)
(* cost, no more through a redelivered record and no less through a shop   *)
(* with several lines; first-party revenue stays (CreateFromOrder).        *)
ShopsOwedTheirLines ==
    \A r \in poProcessed :
        SumFunctionOnSet(owed[r.order], Shops)
            = SumFunctionOnSet([l \in Lines[r.order] |-> l.total], {l \in Lines[r.order] : l.shop # FirstParty})

(* Money leaves once: two sweeps and finance settling the same payout      *)
(* announce one payment, and only of a payout that was announced (MarkPaid *)
(* under the row lock).                                                    *)
PaidOnce ==
    \A o \in Orders, s \in Shops :
        /\ poEvents[o][s].created = (IF payout[o][s] = "NONE" THEN 0 ELSE 1)
        /\ poEvents[o][s].paid = (IF payout[o][s] = "PAID" THEN 1 ELSE 0)
=============================================================================
