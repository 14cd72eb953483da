--------------------------- MODULE IdempotencyKeys ---------------------------
(***************************************************************************)
(* Checkout idempotency: the idempotency_keys row of one key and the calls *)
(* of saga.CreateOrder that present it                                     *)
(* (services/order/internal/store/idempotency.go, saga/saga.go).  Rows of  *)
(* different keys never interact, so one key is modelled.                  *)
(*                                                                         *)
(* ClaimIdempotencyKey is up to three statements without a transaction:    *)
(* INSERT .. ON CONFLICT DO NOTHING, SELECT, and the UPDATE that takes a   *)
(* stale claim over.  Other calls and the reaper run in between.  What     *)
(* CreateOrder does between the claim and InsertWithKey is CheckoutSaga's. *)
(***************************************************************************)
EXTENDS Naturals, FiniteSets

CONSTANTS Calls,      \* CreateOrder calls carrying the key; also their order ids
          Requests,   \* fingerprints: owner, cart, currency and coupon
          ViaRPC,     \* calls that arrive through grpcsvc.Server.CreateOrder
          NoOrder     \* NULL order_id

ASSUME KeyConstants ==
    ViaRPC \subseteq Calls /\ NoOrder \notin Calls

VARIABLES kstatus,    \* idempotency_keys.status, "ABSENT" when there is no row
          kprint,     \* owner_id and fingerprint of the row
          korder,     \* order_id of the row
          kage,       \* created_at: fresh, stale (15 min) or old (24 h)
          pc,         \* progress of each call
          req,        \* the request of each call
          orders,     \* calls whose order row was committed
          answered,   \* the order each call answered with
          reaped,     \* history: a COMPLETED row was reaped
          outlived    \* history: a claim got stale while a call was at work

rowVars == <<kstatus, kprint, korder, kage>>
history == <<reaped, outlived>>
keysVars == <<rowVars, pc, req, orders, answered, history>>

(* "working": claimed, checkout running; "failing": the deferred release   *)
(* is still to come.  The rest of the last line are final.                 *)
PC == {"start", "select", "takeover", "working", "unkeyed", "failing",
       "done", "replayed", "reused", "inFlight", "failed"}

KeysTypeOK ==
    /\ kstatus \in {"ABSENT", "IN_FLIGHT", "COMPLETED"}
    /\ kprint \in Requests
    /\ korder \in Calls \cup {NoOrder}
    /\ kage \in {"fresh", "stale", "old"}
    /\ pc \in [Calls -> PC]
    /\ req \in [Calls -> Requests]
    /\ orders \subseteq Calls
    /\ answered \in [Calls -> Calls \cup {NoOrder}]
    /\ reaped \in BOOLEAN /\ outlived \in BOOLEAN

KeysInit ==
    /\ kstatus = "ABSENT" /\ korder = NoOrder /\ kage = "fresh"
    /\ kprint \in Requests
    /\ pc = [c \in Calls |-> "start"]
    /\ req \in [Calls -> Requests]
    /\ orders = {}
    /\ answered = [c \in Calls |-> NoOrder]
    /\ reaped = FALSE /\ outlived = FALSE

Goto(c, to) == pc' = [pc EXCEPT ![c] = to]

-----------------------------------------------------------------------------
(* grpcsvc.Server.CreateOrder builds the saga's CreateInput without the    *)
(* idempotency key: the saga runs the checkout without a claim.            *)
CreateOrderRPC(c) ==
    /\ pc[c] = "start" /\ c \in ViaRPC
    /\ Goto(c, "unkeyed")
    /\ UNCHANGED <<rowVars, req, orders, answered, history>>

(* INSERT ... ON CONFLICT (key) DO NOTHING.                                *)
ClaimInsert(c) ==
    /\ pc[c] = "start" /\ c \notin ViaRPC
    /\ \/ /\ kstatus = "ABSENT"
          /\ kstatus' = "IN_FLIGHT" /\ kprint' = req[c] /\ korder' = NoOrder /\ kage' = "fresh"
          /\ Goto(c, "working")
       \/ kstatus # "ABSENT" /\ Goto(c, "select") /\ UNCHANGED rowVars
    /\ UNCHANGED <<req, orders, answered, history>>

(* Mutant: the fingerprint is not compared.                                *)
ClaimSelectAnyRequest(c) ==
    /\ pc[c] = "select"
    /\ \/ kstatus = "ABSENT" /\ Goto(c, "inFlight") /\ UNCHANGED answered
       \/ /\ kstatus = "COMPLETED"
          /\ Goto(c, "replayed") /\ answered' = [answered EXCEPT ![c] = korder]
       \/ /\ kstatus = "IN_FLIGHT"
          /\ Goto(c, IF kage = "fresh" THEN "inFlight" ELSE "takeover") /\ UNCHANGED answered
    /\ UNCHANGED <<rowVars, req, orders, history>>

(* The SELECT and the decisions taken on what it returned.                 *)
ClaimSelect(c) ==
    /\ pc[c] = "select"
    /\ \/ kstatus = "ABSENT" /\ Goto(c, "inFlight") /\ UNCHANGED answered
       \/ kstatus # "ABSENT" /\ kprint # req[c] /\ Goto(c, "reused") /\ UNCHANGED answered
       \/ /\ kstatus = "COMPLETED" /\ kprint = req[c]
          /\ Goto(c, "replayed") /\ answered' = [answered EXCEPT ![c] = korder]
       \/ /\ kstatus = "IN_FLIGHT" /\ kprint = req[c]
          /\ Goto(c, IF kage = "fresh" THEN "inFlight" ELSE "takeover") /\ UNCHANGED answered
    /\ UNCHANGED <<rowVars, req, orders, history>>

(* The conditional UPDATE that refreshes created_at of a stale claim.      *)
ClaimTakeOver(c) ==
    /\ pc[c] = "takeover"
    /\ \/ kstatus = "IN_FLIGHT" /\ kage # "fresh" /\ kage' = "fresh" /\ Goto(c, "working")
       \/ ~(kstatus = "IN_FLIGHT" /\ kage # "fresh") /\ UNCHANGED kage /\ Goto(c, "inFlight")
    /\ UNCHANGED <<kstatus, kprint, korder, req, orders, answered, history>>

(* Mutant: the affected-rows check is dropped.                             *)
InsertWithKeyUnchecked(c) ==
    /\ pc[c] = "working"
    /\ kstatus' = IF kstatus = "IN_FLIGHT" THEN "COMPLETED" ELSE kstatus
    /\ korder' = IF kstatus = "IN_FLIGHT" THEN c ELSE korder
    /\ orders' = orders \cup {c} /\ answered' = [answered EXCEPT ![c] = c]
    /\ Goto(c, "done")
    /\ UNCHANGED <<kprint, kage, req, history>>

(* InsertWithKey: the order row and the key's completion in one            *)
(* transaction, or neither (IDEMPOTENCY_CLAIM_LOST).                       *)
InsertWithKey(c) ==
    /\ pc[c] = "working"
    /\ \/ /\ kstatus = "IN_FLIGHT"
          /\ kstatus' = "COMPLETED" /\ korder' = c
          /\ orders' = orders \cup {c} /\ answered' = [answered EXCEPT ![c] = c]
          /\ Goto(c, "done")
       \/ /\ kstatus # "IN_FLIGHT"
          /\ Goto(c, "failing")
          /\ UNCHANGED <<kstatus, korder, orders, answered>>
    /\ UNCHANGED <<kprint, kage, req, history>>

(* InsertWithKey without a key falls back to a plain Insert.               *)
InsertWithoutKey(c) ==
    /\ pc[c] = "unkeyed"
    /\ orders' = orders \cup {c} /\ answered' = [answered EXCEPT ![c] = c]
    /\ Goto(c, "done")
    /\ UNCHANGED <<rowVars, req, history>>

(* Some step of the checkout failed: the deferred release comes next.      *)
CheckoutFails(c) ==
    /\ pc[c] \in {"working", "unkeyed"}
    /\ Goto(c, IF pc[c] = "working" THEN "failing" ELSE "failed")
    /\ UNCHANGED <<rowVars, req, orders, answered, history>>

(* Mutant: a completed row is deleted too.                                 *)
ReleaseKeyAnyStatus(c) ==
    /\ pc[c] = "failing"
    /\ kstatus' = "ABSENT"
    /\ Goto(c, "failed")
    /\ UNCHANGED <<kprint, korder, kage, req, orders, answered, history>>

(* ReleaseIdempotencyKey deletes the row if it is IN_FLIGHT, whoever       *)
(* claimed it.                                                             *)
ReleaseKey(c) ==
    /\ pc[c] = "failing"
    /\ kstatus' = IF kstatus = "IN_FLIGHT" THEN "ABSENT" ELSE kstatus
    /\ Goto(c, "failed")
    /\ UNCHANGED <<kprint, korder, kage, req, orders, answered, history>>

(* The replica dies, or the release statement fails: the row stays.        *)
Crash(c) ==
    /\ pc[c] \in {"select", "takeover", "working", "unkeyed", "failing"}
    /\ Goto(c, "failed")
    /\ UNCHANGED <<rowVars, req, orders, answered, history>>

-----------------------------------------------------------------------------
(* created_at falls behind now.  StaleInFlightAfter is meant to be longer  *)
(* than any checkout lasts; history records when it was not: some call was *)
(* still at work on a claim that got stale.                                *)
Age ==
    /\ kstatus # "ABSENT" /\ kage # "old"
    /\ kage' = IF kage = "fresh" THEN "stale" ELSE "old"
    /\ outlived' = (outlived \/ \E c \in Calls : pc[c] \in {"takeover", "working", "failing"})
    /\ UNCHANGED <<kstatus, kprint, korder, pc, req, orders, answered, reaped>>

(* Mutant: abandoned claims are not reaped.                                *)
ReapKeysCompletedOnly ==
    /\ kstatus = "COMPLETED" /\ kage = "old"
    /\ kstatus' = "ABSENT" /\ reaped' = TRUE
    /\ UNCHANGED <<kprint, korder, kage, pc, req, orders, answered, outlived>>

(* ReapIdempotencyKeys, from the reconciler's ticker.                      *)
ReapKeys ==
    /\ \/ kstatus = "COMPLETED" /\ kage = "old"
       \/ kstatus = "IN_FLIGHT" /\ kage # "fresh"
    /\ kstatus' = "ABSENT"
    /\ reaped' = (reaped \/ kstatus = "COMPLETED")
    /\ UNCHANGED <<kprint, korder, kage, pc, req, orders, answered, outlived>>

CallStep(c) ==
    \/ CreateOrderRPC(c) \/ ClaimInsert(c) \/ ClaimSelect(c) \/ ClaimTakeOver(c)
    \/ InsertWithKey(c) \/ InsertWithoutKey(c) \/ CheckoutFails(c) \/ ReleaseKey(c)

KeysNext == (\E c \in Calls : CallStep(c) \/ Crash(c)) \/ Age \/ ReapKeys

(* Calls run to their end, time passes and the reaper's ticker fires.      *)
KeysSpec == KeysInit /\ [][KeysNext]_keysVars
            /\ (\A c \in Calls : WF_keysVars(CallStep(c))) /\ WF_keysVars(Age) /\ WF_keysVars(ReapKeys)

-----------------------------------------------------------------------------
(* Both or neither (InsertWithKey's comment): a completed key names an     *)
(* order that was committed, through takeovers, late releases and reaping, *)
(* and so does every answer a call gives.                                  *)
KeyNamesOrder ==
    /\ kstatus = "COMPLETED" => korder \in orders
    /\ \A c \in Calls : answered[c] # NoOrder => answered[c] \in orders

(* At most one order per key, however many calls present it, stall, crash  *)
(* or take each other over, until a completed row is reaped after its      *)
(* retention.                                                              *)
OneOrderPerKey ==
    ~reaped => \A c, d \in orders \ ViaRPC : c = d

(* Every call that gets an order gets the same one while the completed row *)
(* lives: a retry is answered with the original order.                     *)
RetryGetsOriginal ==
    ~reaped => \A c, d \in Calls \ ViaRPC :
        answered[c] # NoOrder /\ answered[d] # NoOrder => answered[c] = answered[d]

(* A call is never answered with the order of a different request          *)
(* (Fingerprint's comment: "caught rather than silently answered with      *)
(* someone else's order"), unless a call outlived StaleInFlightAfter: then *)
(* it may complete a row that was reaped and claimed by another request    *)
(* meanwhile, because the row does not say whose claim it is.              *)
AnswerMatchesRequest ==
    ~outlived => \A c \in Calls : answered[c] # NoOrder => req[answered[c]] = req[c]

(* A claim whose call died does not lock the shopper out: the row is       *)
(* completed, released, taken over or reaped.                              *)
ClaimEnds == (kstatus = "IN_FLIGHT") ~> (kstatus # "IN_FLIGHT")
=============================================================================
