------------------------------- MODULE Sharing -------------------------------
(***************************************************************************)
(* Reads of orders and their delegation (services/order/internal/grpcsvc   *)
(* sharing.go, GetOrder): an order is its owner's, an operator's, and that *)
(* of the viewers the owner named in OpenFGA.                              *)
(***************************************************************************)
EXTENDS Naturals, FiniteSets, Access, Fga

CONSTANTS SharedOrders, OrderOwner

(* Store.Get scoped to an owner; "" is any.                                *)
StoreGet(o, owner) == owner = "" \/ OrderOwner[o] = owner

(* ownedOrder: operators do not pass.                                      *)
OwnedOrder(p, o) == p \in Principals /\ Ready("order") /\ StoreGet(o, p)

ShareOrder(p, o, grantee) ==
    OwnedOrder(p, o) /\ grantee # p /\ FgaWrite("order", {}, Tuple(grantee, "viewer", o))

RevokeOrderShare(p, o, grantee) ==
    OwnedOrder(p, o) /\ FgaDelete("order", Tuple(grantee, "viewer", o))

ListOrderShares(o) == {t.user : t \in {x \in FgaRead("order", o) : x.relation = "viewer"}}

(* GetOrder: a failure of OpenFGA leaves the order not found.              *)
GetOrder(p, o) ==
    \/ HasRole(p, "order_manager") \/ StoreGet(o, p)
    \/ Ready("order") /\ FgaCheck("order", p, "viewer", o)

-----------------------------------------------------------------------------
(* An order is read by its owner, by operators and by whom the owner asked *)
(* to share it with and has not withdrawn since; by all of those whose     *)
(* share was confirmed, if OpenFGA has one store; and whom the owner finds *)
(* on the list of shares are those who read it (GetOrder, ShareOrder,      *)
(* RevokeOrderShare, ListOrderShares).                                     *)
OrdersSeenByRight ==
    \A p \in Principals, o \in SharedOrders :
        LET share == Tuple(p, "viewer", o) IN
        /\ GetOrder(p, o) => OrderOwner[o] = p \/ HasRole(p, "order_manager") \/ share \in asked
        /\ share \in granted /\ Ready("order") /\ stores = 1 => GetOrder(p, o)
        /\ Ready("order") /\ OrderOwner[o] # p /\ ~HasRole(p, "order_manager") =>
             (GetOrder(p, o) <=> p \in ListOrderShares(o))
=============================================================================
