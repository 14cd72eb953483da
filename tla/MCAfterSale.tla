----------------------------- MODULE MCAfterSale -----------------------------
(***************************************************************************)
(* Model-checking instance of the services behind order.confirmed: one     *)
(* order with two lines of a shop and one of the platform's own.           *)
(***************************************************************************)
EXTENDS AfterSale

OneOrder == {"o1"}
OneShop == {"shop", "first-party"}
TwoLinesOfOneShop ==
    [o \in OneOrder |-> {[id |-> 1, shop |-> "shop", product |-> "p", total |-> 3],
                         [id |-> 2, shop |-> "shop", product |-> "p", total |-> 3],
                         [id |-> 3, shop |-> "first-party", product |-> "p", total |-> 2]}]
BuyerAndStaff == {"buyer", "staff"}
StaffRoles == [p \in BuyerAndStaff |->
    IF p = "staff" THEN {"order_manager", "finance", "catalog_manager"} ELSE {"customer"}]
OneOrTwoServices == {{"fulfillment", "payout"}, {"fulfillment", "notification"}, {"review"}}
PlacedByBuyer == [o \in OneOrder |-> "buyer"]
=============================================================================
