----------------------------- MODULE MCStorefront ----------------------------
(***************************************************************************)
(* Model-checking instance of the services around checkout: a seller, a    *)
(* buyer and an operator, and one part of the storefront at a time, with   *)
(* the services it shares state with.                                      *)
(***************************************************************************)
EXTENDS Storefront

Parts == {{"seller"}, {"sharing"}, {"catalog", "search"}, {"catalog", "stock"}, {"media"}, {"cart"}, {"page"},
          {"lists"}, {"edge"}, {"analytics"}}

People == {"ann", "bob", "op"}
Roles == [p \in People |->
    IF p = "op" THEN {"shop_admin", "catalog_manager", "order_manager", "finance", "platform_admin"} ELSE {}]

OneName == {"Shop"}
SlugOf == [n \in OneName |-> "shop"]
OrdersOfAnn == [o \in {"o1", "o2"} |-> "ann"]

PercentCoupon == [code |-> "SAVE", kind |-> "PERCENT", off |-> 10, expired |-> FALSE, maxUses |-> 0, usedCount |-> 0]
AmountCoupon == [code |-> "SAVE", kind |-> "AMOUNT", off |-> 500, expired |-> FALSE, maxUses |-> 1, usedCount |-> 0]
SomeCoupons == {PercentCoupon, [PercentCoupon EXCEPT !.expired = TRUE], AmountCoupon}
SomePrices == {[units |-> 3, nanos |-> 330000000, currency |-> "USD"], [units |-> 3, nanos |-> 0, currency |-> "EUR"]}
NoRates == [c \in {"US"} |-> 725]
SomeQuantities == {0, 2, 7}

ThreeEventsOrTwoStreams == {[events |-> 3, clicks |-> 0], [events |-> 1, clicks |-> 1]}
=============================================================================
