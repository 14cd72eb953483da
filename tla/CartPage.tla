------------------------------- MODULE CartPage -------------------------------
(***************************************************************************)
(* The cart page of the BFF (services/bff/internal/api/cart.go): the cart  *)
(* joined with the catalog's details and a live quote.  The two are asked  *)
(* for concurrently, each may fail, and prices, coupons and the cart       *)
(* change meanwhile.                                                       *)
(***************************************************************************)
EXTENDS Integers, Sequences, FiniteSets, Cart, Pricing

CONSTANTS Pages,        \* page requests in flight together
          PriceSet,     \* prices products may have
          MaxEdits      \* bound on changes of prices and coupons

VARIABLES price,        \* list prices of the products the catalog knows
          couponRows,   \* the coupons table
          pageReq,      \* each page request
          edits

pageVars == <<price, couponRows, pageReq, edits>>

NoPage == [pc |-> "idle", raw |-> Empty, code |-> "", rows |-> {}, details |-> "wait",
           quote |-> Failed("wait"), reason |-> ""]

PageTypeOK ==
    /\ DOMAIN price \subseteq CartProducts /\ couponRows \subseteq Coupons /\ edits \in 0..MaxEdits
    /\ \A v \in Pages : pageReq[v].pc \in {"idle", "quote", "retry", "quoted"}
                         /\ pageReq[v].details \in {"wait", "known", "unavailable"}

PageInit ==
    /\ price \in UNION {[S -> PriceSet] : S \in SUBSET CartProducts}
    /\ couponRows \in SUBSET Coupons /\ edits = 0
    /\ \A c, d \in couponRows : c.code = d.code => c = d
    /\ pageReq = [v \in Pages |-> NoPage]

(* The catalog changes a price, or learns of a product.                    *)
ChangePrice(p, to) ==
    /\ edits < MaxEdits /\ edits' = edits + 1
    /\ price' = [x \in DOMAIN price \cup {p} |-> IF x = p THEN to ELSE price[x]]
    /\ UNCHANGED <<couponRows, pageReq>>

(* Time passes the expiry of a coupon.                                     *)
CouponExpires(c) ==
    /\ edits < MaxEdits /\ edits' = edits + 1
    /\ c \in couponRows /\ ~c.expired /\ [c EXCEPT !.expired = TRUE] \in Coupons
    /\ couponRows' = (couponRows \ {c}) \cup {[c EXCEPT !.expired = TRUE]}
    /\ UNCHANGED <<price, pageReq>>

(* getCart, and the answer of every handler that changed the cart: an      *)
(* empty cart is answered at once.                                         *)
RespondCart(v, c, code) ==
    /\ pageReq[v].pc = "idle" /\ cart[c] # Empty
    /\ pageReq' = [pageReq EXCEPT ![v] = [NoPage EXCEPT !.pc = "quote", !.raw = cart[c], !.code = code]]
    /\ UNCHANGED <<price, couponRows, edits>>

(* batchProductsByID: BatchGetProducts answers or fails.                   *)
BatchProductsByID(v) ==
    /\ pageReq[v].pc # "idle" /\ pageReq[v].details = "wait"
    /\ \E d \in {"known", "unavailable"} : pageReq' = [pageReq EXCEPT ![v].details = d]
    /\ UNCHANGED <<price, couponRows, edits>>

(* A call of QuotePrice: its answer, or pricing or its catalog is away.    *)
QuoteOutcomes(raw, code) ==
    {QuotePrice(raw, price, code, couponRows, ""), Failed("UNAVAILABLE")}

(* quoteCartItems, the first call: a failure of any kind is remembered as  *)
(* the coupon's ...                                                        *)
QuoteCartItems(v) ==
    /\ pageReq[v].pc = "quote"
    /\ \E q \in QuoteOutcomes(pageReq[v].raw, pageReq[v].code) :
         pageReq' = [pageReq EXCEPT ![v] =
            IF q.ok THEN [@ EXCEPT !.pc = "quoted", !.quote = q, !.rows = couponRows]
            ELSE [@ EXCEPT !.pc = "retry", !.reason = q.reason]]
    /\ UNCHANGED <<price, couponRows, edits>>

(* ... and the second, without the coupon; its failure leaves no quote.    *)
QuoteWithoutCoupon(v) ==
    /\ pageReq[v].pc = "retry"
    /\ \E q \in QuoteOutcomes(pageReq[v].raw, "") :
         pageReq' = [pageReq EXCEPT ![v].pc = "quoted", ![v].quote = q, ![v].rows = couponRows]
    /\ UNCHANGED <<price, couponRows, edits>>

(* cartLineViews and applyQuoteTotals: the view that is written when both  *)
(* are in.                                                                 *)
View(req) ==
    [lines |-> [p \in DOMAIN req.raw |->
                  [quantity |-> req.raw[p],
                   priced |-> req.quote.ok /\ p \in DOMAIN req.quote.lines]],
     quantity |-> TotalQuantity(req.raw),
     totals |-> req.quote.ok,
     couponError |-> req.reason,
     couponCode |-> IF req.quote.ok /\ req.quote.coupon # {} THEN CHOOSE k \in req.quote.coupon : TRUE
                    ELSE IF req.reason # "" THEN "" ELSE req.code,
     detailsUnavailable |-> req.details = "unavailable"]

Answered(v) == pageReq[v].pc = "quoted" /\ pageReq[v].details # "wait"
PageDone(v) ==
    /\ Answered(v) /\ pageReq' = [pageReq EXCEPT ![v] = NoPage]
    /\ UNCHANGED <<price, couponRows, edits>>

-----------------------------------------------------------------------------
(* What the shopper is shown fits together, whatever failed or changed     *)
(* while the page was put together: totals come with a price on every line *)
(* and add up, a coupon that is shown is the one the discount is from, a   *)
(* coupon error comes with no discount, and totals are never missing       *)
(* without an error (respondCart, quoteCartItems).                         *)
ViewFits ==
    \A v \in Pages : Answered(v) =>
        LET req == pageReq[v]  view == View(req) IN
        /\ view.totals => /\ \A p \in DOMAIN view.lines : view.lines[p].priced
                          /\ AddsUp(req.quote, req.raw, req.rows, TaxFor(""))
                          /\ (view.couponCode # "") <=> (req.quote.coupon = {view.couponCode})
        /\ view.couponError # "" => view.couponCode = "" /\ (view.totals => req.quote.discount = 0)
        /\ ~view.totals => view.couponError # ""
=============================================================================
