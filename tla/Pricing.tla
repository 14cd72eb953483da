------------------------------- MODULE Pricing -------------------------------
(***************************************************************************)
(* The pricing service (services/pricing): a quote computed from the       *)
(* catalog's prices of the moment, a coupon and a tax rate.  Amounts are   *)
(* cents; a catalog price is units and nanos.                              *)
(***************************************************************************)
EXTENDS Integers, Sequences, FiniteSets, FiniteSetsExt

CONSTANTS TaxRates,     \* basis points by country
          DefaultTax,   \* ... and for any other country
          Coupons       \* coupons rows that may exist, as records

CentNanos == 10000000

FromUnitsNanos(units, nanos) == units * 100 + nanos \div CentNanos
UnitsNanos(cents) == <<cents \div 100, (cents % 100) * CentNanos>>

Sub(a, b) == IF a > b THEN a - b ELSE 0
MinOf(a, b) == IF a < b THEN a ELSE b

(* PercentOff and TaxBps: to the nearest cent, half up.                    *)
PercentOff(cents, p) ==
    IF p <= 0 THEN 0 ELSE (cents * (IF p > 100 THEN 100 ELSE p) + 50) \div 100
TaxBps(cents, bps) == IF bps <= 0 THEN 0 ELSE (cents * bps + 5000) \div 10000

(* TaxRates.For.                                                           *)
TaxFor(country) == IF country \in DOMAIN TaxRates THEN TaxRates[country] ELSE DefaultTax

(* Coupon.Valid; the row's used_count is never written.                    *)
Valid(coupon) == ~coupon.expired /\ (coupon.maxUses > 0 => coupon.usedCount < coupon.maxUses)

Failed(reason) == [ok |-> FALSE, reason |-> reason]
Total(f) == MapThenSumSet(LAMBDA x : f[x], DOMAIN f)

(* Price: subtotal, discount, tax and total of the lines.                  *)
Price(lines, coupon, bps) ==
    LET lineTotal == [p \in DOMAIN lines |-> lines[p].price * lines[p].quantity]
        subtotal == Total(lineTotal)
        discount == CASE coupon = {} -> 0
                      [] \E c \in coupon : c.kind = "PERCENT" -> PercentOff(subtotal, (CHOOSE c \in coupon : TRUE).off)
                      [] OTHER -> MinOf((CHOOSE c \in coupon : TRUE).off, subtotal)
        taxable == Sub(subtotal, discount)
        tax == TaxBps(taxable, bps)
    IN IF DOMAIN lines = {} THEN Failed("EMPTY_QUOTE")
       ELSE IF \E c \in coupon : ~Valid(c) THEN Failed("COUPON_INVALID")
       ELSE [ok |-> TRUE, lines |-> [p \in DOMAIN lines |-> [price |-> lines[p].price, total |-> lineTotal[p]]],
             subtotal |-> subtotal, discount |-> discount, tax |-> tax, total |-> taxable + tax,
             coupon |-> {c.code : c \in coupon}]

(* quantitiesByProduct: no line of the request asks for less than one.     *)
QuantitiesLegal(lines) == \A p \in DOMAIN lines : lines[p] > 0

(* priceLines: the products the catalog knows, in the quote's currency.    *)
PriceLines(lines, prices) ==
    [p \in DOMAIN lines |-> [price |-> FromUnitsNanos(prices[p].units, prices[p].nanos), quantity |-> lines[p]]]
Priceable(lines, prices) ==
    IF ~(DOMAIN lines \subseteq DOMAIN prices) THEN "PRODUCT_UNPRICEABLE"
    ELSE IF \E p \in DOMAIN lines : prices[p].currency # "USD" THEN "CURRENCY_MISMATCH" ELSE ""

(* resolveCoupon and Store.GetCoupon: the row of the code, if there is one.*)
ResolveCoupon(code, rows) == {c \in rows : c.code = code}

(* QuotePrice: the checks in their order.                                  *)
QuotePrice(lines, prices, code, rows, country) ==
    IF DOMAIN lines = {} THEN Failed("NO_ITEMS")
    ELSE IF ~QuantitiesLegal(lines) THEN Failed("BAD_QUANTITY")
    ELSE IF Priceable(lines, prices) # "" THEN Failed(Priceable(lines, prices))
    ELSE IF code # "" /\ ResolveCoupon(code, rows) = {} THEN Failed("COUPON_UNKNOWN")
    ELSE Price(PriceLines(lines, prices), ResolveCoupon(code, rows), TaxFor(country))

(* ValidateCoupon: what the checkout page is told about a code.            *)
ValidateCoupon(code, rows) == \E c \in ResolveCoupon(code, rows) : Valid(c)

-----------------------------------------------------------------------------
(* A quote adds up: line totals are price times quantity and make the      *)
(* subtotal, the discount never exceeds it, the total is what is left plus *)
(* tax, tax and percentage are the exact amounts to within half a cent,    *)
(* and the amounts come out of units and nanos as they went in (Price,     *)
(* PercentOff, TaxBps, UnitsNanos).                                        *)
AddsUp(q, lines, rows, bps) ==
    LET near(a, b, half) == a - b <= half /\ b - a <= half IN
    /\ q.subtotal = Total([p \in DOMAIN q.lines |-> q.lines[p].total])
    /\ \A p \in DOMAIN q.lines : q.lines[p].total = q.lines[p].price * lines[p]
    /\ 0 <= q.discount /\ q.discount <= q.subtotal
    /\ q.total = q.subtotal - q.discount + q.tax
    /\ \A cents \in {q.subtotal, q.discount, q.tax, q.total} :
         LET m == UnitsNanos(cents) IN FromUnitsNanos(m[1], m[2]) = cents
    /\ near(q.tax * 10000, (q.subtotal - q.discount) * bps, 5000)
    /\ \A c \in {x \in rows : x.code \in q.coupon} :
         IF c.kind = "PERCENT" THEN near(q.discount * 100, q.subtotal * c.off, 50)
         ELSE q.discount \in {c.off, q.subtotal}
    /\ q.coupon = {} => q.discount = 0
=============================================================================
