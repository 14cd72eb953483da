--------------------------------- MODULE Cart ---------------------------------
(***************************************************************************)
(* The cart service (services/cart): carts as blobs in Redis.  Every       *)
(* request loads a blob, changes it and writes it back; two requests of    *)
(* one shopper may do so at once.  A cart is a function from the products  *)
(* it has a line for to quantities, which are int32 (of the width the      *)
(* constant Half gives); the order of the lines and the times they are     *)
(* sorted by (touch) are left out.  A missing blob reads as an empty cart. *)
(***************************************************************************)
EXTENDS Integers, Sequences, FiniteSets, FiniteSetsExt

CONSTANTS Carts, CartProducts,
          Half,              \* 2^31 in the code
          MaxLineQuantity,   \* 999 in the code
          Quantities,        \* int32 arguments of requests
          CartRequests,      \* requests in flight together
          MaxCartOps         \* bound on requests

VARIABLES cart, cartReq, cartOps,
          serial,            \* history: the carts had every request been one step
          disturbed,         \* history: carts whose blob two requests had at once, that
                             \* expired, that a merge could not delete, or got from such
          wrapped            \* history: a sum of quantities has left int32

cartVars == <<cart, cartReq, cartOps, serial, disturbed, wrapped>>

Empty == [p \in {} |-> 0]
Int32 == -Half .. Half - 1
Wrap(n) == ((n + Half) % (2 * Half)) - Half

NoReq == [op |-> "none", cart |-> "", from |-> "", product |-> "", quantity |-> 0,
          blob |-> Empty, other |-> Empty, pc |-> "idle"]

CartTypeOK ==
    /\ \A c \in Carts : DOMAIN cart[c] \subseteq CartProducts /\ \A p \in DOMAIN cart[c] : cart[c][p] \in Int32
    /\ disturbed \subseteq Carts /\ wrapped \in BOOLEAN /\ cartOps \in 0..MaxCartOps
    /\ \A r \in CartRequests : cartReq[r].pc \in {"idle", "loaded", "half", "saved"}

CartInit ==
    /\ cart = [c \in Carts |-> Empty] /\ serial = cart /\ cartOps = 0
    /\ cartReq = [r \in CartRequests |-> NoReq]
    /\ disturbed = {} /\ wrapped = FALSE

With(lines, p, q) == [x \in DOMAIN lines \cup {p} |-> IF x = p THEN q ELSE lines[x]]
Without(lines, p) == [x \in DOMAIN lines \ {p} |-> lines[x]]
Quantity(lines, p) == IF p \in DOMAIN lines THEN lines[p] ELSE 0

(* Mutant: the clamp is off by one.                                        *)
ClampQtyOffByOne(q) == IF q > MaxLineQuantity + 1 THEN MaxLineQuantity ELSE q

ClampQty(q) == IF q > MaxLineQuantity THEN MaxLineQuantity ELSE q

(* Cart.Add, for a delta > 0; SetQuantity, for a quantity >= 0; Remove;    *)
(* Clear.                                                                  *)
Add(lines, p, delta) == With(lines, p, ClampQty(Wrap(Quantity(lines, p) + delta)))
SetQuantity(lines, p, q) == IF q = 0 THEN Without(lines, p) ELSE With(lines, p, ClampQty(q))
Clear(lines) == Empty

(* MergeFrom: a line that is new is taken as it is.                        *)
MergeFrom(lines, other) ==
    [x \in DOMAIN lines \cup DOMAIN other |->
        IF x \notin DOMAIN lines THEN other[x]
        ELSE IF x \notin DOMAIN other THEN lines[x] ELSE ClampQty(Wrap(lines[x] + other[x]))]

(* TotalQuantity, for the answer.                                          *)
TotalQuantity(lines) == Wrap(MapThenSumSet(LAMBDA p : lines[p], DOMAIN lines))

(* What a request makes of the lines it has; {} is an error.               *)
Change(req, lines) ==
    CASE req.op = "add"    -> IF req.quantity > 0 THEN {Add(lines, req.product, req.quantity)} ELSE {}
      [] req.op = "set"    -> IF req.quantity >= 0 THEN {SetQuantity(lines, req.product, req.quantity)} ELSE {}
      [] req.op = "remove" -> {Without(lines, req.product)}
      [] req.op = "clear"  -> {Clear(lines)}

(* Requests that have loaded the cart and not yet written it.              *)
Loaded(c) == {r \in CartRequests : cartReq[r].pc # "idle" /\ c \in {cartReq[r].cart, cartReq[r].from}}
Disturb(cs) == disturbed' = disturbed \cup {c \in cs : Loaded(c) # {}}

(* AddItem, SetItemQuantity, RemoveItem, Clear: load.                      *)
LoadCart(r, op, c, p, q) ==
    /\ cartReq[r].pc = "idle" /\ cartOps < MaxCartOps /\ cartOps' = cartOps + 1
    /\ cartReq' = [cartReq EXCEPT ![r] =
          [NoReq EXCEPT !.op = op, !.cart = c, !.product = p, !.quantity = q, !.blob = cart[c], !.pc = "loaded"]]
    /\ Disturb({c})
    /\ UNCHANGED <<cart, serial, wrapped>>

Overflows(req, lines) == req.op = "add" /\ Quantity(lines, req.product) + req.quantity \notin Int32

(* ... change and save, or the change is refused.                          *)
SaveCart(r) ==
    LET req == cartReq[r]  new == Change(req, req.blob) IN
    /\ req.pc = "loaded" /\ req.op # "merge"
    /\ cartReq' = [cartReq EXCEPT ![r] = NoReq]
    /\ IF new = {} THEN UNCHANGED <<cart, serial, wrapped>>
       ELSE \E lines \in new :
              /\ cart' = [cart EXCEPT ![req.cart] = lines]
              /\ serial' = [serial EXCEPT ![req.cart] = CHOOSE x \in Change(req, @) : TRUE]
              /\ wrapped' = (wrapped \/ Overflows(req, req.blob))
    /\ UNCHANGED <<cartOps, disturbed>>

(* Merge: load from ...                                                    *)
LoadFrom(r, from, to) ==
    /\ cartReq[r].pc = "idle" /\ cartOps < MaxCartOps /\ cartOps' = cartOps + 1
    /\ cartReq' = [cartReq EXCEPT ![r] =
          [NoReq EXCEPT !.op = "merge", !.cart = to, !.from = from, !.other = cart[from], !.pc = "half"]]
    /\ disturbed' = disturbed \cup {c \in {from, to} : Loaded(c) # {}} \cup (IF from = to THEN {from} ELSE {})
    /\ UNCHANGED <<cart, serial, wrapped>>

(* ... load to ...                                                         *)
LoadTo(r) ==
    /\ cartReq[r].pc = "half"
    /\ cartReq' = [cartReq EXCEPT ![r].blob = cart[cartReq[r].cart], ![r].pc = "loaded"]
    /\ UNCHANGED <<cart, cartOps, serial, disturbed, wrapped>>

(* ... fold one into the other and save ...                                *)
SaveMerged(r) ==
    LET req == cartReq[r] IN
    /\ req.pc = "loaded" /\ req.op = "merge"
    /\ cart' = [cart EXCEPT ![req.cart] = MergeFrom(req.blob, req.other)]
    /\ serial' = [serial EXCEPT ![req.cart] = MergeFrom(@, serial[req.from]), ![req.from] = Empty]
    /\ wrapped' = (wrapped \/ \E p \in DOMAIN req.blob \cap DOMAIN req.other :
                                 req.blob[p] + req.other[p] \notin Int32)
    /\ cartReq' = [cartReq EXCEPT ![r].pc = "saved"]
    /\ disturbed' = disturbed \cup (IF req.from \in disturbed THEN {req.cart} ELSE {})
    /\ UNCHANGED cartOps

(* ... and delete the first, whose failure nobody hears of.                *)
DeleteFrom(r) ==
    LET from == cartReq[r].from IN
    /\ cartReq[r].pc = "saved"
    /\ \/ cart' = [cart EXCEPT ![from] = Empty] /\ UNCHANGED disturbed
       \/ UNCHANGED cart /\ disturbed' = disturbed \cup {from}
    /\ cartReq' = [cartReq EXCEPT ![r] = NoReq]
    /\ UNCHANGED <<cartOps, serial, wrapped>>

(* Redis: a blob nobody touched for the TTL is gone.                       *)
ExpireCart(c) ==
    /\ cart[c] # Empty
    /\ cart' = [cart EXCEPT ![c] = Empty]
    /\ disturbed' = disturbed \cup {c}
    /\ UNCHANGED <<cartReq, cartOps, serial, wrapped>>

-----------------------------------------------------------------------------
(* A line holds between one unit and MaxLineQuantity, whatever requests    *)
(* and merges raced, unless a sum has left int32 before it was clamped     *)
(* (clampQty).                                                             *)
LinesLegal ==
    wrapped \/ \A c \in Carts : \A p \in DOMAIN cart[c] : cart[c][p] \in 1..MaxLineQuantity

(* A cart is what its requests made of it one after the other: no unit is  *)
(* lost or counted twice, merges included, unless two requests had its     *)
(* blob at once, it expired, a merge could not delete it, or it was merged *)
(* from such a cart (Merge, load, save).                                   *)
UnitsAccounted ==
    \A c \in Carts :
        c \in disturbed \/ Loaded(c) # {} \/ cart[c] = serial[c]
=============================================================================
