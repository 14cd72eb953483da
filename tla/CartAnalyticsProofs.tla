-------------------------- MODULE CartAnalyticsProofs --------------------------
(***************************************************************************)
(* Proofs about the two parts of the storefront that copy data and write   *)
(* it back: carts and the cart page, for any number of carts, products and *)
(* requests at once, any width of the quantities, and any prices, coupons  *)
(* and tax rates; and the analytics sink, for any load and any bounds.     *)
(***************************************************************************)
EXTENDS Storefront, Sums, FiniteSetTheorems, SequenceTheorems, WellFoundedInduction, NaturalsInduction, TLAPS

-----------------------------------------------------------------------------
(* The lines of a cart: products with quantities.                          *)
CartLines == UNION {[S -> Pag!Int32] : S \in SUBSET CartProducts}

(* Lines as clampQty leaves them.                                          *)
Legal(lines) == \A p \in DOMAIN lines : lines[p] \in 1..MaxLineQuantity

(* What lines are.                                                         *)
LEMMA LinesAre ==
    ASSUME NEW l
    PROVE  l \in CartLines <=> /\ l = [p \in DOMAIN l |-> l[p]] /\ DOMAIN l \subseteq CartProducts
                               /\ \A p \in DOMAIN l : l[p] \in Pag!Int32
BY DEF CartLines

(* int32 holds 0, the legal quantities and what arithmetic wraps to, and   *)
(* leaves alone what fits.                                                 *)
LEMMA WrapFits ==
    /\ 0 \in Pag!Int32 /\ 1..MaxLineQuantity \subseteq Pag!Int32 /\ Quantities \subseteq Pag!Int32
    /\ \A n \in Int : Pag!Wrap(n) \in Pag!Int32
    /\ \A n \in Pag!Int32 : Pag!Wrap(n) = n
    /\ \A n \in Pag!Int32 : Pag!ClampQty(n) \in Pag!Int32 /\ (n > 0 => Pag!ClampQty(n) \in 1..MaxLineQuantity)
<1>1. Half \in Nat /\ Half > 0 /\ MaxLineQuantity \in Nat /\ MaxLineQuantity >= 1 /\ MaxLineQuantity < Half
      /\ Quantities \subseteq -Half .. Half - 1
  <2>1. Half \in Nat /\ Quantities \subseteq -Half .. Half - 1
    BY StorefrontCarts
  <2>2. MaxLineQuantity \in 1..(Half - 1)
    BY StorefrontConstants
  <2> QED
    BY <2>1, <2>2
<1>2. ASSUME NEW n \in Int PROVE Pag!Wrap(n) \in Pag!Int32
  <2>1. (n + Half) % (2 * Half) \in 0..(2 * Half - 1)
    BY <1>1
  <2> QED
    BY <1>1, <2>1 DEF Pag!Wrap, Pag!Int32
<1>3. ASSUME NEW n \in Pag!Int32 PROVE Pag!Wrap(n) = n
  <2>1. n \in Int /\ n + Half \in 0..(2 * Half - 1)
    BY <1>1 DEF Pag!Int32
  <2>2. (n + Half) % (2 * Half) = n + Half
    BY <1>1, <2>1
  <2> QED
    BY <1>1, <2>1, <2>2 DEF Pag!Wrap
<1>4. 0 \in Pag!Int32 /\ 1..MaxLineQuantity \subseteq Pag!Int32 /\ Quantities \subseteq Pag!Int32
  BY <1>1 DEF Pag!Int32
<1>5. ASSUME NEW n \in Pag!Int32 PROVE Pag!ClampQty(n) \in Pag!Int32 /\ (n > 0 => Pag!ClampQty(n) \in 1..MaxLineQuantity)
  BY <1>1 DEF Pag!Int32, Pag!ClampQty
<1> QED
  BY <1>2, <1>3, <1>4, <1>5

(* A line set, a line taken out, the lines of two carts put together.      *)
LEMMA LinesChanged ==
    ASSUME NEW l \in CartLines, NEW p \in CartProducts, NEW q \in Pag!Int32
    PROVE  /\ Pag!With(l, p, q) \in CartLines
           /\ Legal(l) /\ q \in 1..MaxLineQuantity => Legal(Pag!With(l, p, q))
           /\ Pag!Without(l, p) \in CartLines /\ (Legal(l) => Legal(Pag!Without(l, p)))
<1>1. DOMAIN l \subseteq CartProducts /\ \A x \in DOMAIN l : l[x] \in Pag!Int32
  BY LinesAre
<1> DEFINE S == DOMAIN l \cup {p}
           w == [x \in S |-> IF x = p THEN q ELSE l[x]]
           T == DOMAIN l \ {p}
           o == [x \in T |-> l[x]]
<1>2. DOMAIN w = S /\ S \subseteq CartProducts /\ \A x \in S : w[x] = IF x = p THEN q ELSE l[x]
  BY <1>1
<1>3. w \in CartLines
  <2>1. \A x \in S : w[x] \in Pag!Int32
    BY <1>1, <1>2
  <2>2. w = [x \in DOMAIN w |-> w[x]]
    BY <1>2
  <2> HIDE DEF w, S
  <2> QED
    BY <1>2, <2>1, <2>2, LinesAre
<1>4. DOMAIN o = T /\ T \subseteq CartProducts /\ \A x \in T : o[x] = l[x]
  BY <1>1
<1>5. o \in CartLines
  <2>1. \A x \in T : o[x] \in Pag!Int32
    BY <1>1, <1>4
  <2>2. o = [x \in DOMAIN o |-> o[x]]
    BY <1>4
  <2> HIDE DEF o, T
  <2> QED
    BY <1>4, <2>1, <2>2, LinesAre
<1>6. Pag!With(l, p, q) = w /\ Pag!Without(l, p) = o
  BY DEF Pag!With, Pag!Without
<1>7. Legal(l) /\ q \in 1..MaxLineQuantity => Legal(w)
  BY <1>2 DEF Legal
<1>8. Legal(l) => Legal(o)
  BY <1>4 DEF Legal
<1> HIDE DEF w, o, S, T
<1> QED
  BY <1>3, <1>5, <1>6, <1>7, <1>8

(* The empty cart.                                                         *)
LEMMA EmptyFits == Pag!Empty \in CartLines /\ Legal(Pag!Empty)
<1>1. DOMAIN Pag!Empty = {} /\ Pag!Empty = [p \in DOMAIN Pag!Empty |-> Pag!Empty[p]]
  BY DEF Pag!Empty
<1> QED
  BY <1>1, LinesAre DEF Legal

(* Merging two carts, and when it leaves legal lines (MergeFrom).          *)
LEMMA MergeFits ==
    ASSUME NEW l \in CartLines, NEW m \in CartLines
    PROVE  /\ Pag!MergeFrom(l, m) \in CartLines
           /\ /\ Legal(l) /\ Legal(m) /\ \A p \in DOMAIN l \cap DOMAIN m : l[p] + m[p] \in Pag!Int32
              => Legal(Pag!MergeFrom(l, m))
<1>1. /\ DOMAIN l \subseteq CartProducts /\ \A x \in DOMAIN l : l[x] \in Pag!Int32
      /\ DOMAIN m \subseteq CartProducts /\ \A x \in DOMAIN m : m[x] \in Pag!Int32
  BY LinesAre
<1> DEFINE S == DOMAIN l \cup DOMAIN m
           w == [x \in S |-> IF x \notin DOMAIN l THEN m[x] ELSE IF x \notin DOMAIN m THEN l[x]
                             ELSE Pag!ClampQty(Pag!Wrap(l[x] + m[x]))]
<1>2. DOMAIN w = S /\ S \subseteq CartProducts /\ w = [x \in DOMAIN w |-> w[x]]
  BY <1>1
<1>3. ASSUME NEW x \in S PROVE w[x] \in Pag!Int32
  <2>1. w[x] = IF x \notin DOMAIN l THEN m[x] ELSE IF x \notin DOMAIN m THEN l[x]
               ELSE Pag!ClampQty(Pag!Wrap(l[x] + m[x]))
    OBVIOUS
  <2>2. CASE x \in DOMAIN l /\ x \in DOMAIN m
    <3>1. l[x] + m[x] \in Int
      BY <1>1, <2>2 DEF Pag!Int32
    <3>2. Pag!Wrap(l[x] + m[x]) \in Pag!Int32
      BY <3>1, WrapFits
    <3> QED
      BY <2>1, <2>2, <3>2, WrapFits
  <2>3. CASE x \notin DOMAIN l
    BY <1>1, <2>1, <2>3
  <2>4. CASE x \in DOMAIN l /\ x \notin DOMAIN m
    BY <1>1, <2>1, <2>4
  <2> QED
    BY <2>2, <2>3, <2>4
<1>4. ASSUME Legal(l), Legal(m), \A p \in DOMAIN l \cap DOMAIN m : l[p] + m[p] \in Pag!Int32, NEW x \in S
      PROVE  w[x] \in 1..MaxLineQuantity
  <2>1. w[x] = IF x \notin DOMAIN l THEN m[x] ELSE IF x \notin DOMAIN m THEN l[x]
               ELSE Pag!ClampQty(Pag!Wrap(l[x] + m[x]))
    OBVIOUS
  <2>2. CASE x \in DOMAIN l /\ x \in DOMAIN m
    <3>1. l[x] + m[x] \in Pag!Int32 /\ l[x] \in 1..MaxLineQuantity /\ m[x] \in 1..MaxLineQuantity
      BY <1>4, <2>2 DEF Legal
    <3>2. l[x] + m[x] > 0
      BY <3>1, StorefrontConstants, WrapFits DEF Pag!Int32
    <3>3. Pag!Wrap(l[x] + m[x]) = l[x] + m[x]
      BY <3>1, WrapFits
    <3> QED
      BY <2>1, <2>2, <3>1, <3>2, <3>3, WrapFits
  <2>3. CASE x \notin DOMAIN l
    BY <1>4, <2>1, <2>3 DEF Legal
  <2>4. CASE x \in DOMAIN l /\ x \notin DOMAIN m
    BY <1>4, <2>1, <2>4 DEF Legal
  <2> QED
    BY <2>2, <2>3, <2>4
<1>5. Pag!MergeFrom(l, m) = w
  BY DEF Pag!MergeFrom
<1>6. w \in CartLines
  <2> HIDE DEF w, S
  <2> QED
    BY <1>2, <1>3, LinesAre
<1>7. /\ Legal(l) /\ Legal(m) /\ \A p \in DOMAIN l \cap DOMAIN m : l[p] + m[p] \in Pag!Int32
      => Legal(w)
  <2> HIDE DEF w, S
  <2> QED
    BY <1>2, <1>4 DEF Legal
<1> HIDE DEF w, S
<1> QED
  BY <1>5, <1>6, <1>7

(* A request changes lines in one way or not at all, whatever the lines    *)
(* are (AddItem, SetItemQuantity, RemoveItem, Clear).                      *)
LEMMA ChangeIs ==
    ASSUME NEW req, NEW l, NEW m, req.op \in {"add", "set", "remove", "clear"}
    PROVE  /\ Pag!Change(req, l) = {} => Pag!Change(req, m) = {}
           /\ Pag!Change(req, l) # {} => \E new : Pag!Change(req, l) = {new}
BY DEF Pag!Change

(* It leaves lines; legal ones, if no sum leaves int32 (Add, SetQuantity,  *)
(* Remove, Clear).                                                         *)
LEMMA ChangeFits ==
    ASSUME NEW req, NEW l \in CartLines, req.op \in {"add", "set", "remove", "clear"}, req.quantity \in Pag!Int32,
           req.op # "clear" => req.product \in CartProducts, NEW new \in Pag!Change(req, l)
    PROVE  new \in CartLines /\ (Legal(l) /\ ~Pag!Overflows(req, l) => Legal(new))
<1>1. CASE req.op = "add"
  <2> DEFINE p == req.product
             n == Pag!Quantity(l, p) + req.quantity
  <2>1. p \in CartProducts /\ req.quantity > 0 /\ new = Pag!With(l, p, Pag!ClampQty(Pag!Wrap(n)))
    BY <1>1 DEF Pag!Change, Pag!Add
  <2>2. Pag!Quantity(l, p) \in Pag!Int32 /\ (Legal(l) => Pag!Quantity(l, p) >= 0)
    <3>1. CASE p \in DOMAIN l
      <4>1. l[p] \in Pag!Int32 /\ Pag!Quantity(l, p) = l[p]
        BY <3>1, LinesAre DEF Pag!Quantity
      <4>2. Legal(l) => l[p] \in 1..MaxLineQuantity
        BY <3>1 DEF Legal
      <4> QED
        BY <4>1, <4>2 DEF Pag!Int32
    <3>2. CASE p \notin DOMAIN l
      BY <3>2, WrapFits DEF Pag!Quantity
    <3> QED
      BY <3>1, <3>2
  <2>3. n \in Int /\ (Legal(l) => n > 0)
    BY <2>1, <2>2 DEF Pag!Int32
  <2>4. Pag!Overflows(req, l) <=> n \notin Pag!Int32
    BY <1>1 DEF Pag!Overflows
  <2> HIDE DEF n, p
  <2> DEFINE q == Pag!ClampQty(Pag!Wrap(n))
  <2>5. q \in Pag!Int32
    BY <2>3, WrapFits
  <2>6. Legal(l) /\ ~Pag!Overflows(req, l) => q \in 1..MaxLineQuantity
    BY <2>3, <2>4, WrapFits
  <2>7. new = Pag!With(l, p, q)
    BY <2>1
  <2> HIDE DEF q
  <2> QED
    BY <2>1, <2>5, <2>6, <2>7, LinesChanged
<1>2. CASE req.op = "set"
  <2> DEFINE p == req.product
  <2>1. p \in CartProducts /\ req.quantity >= 0 /\ new = Pag!SetQuantity(l, p, req.quantity)
    BY <1>2 DEF Pag!Change
  <2> HIDE DEF p
  <2>2. CASE req.quantity = 0
    <3>1. new = Pag!Without(l, p)
      BY <2>1, <2>2 DEF Pag!SetQuantity
    <3> QED
      BY <2>1, <3>1, LinesChanged, WrapFits
  <2>3. CASE req.quantity # 0
    <3> DEFINE q == Pag!ClampQty(req.quantity)
    <3>1. new = Pag!With(l, p, q)
      BY <2>1, <2>3 DEF Pag!SetQuantity
    <3>2. req.quantity > 0
      BY <2>1, <2>3 DEF Pag!Int32
    <3>3. q \in Pag!Int32 /\ q \in 1..MaxLineQuantity
      BY <3>2, WrapFits
    <3> HIDE DEF q
    <3> QED
      BY <2>1, <3>1, <3>3, LinesChanged
  <2> QED
    BY <2>2, <2>3
<1>3. CASE req.op = "remove"
  <2>1. req.product \in CartProducts /\ new = Pag!Without(l, req.product)
    BY <1>3 DEF Pag!Change
  <2> QED
    BY <2>1, LinesChanged, WrapFits
<1>4. CASE req.op = "clear"
  <2>1. new = Pag!Empty
    BY <1>4 DEF Pag!Change, Pag!Clear
  <2> QED
    BY <2>1, EmptyFits
<1> QED
  BY <1>1, <1>2, <1>3, <1>4

-----------------------------------------------------------------------------
(* The requests of carts: what they hold and where they are.               *)
CartRequest ==
    [op : {"none", "add", "set", "remove", "clear", "merge"}, cart : Carts \cup {""}, from : Carts \cup {""},
     product : CartProducts \cup {""}, quantity : Pag!Int32, blob : CartLines, other : CartLines,
     pc : {"idle", "loaded", "half", "saved"}]
RequestFormed(q) ==
    q.pc # "idle" => /\ q.cart \in Carts /\ q.op # "none"
                     /\ IF q.op = "merge" THEN q.from \in Carts
                        ELSE q.from = "" /\ q.pc = "loaded" /\ (q.op # "clear" => q.product \in CartProducts)
CartTypeInv ==
    /\ cart \in [Carts -> CartLines] /\ serial \in [Carts -> CartLines] /\ cartReq \in [CartRequests -> CartRequest]
    /\ disturbed \subseteq Carts /\ wrapped \in BOOLEAN /\ cartOps \in 0..MaxCartOps
    /\ \A r \in CartRequests : RequestFormed(cartReq[r])

(* Legal lines in the carts, and in the blobs of the requests, until a sum *)
(* leaves int32.                                                           *)
LegalInv ==
    wrapped \/ /\ \A c \in Carts : Legal(cart[c])
               /\ \A r \in CartRequests : Legal(cartReq[r].blob) /\ Legal(cartReq[r].other)

(* The units of a cart that is not disturbed: one request at most has its  *)
(* blob, which is the cart, and the cart is what its requests made of it   *)
(* unless it was merged away and is still to be deleted.                   *)
In(r, c) == cartReq[r].pc # "idle" /\ c \in {cartReq[r].cart, cartReq[r].from}
Alone(c) == \A r, s \in CartRequests : In(r, c) /\ In(s, c) => r = s
Counted(c) == (\A r \in CartRequests : ~In(r, c)) => cart[c] = serial[c]
Held(r, c) ==
    /\ cartReq[r].from # cartReq[r].cart
    /\ cartReq[r].cart = c => cart[c] = serial[c] /\ (cartReq[r].pc = "loaded" => cartReq[r].blob = cart[c])
    /\ cartReq[r].from = c => IF cartReq[r].pc = "saved" THEN serial[c] = Pag!Empty
                              ELSE cart[c] = serial[c] /\ cartReq[r].other = cart[c]
UnitsInv == \A c \in Carts \ disturbed : Alone(c) /\ Counted(c) /\ \A r \in CartRequests : In(r, c) => Held(r, c)

CartInv == CartTypeInv /\ LegalInv /\ UnitsInv

(* Only carts' requests and Redis touch carts.                             *)
LEMMA CartFrame == [Next]_vars => CartStep \/ CartExpires \/ UNCHANGED cartVars
BY DEF Next, vars, frontVars, FgaStep, SellerStep, CatalogStep, IndexStep, StockStep, SearchStep, SharingStep,
       MediaStep, PageStep, ListStep, EdgeStep, AnalyticsStep, AnalyticsKeep

(* The steps of a cart's requests: load for a change, save, and the four   *)
(* of a merge.                                                             *)
CartLoads(r, op, c, p, q) ==
    /\ Pag!LoadCart(r, op, c, p, q) /\ c \in Carts /\ q \in Pag!Int32
    /\ op \in {"add", "set", "remove", "clear"} /\ p \in CartProducts \cup {""}
    /\ op # "clear" => p \in CartProducts
CartAct ==
    \/ \E r \in CartRequests :
         \/ \E op \in {"add", "set", "remove", "clear"}, c \in Carts, p \in CartProducts \cup {""}, q \in Pag!Int32 :
              CartLoads(r, op, c, p, q)
         \/ \E from, to \in Carts : Pag!LoadFrom(r, from, to)
         \/ Pag!SaveCart(r) \/ Pag!LoadTo(r) \/ Pag!SaveMerged(r) \/ Pag!DeleteFrom(r)
    \/ \E c \in Carts : Pag!ExpireCart(c)
    \/ UNCHANGED cartVars

(* Every step is one of them.                                              *)
LEMMA CartActs == [Next]_vars => CartAct
<1> SUFFICES ASSUME [Next]_vars PROVE CartAct
  OBVIOUS
<1>1. CASE CartStep
  <2>1. PICK r \in CartRequests :
           \/ \E p \in CartProducts, q \in Quantities : Pag!LoadCart(r, "add", PageCart, p, q)
           \/ \E c \in Carts, p \in CartProducts :
                (\E op \in {"add", "set"}, q \in Quantities : Pag!LoadCart(r, op, c, p, q))
                   \/ Pag!LoadCart(r, "remove", c, p, 0)
           \/ \E c \in Carts : Pag!LoadCart(r, "clear", c, "", 0)
           \/ \E from, to \in Carts : Pag!LoadFrom(r, from, to)
           \/ Pag!SaveCart(r) \/ Pag!LoadTo(r) \/ Pag!SaveMerged(r) \/ Pag!DeleteFrom(r)
    BY <1>1 DEF CartStep
  <2>2. PageCart \in Carts /\ 0 \in Pag!Int32 /\ Quantities \subseteq Pag!Int32
    BY StorefrontCarts, WrapFits
  <2>3. ASSUME NEW p \in CartProducts, NEW q \in Quantities, Pag!LoadCart(r, "add", PageCart, p, q) PROVE CartAct
    <3>1. CartLoads(r, "add", PageCart, p, q)
      BY <2>2, <2>3 DEF CartLoads
    <3> QED
      BY <2>2, <3>1 DEF CartAct
  <2>4. ASSUME NEW c \in Carts, NEW p \in CartProducts, NEW op \in {"add", "set"}, NEW q \in Quantities,
               Pag!LoadCart(r, op, c, p, q)
        PROVE  CartAct
    <3>1. CartLoads(r, op, c, p, q)
      BY <2>2, <2>4 DEF CartLoads
    <3> QED
      BY <2>2, <3>1 DEF CartAct
  <2>5. ASSUME NEW c \in Carts, NEW p \in CartProducts, Pag!LoadCart(r, "remove", c, p, 0) PROVE CartAct
    <3>1. CartLoads(r, "remove", c, p, 0)
      BY <2>2, <2>5 DEF CartLoads
    <3> QED
      BY <2>2, <3>1 DEF CartAct
  <2>6. ASSUME NEW c \in Carts, Pag!LoadCart(r, "clear", c, "", 0) PROVE CartAct
    <3>1. CartLoads(r, "clear", c, "", 0)
      BY <2>2, <2>6 DEF CartLoads
    <3> QED
      BY <2>2, <3>1 DEF CartAct
  <2>7. ASSUME (\E from, to \in Carts : Pag!LoadFrom(r, from, to)) \/ Pag!SaveCart(r) \/ Pag!LoadTo(r)
                  \/ Pag!SaveMerged(r) \/ Pag!DeleteFrom(r)
        PROVE CartAct
    BY <2>7 DEF CartAct
  <2> QED
    BY <2>1, <2>3, <2>4, <2>5, <2>6, <2>7
<1>2. CASE CartExpires
  BY <1>2 DEF CartExpires, CartAct
<1> QED
  BY <1>1, <1>2, CartFrame DEF CartAct

(* A request is none, or one that has just loaded.                         *)
LEMMA NewRequests ==
    /\ Pag!NoReq \in CartRequest /\ RequestFormed(Pag!NoReq) /\ Pag!NoReq.pc = "idle"
    /\ Legal(Pag!NoReq.blob) /\ Legal(Pag!NoReq.other)
<1>1. Pag!Empty \in CartLines /\ Legal(Pag!Empty) /\ 0 \in Pag!Int32
  BY EmptyFits, WrapFits
<1> QED
  BY <1>1 DEF Pag!NoReq, CartRequest, RequestFormed

(* Carts start empty, and no request has begun.                            *)
LEMMA CartStart == Init => CartInv
<1> SUFFICES ASSUME Init PROVE CartInv
  OBVIOUS
<1>1. /\ cart = [c \in Carts |-> Pag!Empty] /\ serial = cart /\ cartOps = 0
      /\ cartReq = [r \in CartRequests |-> Pag!NoReq] /\ disturbed = {} /\ wrapped = FALSE
  BY DEF Init, Pag!CartInit
<1>2. MaxCartOps \in Nat
  BY StorefrontCarts
<1>3. CartTypeInv
  <2>1. cart \in [Carts -> CartLines] /\ serial \in [Carts -> CartLines] /\ cartReq \in [CartRequests -> CartRequest]
    BY <1>1, NewRequests, EmptyFits
  <2>2. disturbed \subseteq Carts /\ wrapped \in BOOLEAN /\ cartOps \in 0..MaxCartOps
    <3>1. wrapped \in BOOLEAN
      BY <1>1, Zenon
    <3> QED
      BY <1>1, <1>2, <3>1
  <2>3. \A r \in CartRequests : RequestFormed(cartReq[r])
    BY <1>1, NewRequests
  <2> QED
    BY <2>1, <2>2, <2>3 DEF CartTypeInv
<1>4. LegalInv
  BY <1>1, NewRequests, EmptyFits DEF LegalInv
<1>5. UnitsInv
  BY <1>1, NewRequests DEF UnitsInv, Alone, Counted, In
<1> QED
  BY <1>3, <1>4, <1>5 DEF CartInv

(* The parts of a request that is replaced by another one.                 *)
LEMMA RequestPut ==
    ASSUME CartTypeInv, NEW r \in CartRequests, NEW q \in CartRequest, RequestFormed(q),
           cartReq' = [cartReq EXCEPT ![r] = q]
    PROVE  /\ cartReq' \in [CartRequests -> CartRequest] /\ cartReq'[r] = q
           /\ \A s \in CartRequests \ {r} : cartReq'[s] = cartReq[s]
           /\ \A s \in CartRequests : RequestFormed(cartReq'[s])
<1>1. cartReq \in [CartRequests -> CartRequest] /\ \A s \in CartRequests : RequestFormed(cartReq[s])
  BY DEF CartTypeInv
<1>2. cartReq' \in [CartRequests -> CartRequest] /\ cartReq'[r] = q
      /\ \A s \in CartRequests \ {r} : cartReq'[s] = cartReq[s]
  BY <1>1
<1>3. ASSUME NEW s \in CartRequests PROVE RequestFormed(cartReq'[s])
  <2>1. cartReq'[s] = q \/ cartReq'[s] = cartReq[s]
    BY <1>2
  <2> QED
    BY <1>1, <2>1
<1> QED
  BY <1>2, <1>3

(* Who had a blob, with a request's replacement.                           *)
LEMMA SomebodyIn == \A c : (\A r \in CartRequests : ~In(r, c)) <=> Pag!Loaded(c) = {}
BY DEF In, Pag!Loaded

(* Loading a cart for a change.                                            *)
LEMMA LoadCartStep ==
    ASSUME CartInv, NEW r \in CartRequests, NEW op, NEW c, NEW p, NEW q, CartLoads(r, op, c, p, q)
    PROVE  CartInv'
<1> DEFINE new == [Pag!NoReq EXCEPT !.op = op, !.cart = c, !.product = p, !.quantity = q, !.blob = cart[c], !.pc = "loaded"]
<1>1. /\ cartReq[r].pc = "idle" /\ cartOps < MaxCartOps /\ cartOps' = cartOps + 1
      /\ cartReq' = [cartReq EXCEPT ![r] = new] /\ UNCHANGED <<cart, serial, wrapped>>
      /\ disturbed' = disturbed \cup {x \in {c} : Pag!Loaded(x) # {}}
  BY DEF CartLoads, Pag!LoadCart, Pag!Disturb
<1>2. /\ c \in Carts /\ q \in Pag!Int32 /\ op \in {"add", "set", "remove", "clear"} /\ p \in CartProducts \cup {""}
      /\ (op # "clear" => p \in CartProducts)
  BY DEF CartLoads
<1>3. CartTypeInv /\ LegalInv /\ UnitsInv /\ cart[c] \in CartLines
  BY <1>2 DEF CartInv, CartTypeInv
<1>4. /\ new.op = op /\ new.cart = c /\ new.from = "" /\ new.product = p /\ new.quantity = q
      /\ new.blob = cart[c] /\ new.other = Pag!Empty /\ new.pc = "loaded"
  BY DEF Pag!NoReq
<1>5. new \in CartRequest
  <2>1. Pag!Empty \in CartLines
    BY EmptyFits
  <2> QED
    BY <1>2, <1>3, <2>1 DEF CartRequest, Pag!NoReq
<1> HIDE DEF new
<1>6. RequestFormed(new)
  BY <1>2, <1>4 DEF RequestFormed
<1>7. /\ cartReq' \in [CartRequests -> CartRequest] /\ cartReq'[r] = new
      /\ \A s \in CartRequests \ {r} : cartReq'[s] = cartReq[s]
      /\ \A s \in CartRequests : RequestFormed(cartReq'[s])
  BY <1>1, <1>3, <1>5, <1>6, RequestPut
<1>8. CartTypeInv'
  <2>1. cartOps \in 0..MaxCartOps /\ MaxCartOps \in Nat
    BY <1>3, StorefrontCarts DEF CartTypeInv
  <2>2. cartOps' \in 0..MaxCartOps
    BY <1>1, <2>1
  <2> QED
    BY <1>1, <1>2, <1>3, <1>7, <2>2 DEF CartTypeInv
<1>9. LegalInv'
  <2>1. Legal(Pag!Empty)
    BY EmptyFits
  <2> QED
    BY <1>1, <1>2, <1>3, <1>4, <1>7, <2>1 DEF LegalInv
<1>10. UnitsInv'
  <2> SUFFICES ASSUME NEW d \in Carts, d \notin disturbed'
               PROVE  Alone(d)' /\ Counted(d)' /\ \A s \in CartRequests : In(s, d)' => Held(s, d)'
    BY DEF UnitsInv
  <2>1. d \notin disturbed /\ (d = c => \A s \in CartRequests : ~In(s, c))
    BY <1>1, SomebodyIn
  <2>2. Alone(d) /\ Counted(d) /\ \A s \in CartRequests : In(s, d) => Held(s, d)
    BY <1>3, <2>1 DEF UnitsInv
  <2>3. \A s \in CartRequests \ {r} : (In(s, d)' <=> In(s, d)) /\ (Held(s, d)' <=> Held(s, d))
    BY <1>1, <1>7 DEF In, Held
  <2>4. ~In(r, d) /\ (In(r, d)' <=> d = c)
    <3>1. "" \notin Carts
      BY StorefrontCarts
    <3> QED
      BY <1>1, <1>4, <1>7, <3>1 DEF In
  <2>5. Alone(d)'
    BY <2>1, <2>2, <2>3, <2>4 DEF Alone
  <2>6. Counted(d)'
    BY <1>1, <2>1, <2>2, <2>3, <2>4 DEF Counted
  <2>7. d = c => Held(r, d)'
    <3>1. "" \notin Carts
      BY StorefrontCarts
    <3> SUFFICES ASSUME d = c PROVE Held(r, d)'
      OBVIOUS
    <3>2. cart[d] = serial[d]
      BY <2>1, <2>2 DEF Counted
    <3> QED
      BY <1>1, <1>2, <1>4, <1>7, <3>1, <3>2 DEF Held
  <2> QED
    BY <2>2, <2>3, <2>4, <2>5, <2>6, <2>7
<1> QED
  BY <1>8, <1>9, <1>10 DEF CartInv

(* Saving a changed cart.                                                  *)
LEMMA SaveCartStep ==
    ASSUME CartInv, NEW r \in CartRequests, Pag!SaveCart(r)
    PROVE  CartInv'
<1> DEFINE req == cartReq[r]
           c == req.cart
           change == Pag!Change(req, req.blob)
<1>1. /\ req.pc = "loaded" /\ req.op # "merge" /\ cartReq' = [cartReq EXCEPT ![r] = Pag!NoReq]
      /\ UNCHANGED <<cartOps, disturbed>>
      /\ IF change = {} THEN UNCHANGED <<cart, serial, wrapped>>
         ELSE \E lines \in change :
                /\ cart' = [cart EXCEPT ![c] = lines]
                /\ serial' = [serial EXCEPT ![c] = CHOOSE x \in Pag!Change(req, serial[c]) : TRUE]
                /\ wrapped' = (wrapped \/ Pag!Overflows(req, req.blob))
  BY DEF Pag!SaveCart
<1>2. CartTypeInv /\ LegalInv /\ UnitsInv
  BY DEF CartInv
<1>3. req \in CartRequest /\ RequestFormed(req)
  BY <1>2 DEF CartTypeInv
<1>4. /\ c \in Carts /\ req.op \in {"add", "set", "remove", "clear"} /\ req.from = ""
      /\ (req.op # "clear" => req.product \in CartProducts) /\ req.blob \in CartLines /\ req.quantity \in Pag!Int32
  BY <1>1, <1>3 DEF CartRequest, RequestFormed
<1>5. /\ cart \in [Carts -> CartLines] /\ serial \in [Carts -> CartLines] /\ wrapped \in BOOLEAN
      /\ cart[c] \in CartLines /\ serial[c] \in CartLines
  BY <1>2, <1>4 DEF CartTypeInv
<1>6. /\ cartReq' \in [CartRequests -> CartRequest] /\ cartReq'[r] = Pag!NoReq
      /\ \A s \in CartRequests \ {r} : cartReq'[s] = cartReq[s]
      /\ \A s \in CartRequests : RequestFormed(cartReq'[s])
  BY <1>1, <1>2, NewRequests, RequestPut
<1>7. /\ cart' \in [Carts -> CartLines] /\ serial' \in [Carts -> CartLines] /\ wrapped' \in BOOLEAN
      /\ \A d \in Carts \ {c} : cart'[d] = cart[d] /\ serial'[d] = serial[d]
      /\ wrapped \/ wrapped' \/ (Legal(req.blob) /\ Legal(cart[c]) => Legal(cart'[c]))
      /\ wrapped => wrapped'
      /\ req.blob = cart[c] /\ cart[c] = serial[c] => cart'[c] = serial'[c]
  <2>1. CASE change = {}
    BY <1>1, <1>5, <2>1
  <2>2. CASE change # {}
    <3>1. PICK lines \in change :
             /\ cart' = [cart EXCEPT ![c] = lines]
             /\ serial' = [serial EXCEPT ![c] = CHOOSE x \in Pag!Change(req, serial[c]) : TRUE]
             /\ wrapped' = (wrapped \/ Pag!Overflows(req, req.blob))
      BY <1>1, <2>2
    <3>2. lines \in CartLines /\ (Legal(req.blob) /\ ~Pag!Overflows(req, req.blob) => Legal(lines))
      BY <1>4, ChangeFits
    <3> DEFINE after == CHOOSE x \in Pag!Change(req, serial[c]) : TRUE
    <3>3. after \in Pag!Change(req, serial[c])
      <4>1. Pag!Change(req, serial[c]) # {}
        <5>1. req.op \in {"add", "set", "remove", "clear"}
          BY <1>4
        <5> QED
          BY <2>2, <5>1, ChangeIs
      <4> QED
        BY <4>1
    <3>4. serial' = [serial EXCEPT ![c] = after]
      BY <3>1
    <3>5. serial[c] = req.blob => after = lines
      <4>1. PICK new : change = {new}
        <5>1. req.op \in {"add", "set", "remove", "clear"}
          BY <1>4
        <5> QED
          BY <2>2, <5>1, ChangeIs
      <4> HIDE DEF after
      <4> QED
        BY <3>3, <4>1
    <3> HIDE DEF after
    <3>6. after \in CartLines
      BY <1>4, <1>5, <3>3, ChangeFits
    <3>7. cart'[c] = lines /\ serial'[c] = after
      BY <1>4, <1>5, <3>1, <3>4
    <3>8. wrapped' <=> wrapped \/ Pag!Overflows(req, req.blob)
      BY <3>1
    <3>9. wrapped' \in BOOLEAN
      <4>1. Pag!Overflows(req, req.blob) \in BOOLEAN
        BY DEF Pag!Overflows
      <4> QED
        BY <1>5, <3>1, <4>1
    <3>10. cart' \in [Carts -> CartLines] /\ serial' \in [Carts -> CartLines]
           /\ \A d \in Carts \ {c} : cart'[d] = cart[d] /\ serial'[d] = serial[d]
      BY <1>4, <1>5, <3>1, <3>2, <3>4, <3>6
    <3>11. wrapped \/ wrapped' \/ (Legal(req.blob) /\ Legal(cart[c]) => Legal(cart'[c]))
      BY <3>2, <3>7, <3>8
    <3>12. wrapped => wrapped'
      BY <3>8
    <3>13. req.blob = cart[c] /\ cart[c] = serial[c] => cart'[c] = serial'[c]
      BY <3>5, <3>7
    <3> QED
      BY <3>9, <3>10, <3>11, <3>12, <3>13
  <2> QED
    BY <2>1, <2>2
<1>8. CartTypeInv'
  BY <1>1, <1>2, <1>6, <1>7 DEF CartTypeInv
<1>9. LegalInv'
  <2> SUFFICES ASSUME ~wrapped' PROVE (\A d \in Carts : Legal(cart'[d]))
                  /\ \A s \in CartRequests : Legal(cartReq'[s].blob) /\ Legal(cartReq'[s].other)
    BY DEF LegalInv
  <2>1. ~wrapped
    BY <1>7
  <2>2. /\ \A d \in Carts : Legal(cart[d])
        /\ \A s \in CartRequests : Legal(cartReq[s].blob) /\ Legal(cartReq[s].other)
    BY <1>2, <2>1 DEF LegalInv
  <2>3. Legal(req.blob) /\ Legal(cart[c])
    BY <1>4, <2>2
  <2>4. Legal(cart'[c])
    BY <1>7, <2>1, <2>3
  <2>5. \A d \in Carts : Legal(cart'[d])
    BY <1>7, <2>2, <2>4
  <2>6. ASSUME NEW s \in CartRequests PROVE Legal(cartReq'[s].blob) /\ Legal(cartReq'[s].other)
    BY <1>6, <2>2, NewRequests
  <2> QED
    BY <2>5, <2>6
<1> HIDE DEF change
<1>10. UnitsInv'
  <2> SUFFICES ASSUME NEW d \in Carts, d \notin disturbed'
               PROVE  Alone(d)' /\ Counted(d)' /\ \A s \in CartRequests : In(s, d)' => Held(s, d)'
    BY DEF UnitsInv
  <2>1. d \notin disturbed
    BY <1>1
  <2>2. Alone(d) /\ Counted(d) /\ \A s \in CartRequests : In(s, d) => Held(s, d)
    BY <1>2, <2>1 DEF UnitsInv
  <2>3. ~In(r, d)' /\ (In(r, d) <=> d = c)
    <3>1. "" \notin Carts
      BY StorefrontCarts
    <3> QED
      BY <1>1, <1>4, <1>6, <3>1, NewRequests DEF In
  <2>4. \A s \in CartRequests \ {r} : In(s, d)' <=> In(s, d)
    BY <1>6 DEF In
  <2>5. CASE d = c
    <3>1. Held(r, d) /\ \A s \in CartRequests \ {r} : ~In(s, d)
      BY <2>2, <2>3, <2>5 DEF Alone
    <3>2. req.blob = cart[c] /\ cart[c] = serial[c]
      BY <1>1, <2>5, <3>1 DEF Held
    <3>3. cart'[c] = serial'[c]
      BY <1>7, <3>2
    <3>4. \A s \in CartRequests : ~In(s, d)'
      BY <2>3, <2>4, <3>1
    <3> QED
      BY <2>5, <3>3, <3>4 DEF Alone, Counted
  <2>6. CASE d # c
    <3>1. \A s \in CartRequests : In(s, d)' <=> In(s, d)
      BY <2>3, <2>4, <2>6
    <3>2. cart'[d] = cart[d] /\ serial'[d] = serial[d]
      BY <1>7, <2>6
    <3>3. \A s \in CartRequests \ {r} : Held(s, d)' <=> Held(s, d)
      BY <1>6, <3>2 DEF Held
    <3>4. Alone(d)' /\ Counted(d)'
      BY <2>2, <3>1, <3>2 DEF Alone, Counted
    <3> QED
      BY <2>2, <2>3, <3>1, <3>3, <3>4
  <2> QED
    BY <2>5, <2>6
<1> QED
  BY <1>8, <1>9, <1>10 DEF CartInv

(* Loading the cart a merge takes from.                                    *)
LEMMA LoadFromStep ==
    ASSUME CartInv, NEW r \in CartRequests, NEW f \in Carts, NEW t \in Carts, Pag!LoadFrom(r, f, t)
    PROVE  CartInv'
<1> DEFINE new == [Pag!NoReq EXCEPT !.op = "merge", !.cart = t, !.from = f, !.other = cart[f], !.pc = "half"]
<1>1. /\ cartReq[r].pc = "idle" /\ cartOps < MaxCartOps /\ cartOps' = cartOps + 1
      /\ cartReq' = [cartReq EXCEPT ![r] = new] /\ UNCHANGED <<cart, serial, wrapped>>
      /\ disturbed' = disturbed \cup {c \in {f, t} : Pag!Loaded(c) # {}} \cup (IF f = t THEN {f} ELSE {})
  BY DEF Pag!LoadFrom
<1>2. CartTypeInv /\ LegalInv /\ UnitsInv /\ cart[f] \in CartLines
  BY DEF CartInv, CartTypeInv
<1>3. /\ new.op = "merge" /\ new.cart = t /\ new.from = f /\ new.blob = Pag!Empty /\ new.other = cart[f]
      /\ new.pc = "half"
  BY DEF Pag!NoReq
<1>4. new \in CartRequest
  <2>1. Pag!Empty \in CartLines /\ 0 \in Pag!Int32
    BY EmptyFits, WrapFits
  <2> QED
    BY <1>2, <2>1 DEF CartRequest, Pag!NoReq
<1> HIDE DEF new
<1>5. RequestFormed(new)
  BY <1>3 DEF RequestFormed
<1>6. /\ cartReq' \in [CartRequests -> CartRequest] /\ cartReq'[r] = new
      /\ \A s \in CartRequests \ {r} : cartReq'[s] = cartReq[s]
      /\ \A s \in CartRequests : RequestFormed(cartReq'[s])
  BY <1>1, <1>2, <1>4, <1>5, RequestPut
<1>7. CartTypeInv'
  <2>1. cartOps \in 0..MaxCartOps /\ MaxCartOps \in Nat
    BY <1>2, StorefrontCarts DEF CartTypeInv
  <2>2. cartOps' \in 0..MaxCartOps
    BY <1>1, <2>1
  <2> QED
    BY <1>1, <1>2, <1>6, <2>2 DEF CartTypeInv
<1>8. LegalInv'
  <2>1. Legal(Pag!Empty)
    BY EmptyFits
  <2> QED
    BY <1>1, <1>2, <1>3, <1>6, <2>1 DEF LegalInv
<1>9. UnitsInv'
  <2> SUFFICES ASSUME NEW d \in Carts, d \notin disturbed'
               PROVE  Alone(d)' /\ Counted(d)' /\ \A s \in CartRequests : In(s, d)' => Held(s, d)'
    BY DEF UnitsInv
  <2>1. (d \notin disturbed /\ f # t) \/ d \notin {f, t}
    BY <1>1
  <2>2. d \notin disturbed /\ (d \in {f, t} => f # t /\ \A s \in CartRequests : ~In(s, d))
    BY <1>1, <2>1, SomebodyIn
  <2>3. Alone(d) /\ Counted(d) /\ \A s \in CartRequests : In(s, d) => Held(s, d)
    BY <1>2, <2>2 DEF UnitsInv
  <2>4. \A s \in CartRequests \ {r} : (In(s, d)' <=> In(s, d)) /\ (Held(s, d)' <=> Held(s, d))
    BY <1>1, <1>6 DEF In, Held
  <2>5. ~In(r, d) /\ (In(r, d)' <=> d \in {f, t})
    BY <1>1, <1>3, <1>6 DEF In
  <2>6. Alone(d)'
    BY <2>2, <2>3, <2>4, <2>5 DEF Alone
  <2>7. Counted(d)'
    BY <1>1, <2>2, <2>3, <2>4, <2>5 DEF Counted
  <2>8. d \in {f, t} => Held(r, d)'
    <3> SUFFICES ASSUME d \in {f, t} PROVE Held(r, d)'
      OBVIOUS
    <3>1. cart[d] = serial[d]
      BY <2>2, <2>3 DEF Counted
    <3> QED
      BY <1>1, <1>3, <1>6, <2>2, <3>1 DEF Held
  <2> QED
    BY <2>3, <2>4, <2>5, <2>6, <2>7, <2>8
<1> QED
  BY <1>7, <1>8, <1>9 DEF CartInv

(* Loading the cart it merges into.                                        *)
LEMMA LoadToStep ==
    ASSUME CartInv, NEW r \in CartRequests, Pag!LoadTo(r)
    PROVE  CartInv'
<1> DEFINE req == cartReq[r]
           new == [req EXCEPT !.blob = cart[req.cart], !.pc = "loaded"]
<1>1. CartTypeInv /\ LegalInv /\ UnitsInv /\ req \in CartRequest /\ RequestFormed(req)
  BY DEF CartInv, CartTypeInv
<1>2. /\ req.pc = "half" /\ cartReq' = [cartReq EXCEPT ![r] = new]
      /\ UNCHANGED <<cart, cartOps, serial, disturbed, wrapped>>
  BY <1>1 DEF Pag!LoadTo, CartTypeInv
<1>3. req.op = "merge" /\ req.cart \in Carts /\ req.from \in Carts
  BY <1>1, <1>2 DEF RequestFormed
<1>4. cart[req.cart] \in CartLines
  BY <1>1, <1>3 DEF CartTypeInv
<1>5. /\ new.op = "merge" /\ new.cart = req.cart /\ new.from = req.from /\ new.blob = cart[req.cart]
      /\ new.other = req.other /\ new.pc = "loaded" /\ new \in CartRequest
  BY <1>1, <1>3, <1>4 DEF CartRequest
<1> HIDE DEF new
<1>6. RequestFormed(new)
  BY <1>3, <1>5 DEF RequestFormed
<1>7. /\ cartReq' \in [CartRequests -> CartRequest] /\ cartReq'[r] = new
      /\ \A s \in CartRequests \ {r} : cartReq'[s] = cartReq[s]
      /\ \A s \in CartRequests : RequestFormed(cartReq'[s])
  BY <1>1, <1>2, <1>5, <1>6, RequestPut
<1>8. CartTypeInv'
  BY <1>1, <1>2, <1>7 DEF CartTypeInv
<1>9. LegalInv'
  BY <1>1, <1>2, <1>3, <1>5, <1>7 DEF LegalInv
<1>10. UnitsInv'
  <2> SUFFICES ASSUME NEW d \in Carts, d \notin disturbed'
               PROVE  Alone(d)' /\ Counted(d)' /\ \A s \in CartRequests : In(s, d)' => Held(s, d)'
    BY DEF UnitsInv
  <2>1. Alone(d) /\ Counted(d) /\ \A s \in CartRequests : In(s, d) => Held(s, d)
    BY <1>1, <1>2 DEF UnitsInv
  <2>2. \A s \in CartRequests : In(s, d)' <=> In(s, d)
    BY <1>2, <1>5, <1>7 DEF In
  <2>3. \A s \in CartRequests \ {r} : Held(s, d)' <=> Held(s, d)
    BY <1>2, <1>7 DEF Held
  <2>4. Held(r, d) => Held(r, d)'
    BY <1>2, <1>5, <1>7 DEF Held
  <2> QED
    BY <1>2, <2>1, <2>2, <2>3, <2>4 DEF Alone, Counted
<1> QED
  BY <1>8, <1>9, <1>10 DEF CartInv

(* Saving the merged cart.                                                 *)
LEMMA SaveMergedStep ==
    ASSUME CartInv, NEW r \in CartRequests, Pag!SaveMerged(r)
    PROVE  CartInv'
<1> DEFINE req == cartReq[r]
           f == req.from
           t == req.cart
           new == [req EXCEPT !.pc = "saved"]
           merged == Pag!MergeFrom(req.blob, req.other)
           after == Pag!MergeFrom(serial[t], serial[f])
           over == \E p \in DOMAIN req.blob \cap DOMAIN req.other : req.blob[p] + req.other[p] \notin Pag!Int32
<1>1. CartTypeInv /\ LegalInv /\ UnitsInv /\ req \in CartRequest /\ RequestFormed(req)
  BY DEF CartInv, CartTypeInv
<1>2. /\ req.pc = "loaded" /\ req.op = "merge" /\ cartReq' = [cartReq EXCEPT ![r] = new]
      /\ cart' = [cart EXCEPT ![t] = merged] /\ serial' = [serial EXCEPT ![t] = after, ![f] = Pag!Empty]
      /\ wrapped' = (wrapped \/ over)
      /\ disturbed' = disturbed \cup (IF f \in disturbed THEN {t} ELSE {}) /\ cartOps' = cartOps
  BY <1>1 DEF Pag!SaveMerged, CartTypeInv
<1>3. f \in Carts /\ t \in Carts
  BY <1>1, <1>2 DEF RequestFormed
<1>4. /\ new.op = "merge" /\ new.cart = t /\ new.from = f /\ new.blob = req.blob
      /\ new.other = req.other /\ new.pc = "saved" /\ new \in CartRequest
  BY <1>1, <1>2 DEF CartRequest
<1> HIDE DEF new
<1>5. RequestFormed(new)
  BY <1>3, <1>4 DEF RequestFormed
<1>6. /\ cartReq' \in [CartRequests -> CartRequest] /\ cartReq'[r] = new
      /\ \A s \in CartRequests \ {r} : cartReq'[s] = cartReq[s]
      /\ \A s \in CartRequests : RequestFormed(cartReq'[s])
  BY <1>1, <1>2, <1>4, <1>5, RequestPut
<1>7. /\ cart \in [Carts -> CartLines] /\ serial \in [Carts -> CartLines] /\ wrapped \in BOOLEAN
      /\ serial[t] \in CartLines /\ serial[f] \in CartLines /\ req.blob \in CartLines /\ req.other \in CartLines
  BY <1>1, <1>3 DEF CartTypeInv, CartRequest
<1>8. merged \in CartLines /\ (Legal(req.blob) /\ Legal(req.other) /\ ~over => Legal(merged))
  BY <1>7, MergeFits
<1>9. after \in CartLines /\ Pag!Empty \in CartLines
  BY <1>7, MergeFits, EmptyFits
<1>10. serial[t] = req.blob /\ serial[f] = req.other => after = merged
  OBVIOUS
<1>11. over \in BOOLEAN
  OBVIOUS
<1> HIDE DEF merged, after, over
<1>12. /\ cart' \in [Carts -> CartLines] /\ serial' \in [Carts -> CartLines] /\ cart'[t] = merged
       /\ serial'[f] = Pag!Empty /\ (f # t => serial'[t] = after)
       /\ \A d \in Carts \ {t} : cart'[d] = cart[d]
       /\ \A d \in Carts \ {t, f} : serial'[d] = serial[d]
  BY <1>2, <1>3, <1>7, <1>8, <1>9
<1>13. wrapped' \in BOOLEAN /\ (wrapped => wrapped') /\ (over => wrapped')
  BY <1>2, <1>7, <1>11, Zenon
<1>14. CartTypeInv'
  <2>1. disturbed' \subseteq Carts
    BY <1>1, <1>2, <1>3 DEF CartTypeInv
  <2> QED
    BY <1>1, <1>2, <1>6, <1>12, <1>13, <2>1 DEF CartTypeInv
<1>15. LegalInv'
  <2> SUFFICES ASSUME ~wrapped' PROVE (\A d \in Carts : Legal(cart'[d]))
                  /\ \A s \in CartRequests : Legal(cartReq'[s].blob) /\ Legal(cartReq'[s].other)
    BY DEF LegalInv
  <2>1. /\ \A d \in Carts : Legal(cart[d])
        /\ \A s \in CartRequests : Legal(cartReq[s].blob) /\ Legal(cartReq[s].other)
    BY <1>1, <1>13 DEF LegalInv
  <2>2. Legal(merged)
    BY <1>8, <1>13, <2>1
  <2>3. \A d \in Carts : Legal(cart'[d])
    BY <1>12, <2>1, <2>2
  <2>4. \A s \in CartRequests : Legal(cartReq'[s].blob) /\ Legal(cartReq'[s].other)
    BY <1>4, <1>6, <2>1
  <2> QED
    BY <2>3, <2>4
<1>16. UnitsInv'
  <2> SUFFICES ASSUME NEW d \in Carts, d \notin disturbed'
               PROVE  Alone(d)' /\ Counted(d)' /\ \A s \in CartRequests : In(s, d)' => Held(s, d)'
    BY DEF UnitsInv
  <2>1. d \notin disturbed /\ (d = t => f \notin disturbed)
    BY <1>2
  <2>2. Alone(d) /\ Counted(d) /\ \A s \in CartRequests : In(s, d) => Held(s, d)
    BY <1>1, <2>1 DEF UnitsInv
  <2>3. \A s \in CartRequests : In(s, d)' <=> In(s, d)
    BY <1>2, <1>4, <1>6 DEF In
  <2>4. In(r, d) <=> d \in {f, t}
    BY <1>2 DEF In
  <2>5. Alone(d)'
    BY <2>2, <2>3 DEF Alone
  <2>6. CASE d \notin {f, t}
    <3>1. cart'[d] = cart[d] /\ serial'[d] = serial[d]
      BY <1>12, <2>6
    <3>2. \A s \in CartRequests \ {r} : Held(s, d)' <=> Held(s, d)
      BY <1>6, <3>1 DEF Held
    <3> QED
      BY <2>2, <2>3, <2>4, <2>5, <2>6, <3>1, <3>2 DEF Counted
  <2>7. CASE d \in {f, t}
    <3>1. Held(r, d) /\ f # t /\ \A s \in CartRequests \ {r} : ~In(s, d)
      BY <2>2, <2>4, <2>7 DEF Held, Alone
    <3>2. Held(r, d)'
      <4>1. CASE d = f
        BY <1>4, <1>6, <1>12, <3>1, <4>1 DEF Held
      <4>2. CASE d = t
        <5>1. \A s \in CartRequests : In(s, f) => Held(s, f)
          BY <1>1, <1>3, <2>1, <4>2 DEF UnitsInv
        <5>2. In(r, f)
          BY <1>2 DEF In
        <5>3. req.other = serial[f] /\ req.blob = serial[t]
          BY <1>2, <3>1, <4>2, <5>1, <5>2 DEF Held
        <5>4. cart'[t] = serial'[t]
          BY <1>10, <1>12, <3>1, <5>3
        <5> QED
          BY <1>4, <1>6, <3>1, <4>2, <5>4 DEF Held
      <4> QED
        BY <2>7, <4>1, <4>2
    <3>3. Counted(d)'
      BY <2>3, <2>4, <2>7 DEF Counted
    <3> QED
      BY <2>3, <2>5, <3>1, <3>2, <3>3
  <2> QED
    BY <2>6, <2>7
<1> QED
  BY <1>14, <1>15, <1>16 DEF CartInv

(* Deleting the cart a merge took from, or failing to.                     *)
LEMMA DeleteFromStep ==
    ASSUME CartInv, NEW r \in CartRequests, Pag!DeleteFrom(r)
    PROVE  CartInv'
<1> DEFINE req == cartReq[r]
           f == req.from
           t == req.cart
<1>1. /\ req.pc = "saved" /\ cartReq' = [cartReq EXCEPT ![r] = Pag!NoReq] /\ UNCHANGED <<cartOps, serial, wrapped>>
      /\ \/ cart' = [cart EXCEPT ![f] = Pag!Empty] /\ UNCHANGED disturbed
         \/ UNCHANGED cart /\ disturbed' = disturbed \cup {f}
  BY DEF Pag!DeleteFrom
<1>2. CartTypeInv /\ LegalInv /\ UnitsInv /\ req \in CartRequest /\ RequestFormed(req)
  BY DEF CartInv, CartTypeInv
<1>3. f \in Carts /\ t \in Carts
  BY <1>1, <1>2 DEF RequestFormed
<1>4. /\ cartReq' \in [CartRequests -> CartRequest] /\ cartReq'[r] = Pag!NoReq
      /\ \A s \in CartRequests \ {r} : cartReq'[s] = cartReq[s]
      /\ \A s \in CartRequests : RequestFormed(cartReq'[s])
  BY <1>1, <1>2, NewRequests, RequestPut
<1>5. /\ cart' \in [Carts -> CartLines] /\ disturbed' \subseteq Carts /\ disturbed \subseteq disturbed'
      /\ \A d \in Carts \ {f} : cart'[d] = cart[d]
      /\ (cart'[f] = cart[f] /\ f \in disturbed') \/ cart'[f] = Pag!Empty
  BY <1>1, <1>2, <1>3, EmptyFits DEF CartTypeInv
<1>6. CartTypeInv'
  BY <1>1, <1>2, <1>4, <1>5 DEF CartTypeInv
<1>7. LegalInv'
  BY <1>1, <1>2, <1>4, <1>5, NewRequests, EmptyFits DEF LegalInv
<1>8. UnitsInv'
  <2> SUFFICES ASSUME NEW d \in Carts, d \notin disturbed'
               PROVE  Alone(d)' /\ Counted(d)' /\ \A s \in CartRequests : In(s, d)' => Held(s, d)'
    BY DEF UnitsInv
  <2>1. Alone(d) /\ Counted(d) /\ \A s \in CartRequests : In(s, d) => Held(s, d)
    BY <1>2, <1>5 DEF UnitsInv
  <2>2. ~In(r, d)' /\ (In(r, d) <=> d \in {f, t})
    BY <1>1, <1>4, NewRequests DEF In
  <2>3. \A s \in CartRequests \ {r} : In(s, d)' <=> In(s, d)
    BY <1>4 DEF In
  <2>4. CASE d \in {f, t}
    <3>1. Held(r, d) /\ \A s \in CartRequests \ {r} : ~In(s, d)
      BY <2>1, <2>2, <2>4 DEF Alone
    <3>2. \A s \in CartRequests : ~In(s, d)'
      BY <2>2, <2>3, <3>1
    <3>3. cart'[d] = serial'[d]
      <4>1. CASE d = f
        <5>1. serial[f] = Pag!Empty
          BY <1>1, <3>1, <4>1 DEF Held
        <5> QED
          BY <1>1, <1>5, <4>1, <5>1
      <4>2. CASE d # f
        <5>1. cart[d] = serial[d]
          BY <2>4, <3>1, <4>2 DEF Held
        <5> QED
          BY <1>1, <1>5, <4>2, <5>1
      <4> QED
        BY <4>1, <4>2
    <3> QED
      BY <3>2, <3>3 DEF Alone, Counted
  <2>5. CASE d \notin {f, t}
    <3>1. cart'[d] = cart[d] /\ serial'[d] = serial[d]
      BY <1>1, <1>5, <2>5
    <3>2. \A s \in CartRequests : In(s, d)' <=> In(s, d)
      BY <2>2, <2>3, <2>5
    <3>3. \A s \in CartRequests \ {r} : Held(s, d)' <=> Held(s, d)
      BY <1>4, <3>1 DEF Held
    <3>4. Alone(d)' /\ Counted(d)'
      BY <2>1, <3>1, <3>2 DEF Alone, Counted
    <3> QED
      BY <2>1, <2>2, <3>2, <3>3, <3>4
  <2> QED
    BY <2>4, <2>5
<1> QED
  BY <1>6, <1>7, <1>8 DEF CartInv

(* A cart nobody touched is gone, and counts as disturbed.                 *)
LEMMA ExpireCartStep ==
    ASSUME CartInv, NEW c \in Carts, Pag!ExpireCart(c)
    PROVE  CartInv'
<1>1. /\ cart' = [cart EXCEPT ![c] = Pag!Empty] /\ disturbed' = disturbed \cup {c}
      /\ UNCHANGED <<cartReq, cartOps, serial, wrapped>>
  BY DEF Pag!ExpireCart
<1>2. CartTypeInv /\ LegalInv /\ UnitsInv
  BY DEF CartInv
<1>3. cart' \in [Carts -> CartLines] /\ cart'[c] = Pag!Empty /\ \A d \in Carts \ {c} : cart'[d] = cart[d]
  BY <1>1, <1>2, EmptyFits DEF CartTypeInv
<1>4. CartTypeInv'
  BY <1>1, <1>2, <1>3 DEF CartTypeInv
<1>5. LegalInv'
  BY <1>1, <1>2, <1>3, EmptyFits DEF LegalInv
<1>6. UnitsInv'
  <2> SUFFICES ASSUME NEW d \in Carts, d \notin disturbed'
               PROVE  Alone(d)' /\ Counted(d)' /\ \A s \in CartRequests : In(s, d)' => Held(s, d)'
    BY DEF UnitsInv
  <2>1. Alone(d) /\ Counted(d) /\ \A s \in CartRequests : In(s, d) => Held(s, d)
    BY <1>1, <1>2 DEF UnitsInv
  <2>2. cart'[d] = cart[d]
    BY <1>1, <1>3
  <2> QED
    BY <1>1, <2>1, <2>2 DEF Alone, Counted, In, Held
<1> QED
  BY <1>4, <1>5, <1>6 DEF CartInv

(* The invariant of carts.                                                 *)
LEMMA CartInvariant == Spec => []CartInv
<1>1. CartInv /\ [Next]_vars => CartInv'
  <2> SUFFICES ASSUME CartInv, [Next]_vars PROVE CartInv'
    OBVIOUS
  <2>1. ASSUME NEW r \in CartRequests, NEW op \in {"add", "set", "remove", "clear"}, NEW c \in Carts,
               NEW p \in CartProducts \cup {""}, NEW q \in Pag!Int32, CartLoads(r, op, c, p, q)
        PROVE  CartInv'
    BY <2>1, LoadCartStep
  <2>2. ASSUME NEW r \in CartRequests, NEW f \in Carts, NEW t \in Carts, Pag!LoadFrom(r, f, t) PROVE CartInv'
    BY <2>2, LoadFromStep
  <2>3. ASSUME NEW r \in CartRequests, Pag!SaveCart(r) \/ Pag!LoadTo(r) \/ Pag!SaveMerged(r) \/ Pag!DeleteFrom(r)
        PROVE  CartInv'
    BY <2>3, SaveCartStep, LoadToStep, SaveMergedStep, DeleteFromStep
  <2>4. ASSUME NEW c \in Carts, Pag!ExpireCart(c) PROVE CartInv'
    BY <2>4, ExpireCartStep
  <2>5. CASE UNCHANGED cartVars
    BY <2>5 DEF cartVars, CartInv, CartTypeInv, LegalInv, UnitsInv, Alone, Counted, Held, In
  <2> QED
    BY <2>1, <2>2, <2>3, <2>4, <2>5, CartActs DEF CartAct
<1> QED
  BY <1>1, CartStart, PTL DEF Spec

-----------------------------------------------------------------------------
(* The total of a quote's lines is the sum over them.                      *)
LEMMA TotalIs == ASSUME NEW g PROVE Pag!Total(g) = SumFunctionOnSet(g, DOMAIN g)
<1>1. Pag!Total(g) = (CHOOSE h : SumsOver(g, DOMAIN g, h))[DOMAIN g]
  BY DEF Pag!Total, Pag!MapThenSumSet, Pag!MapThenFoldSet, SumsOver, Taken
<1> QED
  BY <1>1, SumIs

(* Amounts come out of units and nanos as they went in (UnitsNanos,        *)
(* FromUnitsNanos).                                                        *)
LEMMA CentsRoundTrip ==
    ASSUME NEW n \in Nat
    PROVE  LET m == Pag!UnitsNanos(n) IN Pag!FromUnitsNanos(m[1], m[2]) = n
<1>1. (n \div 100) * 100 + ((n % 100) * 10000000) \div 10000000 = n
  OBVIOUS
<1> QED
  BY <1>1 DEF Pag!UnitsNanos, Pag!FromUnitsNanos, Pag!CentNanos

(* A share of an amount is at most the amount, and right to half a cent    *)
(* (PercentOff).                                                           *)
LEMMA PercentFits ==
    ASSUME NEW n \in Nat, NEW k \in 0..100
    PROVE  /\ Pag!PercentOff(n, k) \in Nat /\ Pag!PercentOff(n, k) <= n
           /\ Pag!PercentOff(n, k) * 100 - n * k <= 50 /\ n * k - Pag!PercentOff(n, k) * 100 <= 50
<1>1. CASE k = 0
  <2>1. Pag!PercentOff(n, k) = 0 /\ n * k = 0
    BY <1>1 DEF Pag!PercentOff
  <2> QED
    BY <2>1
<1>2. CASE k > 0
  <2>1. Pag!PercentOff(n, k) = (n * k + 50) \div 100
    BY <1>2 DEF Pag!PercentOff
  <2>2. n * k \in Nat /\ n * k <= n * 100
    OBVIOUS
  <2>3. ASSUME NEW m \in Nat, m <= n * 100
        PROVE  /\ (m + 50) \div 100 \in Nat /\ (m + 50) \div 100 <= n
               /\ ((m + 50) \div 100) * 100 - m <= 50 /\ m - ((m + 50) \div 100) * 100 <= 50
    BY <2>3
  <2> QED
    BY <2>1, <2>2, <2>3
<1> QED
  BY <1>1, <1>2

(* Tax is right to half a cent (TaxBps).                                   *)
LEMMA TaxFits ==
    ASSUME NEW n \in Nat, NEW bps \in Nat
    PROVE  /\ Pag!TaxBps(n, bps) \in Nat
           /\ Pag!TaxBps(n, bps) * 10000 - n * bps <= 5000 /\ n * bps - Pag!TaxBps(n, bps) * 10000 <= 5000
<1>1. CASE bps = 0
  <2>1. Pag!TaxBps(n, bps) = 0 /\ n * bps = 0
    BY <1>1 DEF Pag!TaxBps
  <2> QED
    BY <2>1
<1>2. CASE bps > 0
  <2>1. Pag!TaxBps(n, bps) = (n * bps + 5000) \div 10000
    BY <1>2 DEF Pag!TaxBps
  <2>2. n * bps \in Nat
    OBVIOUS
  <2>3. ASSUME NEW m \in Nat
        PROVE  /\ (m + 5000) \div 10000 \in Nat
               /\ ((m + 5000) \div 10000) * 10000 - m <= 5000 /\ m - ((m + 5000) \div 10000) * 10000 <= 5000
    OBVIOUS
  <2> QED
    BY <2>1, <2>2, <2>3
<1> QED
  BY <1>1, <1>2

(* What a price list and a coupons table look like.                        *)
PricesFit(prices) == \A p \in DOMAIN prices : prices[p].units \in Nat /\ prices[p].nanos \in Nat
RowsFit(set) == set \subseteq Coupons /\ \A c, d \in set : c.code = d.code => c = d

(* A quote of lines under a code: it adds up, every line is priced, and    *)
(* the coupon is that of the code.                                         *)
QuoteFits(q, lines, set, code) ==
    /\ q.ok => /\ Pag!AddsUp(q, lines, set, Pag!TaxFor("")) /\ DOMAIN q.lines = DOMAIN lines
               /\ q.coupon = IF code = "" THEN {} ELSE {code}
    /\ ~q.ok => q.reason # ""

(* A coupon of the table.                                                  *)
LEMMA CouponIs ==
    ASSUME NEW c \in Coupons
    PROVE  /\ c.code # "" /\ c.kind \in {"PERCENT", "AMOUNT"} /\ c.off \in Nat
           /\ (c.kind = "PERCENT" => c.off \in 0..100)
<1>1. c \in [code : STRING \ {""}, kind : {"PERCENT", "AMOUNT"}, off : Nat, expired : BOOLEAN,
             maxUses : Nat, usedCount : Nat]
  BY StorefrontPrices
<1>2. c.kind = "PERCENT" => c.off <= 100
  BY StorefrontPrices
<1>3. c.code # "" /\ c.kind \in {"PERCENT", "AMOUNT"} /\ c.off \in Nat
  BY <1>1
<1>4. c.kind = "PERCENT" => c.off \in 0..100
  <2>1. \A n \in Nat : n <= 100 => n \in 0..100
    OBVIOUS
  <2> QED
    BY <1>2, <1>3, <2>1, Zenon
<1> QED
  BY <1>3, <1>4

(* The discount of a coupon is at most the subtotal, and the one the       *)
(* coupon says (Price).                                                    *)
Discount(coupon, n) ==
    CASE coupon = {} -> 0
      [] \E c \in coupon : c.kind = "PERCENT" -> Pag!PercentOff(n, (CHOOSE c \in coupon : TRUE).off)
      [] OTHER -> Pag!MinOf((CHOOSE c \in coupon : TRUE).off, n)

(* Never below zero, and never above the subtotal.                         *)
LEMMA DiscountFits ==
    ASSUME NEW n \in Nat, NEW coupon
    PROVE  /\ coupon = {} => Discount(coupon, n) = 0
           /\ \A c \in Coupons : coupon = {c} =>
                /\ Discount(coupon, n) \in Nat /\ Discount(coupon, n) <= n
                /\ IF c.kind = "PERCENT" THEN /\ Discount(coupon, n) * 100 - n * c.off <= 50
                                              /\ n * c.off - Discount(coupon, n) * 100 <= 50
                   ELSE Discount(coupon, n) \in {c.off, n}
<1>1. coupon = {} => Discount(coupon, n) = 0
  BY DEF Discount
<1>2. ASSUME NEW c \in Coupons, coupon = {c}
      PROVE  /\ Discount(coupon, n) \in Nat /\ Discount(coupon, n) <= n
             /\ IF c.kind = "PERCENT" THEN /\ Discount(coupon, n) * 100 - n * c.off <= 50
                                           /\ n * c.off - Discount(coupon, n) * 100 <= 50
                ELSE Discount(coupon, n) \in {c.off, n}
  <2>1. coupon # {} /\ (CHOOSE x \in coupon : TRUE) = c /\ ((\E x \in coupon : x.kind = "PERCENT") <=> c.kind = "PERCENT")
    BY <1>2
  <2>2. CASE c.kind = "PERCENT"
    <3>1. Discount(coupon, n) = Pag!PercentOff(n, c.off)
      BY <2>1, <2>2 DEF Discount
    <3>2. c.off \in 0..100
      BY <2>2, CouponIs
    <3> QED
      BY <2>2, <3>1, <3>2, PercentFits
  <2>3. CASE c.kind # "PERCENT"
    <3>1. Discount(coupon, n) = Pag!MinOf(c.off, n)
      BY <2>1, <2>3 DEF Discount
    <3>2. c.off \in Nat
      BY CouponIs
    <3> QED
      BY <2>3, <3>1, <3>2 DEF Pag!MinOf
  <2> QED
    BY <2>2, <2>3
<1> QED
  BY <1>1, <1>2

(* A quote of lines with their prices, for a coupon of the table or none   *)
(* (Price).                                                                *)
QuoteOf(q, lines, coupon, bps) ==
    /\ q.ok = TRUE /\ DOMAIN q.lines = DOMAIN lines
    /\ \A p \in DOMAIN lines : /\ q.lines[p].price = lines[p].price
                               /\ q.lines[p].total = lines[p].price * lines[p].quantity
    /\ q.subtotal = Pag!Total([p \in DOMAIN q.lines |-> q.lines[p].total])
    /\ q.subtotal \in Nat /\ q.discount = Discount(coupon, q.subtotal)
    /\ q.tax = Pag!TaxBps(Pag!Sub(q.subtotal, q.discount), bps)
    /\ q.total = Pag!Sub(q.subtotal, q.discount) + q.tax
    /\ q.coupon = {c.code : c \in coupon}

(* Which is what Price returns for it.                                     *)
LEMMA PriceFits ==
    ASSUME NEW lines, IsFiniteSet(DOMAIN lines), \A p \in DOMAIN lines : lines[p].price \in Nat /\ lines[p].quantity \in Nat,
           NEW bps \in Nat, NEW coupon, coupon = {} \/ \E c \in Coupons : coupon = {c},
           NEW q, q = Pag!Price(lines, coupon, bps)
    PROVE  q = Pag!Failed("EMPTY_QUOTE") \/ q = Pag!Failed("COUPON_INVALID") \/ QuoteOf(q, lines, coupon, bps)
<1> DEFINE lineTotal == [p \in DOMAIN lines |-> lines[p].price * lines[p].quantity]
           n == Pag!Total(lineTotal)
           d == Discount(coupon, n)
           tax == Pag!TaxBps(Pag!Sub(n, d), bps)
           priced == [p \in DOMAIN lines |-> [price |-> lines[p].price, total |-> lineTotal[p]]]
           codes == {c.code : c \in coupon}
<1>1. \/ q = Pag!Failed("EMPTY_QUOTE") \/ q = Pag!Failed("COUPON_INVALID")
      \/ q = [ok |-> TRUE, lines |-> priced, subtotal |-> n, discount |-> d, tax |-> tax,
              total |-> Pag!Sub(n, d) + tax, coupon |-> codes]
  BY DEF Pag!Price, Discount
<1>2. n \in Nat
  <2>1. DOMAIN lineTotal = DOMAIN lines /\ \A p \in DOMAIN lineTotal : lineTotal[p] \in Nat
    OBVIOUS
  <2> HIDE DEF lineTotal
  <2>2. n = SumFunctionOnSet(lineTotal, DOMAIN lineTotal)
    BY TotalIs
  <2> QED
    BY <2>1, <2>2, SumType
<1>3. /\ DOMAIN priced = DOMAIN lines
      /\ \A p \in DOMAIN lines : priced[p].price = lines[p].price /\ priced[p].total = lineTotal[p]
  OBVIOUS
<1>4. [p \in DOMAIN priced |-> priced[p].total] = lineTotal
  OBVIOUS
<1>5. \A p \in DOMAIN lines : lineTotal[p] = lines[p].price * lines[p].quantity
  OBVIOUS
<1> HIDE DEF n, d, tax, priced, lineTotal, codes
<1>6. CASE q = [ok |-> TRUE, lines |-> priced, subtotal |-> n, discount |-> d, tax |-> tax,
                total |-> Pag!Sub(n, d) + tax, coupon |-> codes]
  <2>1. /\ q.ok = TRUE /\ q.lines = priced /\ q.subtotal = n /\ q.discount = d /\ q.tax = tax
        /\ q.total = Pag!Sub(n, d) + tax /\ q.coupon = codes
    BY <1>6
  <2>2. n = Pag!Total(lineTotal) /\ d = Discount(coupon, n) /\ tax = Pag!TaxBps(Pag!Sub(n, d), bps)
    BY DEF n, d, tax
  <2>3. q.subtotal = Pag!Total([p \in DOMAIN q.lines |-> q.lines[p].total])
    BY <1>4, <2>1, <2>2, Zenon
  <2>4. /\ q.discount = Discount(coupon, q.subtotal) /\ q.tax = Pag!TaxBps(Pag!Sub(q.subtotal, q.discount), bps)
        /\ q.total = Pag!Sub(q.subtotal, q.discount) + q.tax
    BY <2>1, <2>2
  <2>5. q.coupon = {c.code : c \in coupon}
    BY <2>1 DEF codes
  <2>6. DOMAIN q.lines = DOMAIN lines
        /\ \A p \in DOMAIN lines : /\ q.lines[p].price = lines[p].price
                                   /\ q.lines[p].total = lines[p].price * lines[p].quantity
    BY <1>3, <1>5, <2>1
  <2> QED
    BY <1>2, <2>1, <2>3, <2>4, <2>5, <2>6 DEF QuoteOf
<1> QED
  BY <1>1, <1>6

(* The coupon that a code resolves to (resolveCoupon).                     *)
LEMMA ResolvesTo ==
    ASSUME NEW set, RowsFit(set), NEW code
    PROVE  /\ Pag!ResolveCoupon("", set) = {}
           /\ \/ Pag!ResolveCoupon(code, set) = {}
              \/ code # "" /\ \E c \in Coupons : Pag!ResolveCoupon(code, set) = {c} /\ c.code = code
<1>1. \A c \in set : c.code # "" /\ c \in Coupons
  BY CouponIs DEF RowsFit
<1>2. \A c, e \in set : c.code = e.code => c = e
  BY DEF RowsFit
<1>3. Pag!ResolveCoupon("", set) = {}
  BY <1>1 DEF Pag!ResolveCoupon
<1>4. ASSUME NEW c \in set, c.code = code PROVE Pag!ResolveCoupon(code, set) = {c}
  BY <1>2, <1>4 DEF Pag!ResolveCoupon
<1>5. Pag!ResolveCoupon(code, set) = {} \/ \E c \in set : c.code = code
  BY DEF Pag!ResolveCoupon
<1> QED
  BY <1>1, <1>3, <1>4, <1>5

(* A quote that is given fits (QuotePrice).                                *)
LEMMA QuotePriceFits ==
    ASSUME NEW lines \in CartLines, NEW prices, PricesFit(prices), NEW set, RowsFit(set), NEW code
    PROVE  QuoteFits(Pag!QuotePrice(lines, prices, code, set, ""), lines, set, code)
<1> DEFINE q == Pag!QuotePrice(lines, prices, code, set, "")
           coupon == Pag!ResolveCoupon(code, set)
           priced == Pag!PriceLines(lines, prices)
           bps == Pag!TaxFor("")
<1>1. \/ \E reason \in {"NO_ITEMS", "BAD_QUANTITY", "PRODUCT_UNPRICEABLE", "CURRENCY_MISMATCH", "COUPON_UNKNOWN"} :
           q = Pag!Failed(reason)
      \/ /\ Pag!QuantitiesLegal(lines) /\ DOMAIN lines \subseteq DOMAIN prices /\ (code # "" => coupon # {})
         /\ q = Pag!Price(priced, coupon, bps)
  <2>1. CASE DOMAIN lines = {} \/ ~Pag!QuantitiesLegal(lines)
    BY <2>1 DEF Pag!QuotePrice
  <2>2. CASE DOMAIN lines # {} /\ Pag!QuantitiesLegal(lines) /\ Pag!Priceable(lines, prices) # ""
    <3>1. q = Pag!Failed(Pag!Priceable(lines, prices))
      BY <2>2 DEF Pag!QuotePrice
    <3>2. Pag!Priceable(lines, prices) \in {"PRODUCT_UNPRICEABLE", "CURRENCY_MISMATCH"}
      BY <2>2 DEF Pag!Priceable
    <3> QED
      BY <3>1, <3>2
  <2>3. CASE DOMAIN lines # {} /\ Pag!QuantitiesLegal(lines) /\ Pag!Priceable(lines, prices) = ""
    <3>1. DOMAIN lines \subseteq DOMAIN prices
      BY <2>3 DEF Pag!Priceable
    <3>2. q = IF code # "" /\ coupon = {} THEN Pag!Failed("COUPON_UNKNOWN") ELSE Pag!Price(priced, coupon, bps)
      BY <2>3 DEF Pag!QuotePrice
    <3> QED
      BY <2>3, <3>1, <3>2
  <2> QED
    BY <2>1, <2>2, <2>3
<1>2. ASSUME NEW reason, reason # "", q = Pag!Failed(reason) PROVE QuoteFits(q, lines, set, code)
  <2> HIDE DEF q
  <2>1. q.ok = FALSE /\ q.reason = reason
    BY <1>2 DEF Pag!Failed
  <2> QED
    BY <1>2, <2>1 DEF QuoteFits
<1>3. ASSUME Pag!QuantitiesLegal(lines), DOMAIN lines \subseteq DOMAIN prices, code # "" => coupon # {},
             q = Pag!Price(priced, coupon, bps)
      PROVE  QuoteFits(q, lines, set, code)
  <2>1. DOMAIN lines \subseteq CartProducts /\ \A p \in DOMAIN lines : lines[p] \in Pag!Int32
    BY LinesAre
  <2>2. IsFiniteSet(DOMAIN lines)
    BY <2>1, StorefrontCarts, FS_Subset
  <2>3. DOMAIN priced = DOMAIN lines
        /\ \A p \in DOMAIN lines : priced[p].price = Pag!FromUnitsNanos(prices[p].units, prices[p].nanos)
                                   /\ priced[p].quantity = lines[p]
    BY DEF Pag!PriceLines
  <2>4. \A p \in DOMAIN lines : priced[p].price \in Nat /\ priced[p].quantity \in Nat
    <3> SUFFICES ASSUME NEW p \in DOMAIN lines PROVE priced[p].price \in Nat /\ priced[p].quantity \in Nat
      OBVIOUS
    <3>1. prices[p].units \in Nat /\ prices[p].nanos \in Nat
      BY <1>3 DEF PricesFit
    <3>2. \A u, m \in Nat : u * 100 + m \div 10000000 \in Nat
      OBVIOUS
    <3>3. Pag!FromUnitsNanos(prices[p].units, prices[p].nanos) \in Nat
      BY <3>1, <3>2 DEF Pag!FromUnitsNanos, Pag!CentNanos
    <3>4. lines[p] \in Int /\ lines[p] > 0
      <4>1. \A m \in Pag!Int32 : m \in Int
        BY DEF Pag!Int32
      <4> QED
        BY <1>3, <2>1, <4>1 DEF Pag!QuantitiesLegal
    <3> QED
      BY <2>3, <3>3, <3>4
  <2>5. bps \in Nat
    <3>1. DefaultTax \in Nat /\ \A c \in DOMAIN TaxRates : TaxRates[c] \in Nat
      BY StorefrontPrices
    <3> QED
      BY <3>1 DEF Pag!TaxFor
  <2>6. /\ coupon = {} \/ \E c \in Coupons : coupon = {c} /\ c.code = code
        /\ code = "" => coupon = {}
    BY ResolvesTo
  <2> HIDE DEF priced, coupon, bps, q
  <2>7. q = Pag!Failed("EMPTY_QUOTE") \/ q = Pag!Failed("COUPON_INVALID") \/ QuoteOf(q, priced, coupon, bps)
    <3>1. IsFiniteSet(DOMAIN priced) /\ \A p \in DOMAIN priced : priced[p].price \in Nat /\ priced[p].quantity \in Nat
      BY <2>2, <2>3, <2>4
    <3>2. coupon = {} \/ \E c \in Coupons : coupon = {c}
      BY <2>6
    <3> QED
      BY <1>3, <2>5, <3>1, <3>2, PriceFits
  <2>8. CASE q = Pag!Failed("EMPTY_QUOTE") \/ q = Pag!Failed("COUPON_INVALID")
    BY <1>2, <2>8
  <2>9. ASSUME QuoteOf(q, priced, coupon, bps) PROVE QuoteFits(q, lines, set, code)
    <3> DEFINE n == q.subtotal
    <3>0. n \in Nat /\ q.discount = Discount(coupon, n)
      BY <2>9 DEF QuoteOf
    <3>1. q.discount \in Nat /\ q.discount <= n /\ (coupon = {} => q.discount = 0)
      <4> HIDE DEF n
      <4>1. CASE coupon = {}
        BY <3>0, <4>1, DiscountFits
      <4>2. ASSUME NEW c \in Coupons, coupon = {c} PROVE q.discount \in Nat /\ q.discount <= n /\ coupon # {}
        BY <3>0, <4>2, DiscountFits
      <4> QED
        BY <2>6, <3>0, <4>1, <4>2
    <3>2. Pag!Sub(q.subtotal, q.discount) = q.subtotal - q.discount /\ q.subtotal - q.discount \in Nat
      BY <2>9, <3>1 DEF Pag!Sub, QuoteOf
    <3>3. /\ q.tax \in Nat /\ q.tax * 10000 - (q.subtotal - q.discount) * bps <= 5000
          /\ (q.subtotal - q.discount) * bps - q.tax * 10000 <= 5000
      <4> DEFINE m == q.subtotal - q.discount
      <4>1. m \in Nat /\ q.tax = Pag!TaxBps(m, bps)
        BY <2>9, <3>2 DEF QuoteOf
      <4> HIDE DEF m
      <4>2. q.tax \in Nat /\ q.tax * 10000 - m * bps <= 5000 /\ m * bps - q.tax * 10000 <= 5000
        BY <2>5, <4>1, TaxFits
      <4> QED
        BY <4>2 DEF m
    <3>4. q.total = q.subtotal - q.discount + q.tax /\ q.total \in Nat
      BY <2>9, <3>1, <3>2, <3>3 DEF QuoteOf
    <3>5. q.coupon = IF code = "" THEN {} ELSE {code}
      BY <1>3, <2>6, <2>9 DEF QuoteOf
    <3>6. q.coupon = {} <=> coupon = {}
      BY <2>9 DEF QuoteOf
    <3>7. ASSUME NEW c \in {x \in set : x.code \in q.coupon}
          PROVE  IF c.kind = "PERCENT"
                 THEN q.discount * 100 - q.subtotal * c.off <= 50 /\ q.subtotal * c.off - q.discount * 100 <= 50
                 ELSE q.discount \in {c.off, q.subtotal}
      <4>1. c \in Pag!ResolveCoupon(code, set)
        BY <3>5, <3>7 DEF Pag!ResolveCoupon
      <4>2. c \in Coupons /\ coupon = {c}
        BY <2>6, <4>1 DEF coupon
      <4> HIDE DEF n
      <4>3. IF c.kind = "PERCENT" THEN q.discount * 100 - n * c.off <= 50 /\ n * c.off - q.discount * 100 <= 50
            ELSE q.discount \in {c.off, n}
        BY <3>0, <4>2, DiscountFits
      <4> QED
        BY <4>3 DEF n
    <3>8. \A p \in DOMAIN q.lines : q.lines[p].total = q.lines[p].price * lines[p]
      BY <2>3, <2>9 DEF QuoteOf
    <3>9. \A cents \in {q.subtotal, q.discount, q.tax, q.total} :
             LET m == Pag!UnitsNanos(cents) IN Pag!FromUnitsNanos(m[1], m[2]) = cents
      BY <2>9, <3>1, <3>3, <3>4, CentsRoundTrip DEF QuoteOf
    <3>10. Pag!AddsUp(q, lines, set, bps)
      <4>1. 0 <= q.discount /\ q.discount <= q.subtotal /\ q.total = q.subtotal - q.discount + q.tax
            /\ (q.coupon = {} => q.discount = 0)
        BY <3>1, <3>4, <3>6
      <4>2. q.subtotal = Pag!Total([p \in DOMAIN q.lines |-> q.lines[p].total])
        BY <2>9 DEF QuoteOf
      <4> QED
        BY <3>3, <3>7, <3>8, <3>9, <4>1, <4>2 DEF Pag!AddsUp
    <3> QED
      BY <2>3, <2>9, <3>5, <3>10 DEF QuoteFits, QuoteOf, bps
  <2> QED
    BY <2>7, <2>8, <2>9
<1> HIDE DEF q
<1>4. CASE \E reason \in {"NO_ITEMS", "BAD_QUANTITY", "PRODUCT_UNPRICEABLE", "CURRENCY_MISMATCH", "COUPON_UNKNOWN"} :
             q = Pag!Failed(reason)
  BY <1>2, <1>4 DEF q
<1> QED
  BY <1>1, <1>3, <1>4 DEF q

-----------------------------------------------------------------------------
(* A page request: what it has read is a cart, a failure of the first      *)
(* quote is remembered, and the quote it has fits what it has read, under  *)
(* the code, or under none if that failed.                                 *)
PageFields == {"pc", "raw", "code", "rows", "details", "quote", "reason"}
PageFits(q) ==
    /\ DOMAIN q = PageFields /\ q.pc \in {"idle", "quote", "retry", "quoted"}
    /\ q.details \in {"wait", "known", "unavailable"} /\ q.raw \in CartLines
    /\ q.pc = "quote" => q.reason = ""
    /\ q.pc = "retry" => q.reason # ""
    /\ q.pc = "quoted" => /\ QuoteFits(q.quote, q.raw, q.rows, IF q.reason = "" THEN q.code ELSE "")
                          /\ q.reason = "" => q.quote.ok
PageInv ==
    /\ DOMAIN price \subseteq CartProducts /\ PricesFit(price) /\ RowsFit(couponRows) /\ edits \in 0..MaxEdits
    /\ pageReq = [v \in Pages |-> pageReq[v]] /\ \A v \in Pages : PageFits(pageReq[v])

(* Only the page's requests, prices and coupons' expiry touch what the     *)
(* page keeps.                                                             *)
LEMMA PageFrame == [Next]_vars => PageStep \/ UNCHANGED pageVars
BY DEF Next, vars, frontVars, FgaStep, SellerStep, CatalogStep, IndexStep, StockStep, SearchStep, SharingStep,
       MediaStep, CartStep, CartExpires, ListStep, EdgeStep, AnalyticsStep, AnalyticsKeep

(* A request put in place of a page's.                                     *)
LEMMA PagePut ==
    ASSUME PageInv, NEW v \in Pages, NEW q, PageFits(q), pageReq' = [pageReq EXCEPT ![v] = q],
           UNCHANGED <<price, couponRows, edits>>
    PROVE  PageInv'
<1>1. pageReq = [u \in Pages |-> pageReq[u]]
  BY DEF PageInv
<1>2. /\ pageReq' = [u \in Pages |-> pageReq'[u]] /\ pageReq'[v] = q
      /\ \A u \in Pages \ {v} : pageReq'[u] = pageReq[u]
  BY <1>1
<1>3. \A u \in Pages : PageFits(pageReq'[u])
  BY <1>2 DEF PageInv
<1> QED
  BY <1>2, <1>3 DEF PageInv

(* An outcome of a call of QuotePrice fits.                                *)
LEMMA OutcomeFits ==
    ASSUME PageInv, NEW lines \in CartLines, NEW code, NEW q \in Pag!QuoteOutcomes(lines, code)
    PROVE  QuoteFits(q, lines, couponRows, code)
<1>1. CASE q = Pag!QuotePrice(lines, price, code, couponRows, "")
  BY <1>1, QuotePriceFits DEF PageInv
<1>2. CASE q = Pag!Failed("UNAVAILABLE")
  <2>1. q.ok = FALSE /\ q.reason = "UNAVAILABLE"
    BY <1>2 DEF Pag!Failed
  <2> QED
    BY <2>1 DEF QuoteFits
<1> QED
  BY <1>1, <1>2 DEF Pag!QuoteOutcomes

(* Pages start idle, with whatever prices and coupons there are.           *)
LEMMA PageStart == Init => PageInv
<1> SUFFICES ASSUME Init PROVE PageInv
  OBVIOUS
<1>1. /\ price \in UNION {[S -> PriceSet] : S \in SUBSET CartProducts}
      /\ couponRows \in SUBSET Coupons /\ edits = 0
      /\ \A c, d \in couponRows : c.code = d.code => c = d
      /\ pageReq = [v \in Pages |-> Pag!NoPage]
  BY DEF Init, Pag!PageInit
<1>2. PICK S \in SUBSET CartProducts : price \in [S -> PriceSet]
  BY <1>1
<1>3. DOMAIN price \subseteq CartProducts /\ PricesFit(price)
  <2>1. \A x \in PriceSet : x.units \in Nat /\ x.nanos \in Nat
    BY StorefrontPrices
  <2> QED
    BY <1>2, <2>1 DEF PricesFit
<1>4. RowsFit(couponRows)
  BY <1>1 DEF RowsFit
<1>5. edits \in 0..MaxEdits
  <2>1. MaxEdits \in Nat
    BY StorefrontPrices
  <2> QED
    BY <1>1, <2>1
<1>6. PageFits(Pag!NoPage)
  BY EmptyFits DEF PageFits, PageFields, Pag!NoPage
<1>7. pageReq = [v \in Pages |-> pageReq[v]] /\ \A v \in Pages : pageReq[v] = Pag!NoPage
  BY <1>1
<1> QED
  BY <1>3, <1>4, <1>5, <1>6, <1>7 DEF PageInv

(* A price changes.                                                        *)
LEMMA ChangePriceStep ==
    ASSUME PageInv, NEW p \in CartProducts, NEW x \in PriceSet, Pag!ChangePrice(p, x)
    PROVE  PageInv'
<1>1. /\ edits < MaxEdits /\ edits' = edits + 1 /\ UNCHANGED <<couponRows, pageReq>>
      /\ price' = [y \in DOMAIN price \cup {p} |-> IF y = p THEN x ELSE price[y]]
  BY DEF Pag!ChangePrice
<1>2. x.units \in Nat /\ x.nanos \in Nat /\ MaxEdits \in Nat
  BY StorefrontPrices
<1>3. edits' \in 0..MaxEdits
  BY <1>1, <1>2 DEF PageInv
<1>4. DOMAIN price' = DOMAIN price \cup {p} /\ \A y \in DOMAIN price' : price'[y] = IF y = p THEN x ELSE price[y]
  BY <1>1
<1>5. DOMAIN price' \subseteq CartProducts /\ PricesFit(price)'
  BY <1>2, <1>4 DEF PageInv, PricesFit
<1> QED
  BY <1>1, <1>3, <1>5 DEF PageInv

(* A coupon's expiry passes: its row keeps its code.                       *)
LEMMA CouponExpiresStep ==
    ASSUME PageInv, NEW c \in couponRows, Pag!CouponExpires(c)
    PROVE  PageInv'
<1> DEFINE e == [c EXCEPT !.expired = TRUE]
<1>1. /\ edits < MaxEdits /\ edits' = edits + 1 /\ UNCHANGED <<price, pageReq>>
      /\ e \in Coupons /\ couponRows' = (couponRows \ {c}) \cup {e}
  BY DEF Pag!CouponExpires
<1>2. edits' \in 0..MaxEdits
  <2>1. MaxEdits \in Nat
    BY StorefrontPrices
  <2> QED
    BY <1>1, <2>1 DEF PageInv
<1>3. c \in [code : STRING \ {""}, kind : {"PERCENT", "AMOUNT"}, off : Nat, expired : BOOLEAN,
             maxUses : Nat, usedCount : Nat]
  BY StorefrontPrices DEF PageInv, RowsFit
<1>4. e.code = c.code
  BY <1>3
<1> HIDE DEF e
<1>5. RowsFit(couponRows)'
  BY <1>1, <1>4 DEF PageInv, RowsFit
<1> QED
  BY <1>1, <1>2, <1>5 DEF PageInv

(* A request's step.                                                       *)
LEMMA PageRequestStep ==
    ASSUME PageInv, CartTypeInv, NEW v \in Pages
    PROVE  /\ \A code : Pag!RespondCart(v, PageCart, code) => PageInv'
           /\ Pag!BatchProductsByID(v) => PageInv'
           /\ Pag!QuoteCartItems(v) => PageInv'
           /\ Pag!QuoteWithoutCoupon(v) => PageInv'
           /\ Pag!PageDone(v) => PageInv'
<1> DEFINE req == pageReq[v]
<1>1. PageFits(req) /\ pageReq = [u \in Pages |-> pageReq[u]]
  BY DEF PageInv
<1>2. ASSUME NEW code, Pag!RespondCart(v, PageCart, code) PROVE PageInv'
  <2> DEFINE q == [Pag!NoPage EXCEPT !.pc = "quote", !.raw = cart[PageCart], !.code = code]
  <2>1. pageReq' = [pageReq EXCEPT ![v] = q] /\ UNCHANGED <<price, couponRows, edits>>
    BY <1>2 DEF Pag!RespondCart
  <2>2. cart[PageCart] \in CartLines
    BY StorefrontCarts DEF CartTypeInv
  <2>3. PageFits(q)
    BY <2>2 DEF Pag!NoPage, PageFits, PageFields
  <2> HIDE DEF q
  <2> QED
    BY <2>1, <2>3, PagePut
<1>3. ASSUME Pag!BatchProductsByID(v) PROVE PageInv'
  <2>1. PICK d \in {"known", "unavailable"} : pageReq' = [pageReq EXCEPT ![v].details = d]
    BY <1>3 DEF Pag!BatchProductsByID
  <2> DEFINE q == [req EXCEPT !.details = d]
  <2>2. pageReq' = [pageReq EXCEPT ![v] = q] /\ UNCHANGED <<price, couponRows, edits>>
    BY <1>1, <1>3, <2>1 DEF Pag!BatchProductsByID
  <2>3. PageFits(q)
    BY <1>1 DEF PageFits, PageFields
  <2> HIDE DEF q
  <2> QED
    BY <2>2, <2>3, PagePut
<1>4. ASSUME Pag!QuoteCartItems(v) PROVE PageInv'
  <2>1. req.pc = "quote" /\ UNCHANGED <<price, couponRows, edits>>
    BY <1>4 DEF Pag!QuoteCartItems
  <2>2. PICK o \in Pag!QuoteOutcomes(req.raw, req.code) :
           pageReq' = [pageReq EXCEPT ![v] =
              IF o.ok THEN [@ EXCEPT !.pc = "quoted", !.quote = o, !.rows = couponRows]
              ELSE [@ EXCEPT !.pc = "retry", !.reason = o.reason]]
    BY <1>4 DEF Pag!QuoteCartItems
  <2>3. QuoteFits(o, req.raw, couponRows, req.code)
    BY <1>1, OutcomeFits DEF PageFits
  <2>4. CASE o.ok
    <3> DEFINE q == [req EXCEPT !.pc = "quoted", !.quote = o, !.rows = couponRows]
    <3>1. pageReq' = [pageReq EXCEPT ![v] = q]
      BY <1>1, <2>2, <2>4
    <3>2. /\ DOMAIN q = PageFields /\ q.pc = "quoted" /\ q.quote = o /\ q.rows = couponRows /\ q.raw = req.raw
          /\ q.code = req.code /\ q.details = req.details /\ q.reason = req.reason
      BY <1>1 DEF PageFits, PageFields
    <3> HIDE DEF q
    <3>3. req.reason = ""
      BY <1>1, <2>1 DEF PageFits
    <3>4. PageFits(q)
      BY <1>1, <2>3, <2>4, <3>2, <3>3 DEF PageFits
    <3> QED
      BY <2>1, <3>1, <3>4, PagePut
  <2>5. CASE ~o.ok
    <3> DEFINE q == [req EXCEPT !.pc = "retry", !.reason = o.reason]
    <3>1. pageReq' = [pageReq EXCEPT ![v] = q]
      BY <1>1, <2>2, <2>5
    <3>2. o.reason # ""
      BY <2>3, <2>5 DEF QuoteFits
    <3>3. PageFits(q)
      BY <1>1, <3>2 DEF PageFits, PageFields
    <3> HIDE DEF q
    <3> QED
      BY <2>1, <3>1, <3>3, PagePut
  <2> QED
    BY <2>4, <2>5
<1>5. ASSUME Pag!QuoteWithoutCoupon(v) PROVE PageInv'
  <2>1. PICK o \in Pag!QuoteOutcomes(req.raw, "") :
           pageReq' = [pageReq EXCEPT ![v].pc = "quoted", ![v].quote = o, ![v].rows = couponRows]
    BY <1>5 DEF Pag!QuoteWithoutCoupon
  <2>2. req.pc = "retry" /\ UNCHANGED <<price, couponRows, edits>>
    BY <1>5 DEF Pag!QuoteWithoutCoupon
  <2> DEFINE q == [req EXCEPT !.pc = "quoted", !.quote = o, !.rows = couponRows]
  <2>3. pageReq' = [pageReq EXCEPT ![v] = q]
    BY <1>1, <2>1
  <2>4. QuoteFits(o, req.raw, couponRows, "")
    BY <1>1, OutcomeFits DEF PageFits
  <2>5. /\ DOMAIN q = PageFields /\ q.pc = "quoted" /\ q.quote = o /\ q.rows = couponRows /\ q.raw = req.raw
        /\ q.details = req.details /\ q.reason = req.reason
    BY <1>1 DEF PageFits, PageFields
  <2> HIDE DEF q
  <2>6. req.reason # ""
    BY <1>1, <2>2 DEF PageFits
  <2>7. PageFits(q)
    BY <1>1, <2>4, <2>5, <2>6 DEF PageFits
  <2> QED
    BY <2>2, <2>3, <2>7, PagePut
<1>6. ASSUME Pag!PageDone(v) PROVE PageInv'
  <2>1. pageReq' = [pageReq EXCEPT ![v] = Pag!NoPage] /\ UNCHANGED <<price, couponRows, edits>>
    BY <1>6 DEF Pag!PageDone
  <2>2. PageFits(Pag!NoPage)
    BY EmptyFits DEF PageFits, PageFields, Pag!NoPage
  <2> QED
    BY <2>1, <2>2, PagePut
<1> QED
  BY <1>2, <1>3, <1>4, <1>5, <1>6

(* The invariant of the page, while carts keep their types.                *)
LEMMA PageInvariant == Spec => []PageInv
<1>1. CartInv /\ PageInv /\ [Next]_vars => PageInv'
  <2> SUFFICES ASSUME CartInv, PageInv, [Next]_vars PROVE PageInv'
    OBVIOUS
  <2>1. CartTypeInv
    BY DEF CartInv
  <2>2. CASE PageStep
    <3>1. ASSUME NEW p \in CartProducts, NEW x \in PriceSet, Pag!ChangePrice(p, x) PROVE PageInv'
      BY <3>1, ChangePriceStep
    <3>2. ASSUME NEW c \in couponRows, Pag!CouponExpires(c) PROVE PageInv'
      BY <3>2, CouponExpiresStep
    <3>3. ASSUME NEW v \in Pages, NEW k, Pag!RespondCart(v, PageCart, k) PROVE PageInv'
      BY <2>1, <3>3, PageRequestStep
    <3>4. ASSUME NEW v \in Pages,
                 Pag!BatchProductsByID(v) \/ Pag!QuoteCartItems(v) \/ Pag!QuoteWithoutCoupon(v) \/ Pag!PageDone(v)
          PROVE  PageInv'
      BY <2>1, <3>4, PageRequestStep
    <3> QED
      BY <2>2, <3>1, <3>2, <3>3, <3>4 DEF PageStep
  <2>3. CASE UNCHANGED pageVars
    BY <2>3 DEF pageVars, PageInv
  <2> QED
    BY <2>2, <2>3, PageFrame
<1> QED
  BY <1>1, CartInvariant, PageStart, PTL DEF Spec

(* Without a coupon a quote that adds up has no discount.                  *)
LEMMA NoCouponNoDiscount ==
    ASSUME NEW q, NEW lines, NEW set, NEW bps, Pag!AddsUp(q, lines, set, bps), q.coupon = {}
    PROVE  q.discount = 0
BY DEF Pag!AddsUp

(* What a page request shows when both answers are in.                     *)
LEMMA ViewOf ==
    ASSUME NEW q, PageFits(q), q.pc = "quoted"
    PROVE  LET view == Pag!View(q) IN
           /\ view.totals => /\ \A p \in DOMAIN view.lines : view.lines[p].priced
                             /\ Pag!AddsUp(q.quote, q.raw, q.rows, Pag!TaxFor(""))
                             /\ (view.couponCode # "") <=> (q.quote.coupon = {view.couponCode})
           /\ view.couponError # "" => view.couponCode = "" /\ (view.totals => q.quote.discount = 0)
           /\ ~view.totals => view.couponError # ""
<1> DEFINE view == Pag!View(q)
           code == IF q.reason = "" THEN q.code ELSE ""
           shown == IF q.quote.ok /\ q.quote.coupon # {} THEN CHOOSE k \in q.quote.coupon : TRUE
                    ELSE IF q.reason # "" THEN "" ELSE q.code
           lines == [p \in DOMAIN q.raw |-> [quantity |-> q.raw[p], priced |-> q.quote.ok /\ p \in DOMAIN q.quote.lines]]
<1>1. QuoteFits(q.quote, q.raw, q.rows, code) /\ (q.reason = "" => q.quote.ok)
  BY DEF PageFits
<1>2. view.lines = lines /\ view.totals = q.quote.ok /\ view.couponError = q.reason /\ view.couponCode = shown
  BY DEF Pag!View
<1>3. q.quote.ok => /\ Pag!AddsUp(q.quote, q.raw, q.rows, Pag!TaxFor("")) /\ DOMAIN q.quote.lines = DOMAIN q.raw
                    /\ q.quote.coupon = IF code = "" THEN {} ELSE {code}
  BY <1>1 DEF QuoteFits
<1>4. q.quote.ok => \A p \in DOMAIN lines : lines[p].priced
  BY <1>3
<1>5. q.quote.ok => shown = code
  BY <1>3
<1>6. q.reason # "" => code = "" /\ shown = ""
  BY <1>3
<1>7. q.quote.ok /\ q.quote.coupon = {} => q.quote.discount = 0
  BY <1>3, NoCouponNoDiscount
<1> HIDE DEF view, code, shown, lines
<1>8. q.quote.ok => (shown # "" <=> q.quote.coupon = {shown})
  BY <1>3, <1>5
<1>9. q.reason # "" /\ q.quote.ok => q.quote.discount = 0
  BY <1>3, <1>6, <1>7
<1> QED
  BY <1>1, <1>2, <1>3, <1>4, <1>6, <1>8, <1>9 DEF view

(* Carts hold legal lines and what requests put into them, and the page    *)
(* shows amounts and coupons that belong together, for any number of       *)
(* requests at once, any products, prices, coupons and rates, and whatever *)
(* fails or expires in between (clampQty, load, save, Merge, respondCart,  *)
(* quoteCartItems, Price).                                                 *)
THEOREM CartsAreRight == Spec => []CartsRight
<1>1. CartInv /\ PageInv => CartsRight
  <2> SUFFICES ASSUME CartInv, PageInv PROVE CartsRight
    OBVIOUS
  <2>1. Pag!CartTypeOK
    <3>1. \A c \in Carts : DOMAIN cart[c] \subseteq CartProducts /\ \A p \in DOMAIN cart[c] : cart[c][p] \in Pag!Int32
      <4> SUFFICES ASSUME NEW c \in Carts
                   PROVE  DOMAIN cart[c] \subseteq CartProducts /\ \A p \in DOMAIN cart[c] : cart[c][p] \in Pag!Int32
        OBVIOUS
      <4>1. cart[c] \in CartLines
        BY DEF CartInv, CartTypeInv
      <4> QED
        BY <4>1, LinesAre
    <3>2. \A r \in CartRequests : cartReq[r].pc \in {"idle", "loaded", "half", "saved"}
      BY DEF CartInv, CartTypeInv, CartRequest
    <3> QED
      BY <3>1, <3>2 DEF CartInv, CartTypeInv, Pag!CartTypeOK
  <2>2. Pag!PageTypeOK
    BY DEF PageInv, PageFits, RowsFit, Pag!PageTypeOK
  <2>3. Pag!LinesLegal
    BY DEF CartInv, LegalInv, Legal, Pag!LinesLegal
  <2>4. Pag!UnitsAccounted
    <3> SUFFICES ASSUME NEW c \in Carts, c \notin disturbed, Pag!Loaded(c) = {} PROVE cart[c] = serial[c]
      BY DEF Pag!UnitsAccounted
    <3>1. Counted(c)
      BY DEF CartInv, UnitsInv
    <3> QED
      BY <3>1, SomebodyIn DEF Counted
  <2>5. Pag!ViewFits
    <3> SUFFICES ASSUME NEW v \in Pages, Pag!Answered(v)
                 PROVE  LET req == pageReq[v]  view == Pag!View(req) IN
                        /\ view.totals => /\ \A p \in DOMAIN view.lines : view.lines[p].priced
                                          /\ Pag!AddsUp(req.quote, req.raw, req.rows, Pag!TaxFor(""))
                                          /\ (view.couponCode # "") <=> (req.quote.coupon = {view.couponCode})
                        /\ view.couponError # "" => view.couponCode = "" /\ (view.totals => req.quote.discount = 0)
                        /\ ~view.totals => view.couponError # ""
      BY DEF Pag!ViewFits
    <3>1. PageFits(pageReq[v]) /\ pageReq[v].pc = "quoted"
      BY DEF PageInv, Pag!Answered
    <3> QED
      BY <3>1, ViewOf
  <2> QED
    BY <2>1, <2>2, <2>3, <2>4, <2>5 DEF CartsRight
<1> QED
  BY <1>1, CartInvariant, PageInvariant, PTL

-----------------------------------------------------------------------------
(* The analytics sink.                                                     *)

SinkTodos == {<<>>, <<"events", "clicks">>, <<"clicks">>}
SinkRecords == {"fact", "new"}
SinkFlushes == [todo : SinkTodos, rows : Seq(Nat), sent : BOOLEAN, clean : BOOLEAN]

(* f has a copy of the oldest rows of s, or has to deal with s yet.        *)
Holds(f, s) == flusher[f].rows # <<>> /\ Head(flusher[f].todo) = s
Due(f, s) == flusher[f].todo = <<"events", "clicks">> \/ (flusher[f].todo = <<"clicks">> /\ s = "clicks")

SinkTypeInv ==
    /\ records \in [Ana!Streams -> Seq(SinkRecords)] /\ taken \in [Ana!Streams -> Nat] /\ stored \in [Ana!Streams -> Nat]
    /\ buf \in [Ana!Streams -> Seq(Nat)] /\ table = [s \in Ana!Streams |-> table[s]]
    /\ \A s \in Ana!Streams : table[s] \in [1..Ana!Limit(s) -> 0..2]
    /\ flusher \in [Ana!Flushers -> SinkFlushes]
    /\ \A f \in Ana!Flushers : /\ flusher[f].todo = <<>> => flusher[f].rows = <<>>
                               /\ flusher[f].sent => flusher[f].rows # <<>>
    /\ degraded \in BOOLEAN /\ mode \in {"up", "stopping", "draining", "closing"}
    /\ incidents \subseteq Ana!Incidents /\ lost \subseteq Ana!Streams \X Nat /\ anFaults \in 0..MaxSinkFaults

(* Offsets and rows are of records that were published, and a buffer is    *)
(* within its bound; a copied row was taken.                               *)
RowsTaken ==
    \A s \in Ana!Streams :
        /\ Len(records[s]) <= Ana!Limit(s) /\ stored[s] <= taken[s] /\ taken[s] <= Len(records[s]) /\ Len(buf[s]) <= MaxBuffer
        /\ \A i \in 1..Len(buf[s]) : buf[s][i] \in 1..taken[s] /\ Ana!Flattened(records[s][buf[s][i]])
        /\ \A f \in Ana!Flushers : Holds(f, s) => \A k \in 1..Len(flusher[f].rows) : flusher[f].rows[k] \in 1..taken[s]

(* While no two flushes of a buffer have overlapped, one of them at most   *)
(* holds rows, these are the oldest, and what was sent of them is written; *)
(* a buffer holds a row once.                                              *)
Exclusive == \A s \in Ana!Streams : \A f, g \in Ana!Flushers : Holds(f, s) /\ Holds(g, s) => f = g
RowsAhead ==
    \A f \in Ana!Flushers, s \in Ana!Streams : Holds(f, s) =>
        /\ Len(flusher[f].rows) <= Len(buf[s])
        /\ \A k \in 1..Len(flusher[f].rows) :
              flusher[f].rows[k] = buf[s][k] /\ (flusher[f].sent => table[s][flusher[f].rows[k]] > 0)
BufferGrows == \A s \in Ana!Streams : \A j, k \in 1..Len(buf[s]) : j < k => buf[s][j] < buf[s][k]

(* How much a shutdown leaves to do: two batches, then one, then none.     *)
LeftOf(f, s) == Len(buf[s]) - IF Holds(f, s) THEN Len(flusher[f].rows) ELSE 0
StopDrains ==
    \A s \in Ana!Streams :
        /\ mode = "stopping" => Len(buf[s]) <= 2 * BatchSize
        /\ mode = "draining" => /\ Len(buf[s]) <= 2 * BatchSize
                                /\ ~Due("ticker", s) => Len(buf[s]) <= BatchSize
                                /\ Holds("ticker", s) => LeftOf("ticker", s) <= BatchSize
        /\ mode = "closing" => /\ Len(buf[s]) <= BatchSize
                               /\ ~Due("closer", s) => Len(buf[s]) = 0
                               /\ Holds("closer", s) => LeftOf("closer", s) = 0

(* Rows are written once: those not taken not at all, those in a buffer    *)
(* once they are in a batch that was sent.                                 *)
OnceWritten ==
    \A s \in Ana!Streams : \A i \in 1..Ana!Limit(s) :
        /\ table[s][i] <= 1 /\ (i > taken[s] => table[s][i] = 0)
        /\ Ana!Contains(buf[s], i) /\ table[s][i] > 0 =>
             \E f \in Ana!Flushers : Holds(f, s) /\ flusher[f].sent /\ Ana!Contains(flusher[f].rows, i)

SinkInv ==
    /\ SinkTypeInv /\ RowsTaken /\ Ana!RowsKept
    /\ Ana!Apart => Exclusive /\ RowsAhead /\ BufferGrows
    /\ incidents \cap {"overlap", "stop_backlog", "stop_outage"} = {} => StopDrains
    /\ incidents \cap {"overlap", "unacked", "restart"} = {} => OnceWritten

(* A finite set of numbers has a largest one.                              *)
LEMMA LargestIsMax ==
    ASSUME NEW S \in SUBSET Nat, S # {}, IsFiniteSet(S)
    PROVE  Ana!Max(S) \in S /\ \A x \in S : x <= Ana!Max(S)
<1> DEFINE Unbounded == {T \in SUBSET S : T # {} /\ \A x \in T : \E y \in T : ~(y <= x)}
<1>1. Unbounded = {}
  <2> SUFFICES ASSUME Unbounded # {} PROVE FALSE
    OBVIOUS
  <2>1. PICK T \in Unbounded : \A U \in SUBSET T : U # T => U \notin Unbounded
    <3>1. Unbounded \in SUBSET SUBSET S
      OBVIOUS
    <3> HIDE DEF Unbounded
    <3> QED
      BY <3>1, SmallestSet
  <2>2. PICK x : x \in T
    BY <2>1
  <2>3. PICK y \in T : ~(y <= x)
    BY <2>1, <2>2
  <2>4. T \ {x} \in SUBSET T /\ T \ {x} # T /\ y \in T \ {x} /\ T \subseteq Nat
    BY <2>1, <2>2, <2>3
  <2>5. T \ {x} \notin Unbounded /\ T \ {x} \in SUBSET S
    BY <2>1, <2>4
  <2>6. PICK z \in T \ {x} : \A u \in T \ {x} : u <= z
    BY <2>4, <2>5
  <2>7. \A u \in T : u <= z
    <3>1. x \in Nat /\ y \in Nat /\ z \in Nat /\ y <= z
      BY <2>2, <2>3, <2>4, <2>6
    <3>2. x <= z
      BY <2>3, <3>1
    <3> QED
      BY <2>6, <3>2
  <2> QED
    BY <2>1, <2>6, <2>7
<1>2. S \notin Unbounded
  BY <1>1, Zenon
<1>3. \E x \in S : \A y \in S : y <= x
  BY <1>2
<1>4. \E x \in S : \A y \in S : x >= y
  BY <1>3
<1>5. Ana!Max(S) \in S /\ \A y \in S : Ana!Max(S) >= y
  <2> DEFINE P(x) == x \in S /\ \A y \in S : x >= y
  <2>1. P(CHOOSE x : P(x))
    <3>1. \E x : P(x)
      BY <1>4
    <3> HIDE DEF P
    <3> QED
      BY <3>1, Zenon
  <2>2. Ana!Max(S) = CHOOSE x : P(x)
    BY Zenon DEF Ana!Max
  <2> QED
    BY <2>1, <2>2
<1> QED
  BY <1>5

(* The smaller of two numbers.                                             *)
LEMMA MinOfTwo ==
    ASSUME NEW a \in Nat, NEW b \in Nat
    PROVE  Ana!Min({a, b}) = IF a <= b THEN a ELSE b
<1> DEFINE m == IF a <= b THEN a ELSE b
<1>1. m \in {a, b} /\ \A y \in {a, b} : m <= y
  OBVIOUS
<1>2. ASSUME NEW x \in {a, b}, \A y \in {a, b} : x <= y PROVE x = m
  BY <1>2
<1>3. Ana!Min({a, b}) \in {a, b} /\ \A y \in {a, b} : Ana!Min({a, b}) <= y
  BY <1>1 DEF Ana!Min
<1> QED
  BY <1>2, <1>3

(* How many records of a stream the bound admits.                          *)
LEMMA LimitBounds ==
    ASSUME NEW s \in Ana!Streams
    PROVE  Ana!Limit(s) \in Nat /\ \A l \in Loads : l[s] \in Nat /\ l[s] <= Ana!Limit(s)
<1> DEFINE S == {l[s] : l \in Loads}
<1>1. S \in SUBSET Nat /\ S # {}
  BY StorefrontLoads DEF Ana!Streams
<1>2. IsFiniteSet(S)
  <2> DEFINE g == [l \in Loads |-> l[s]]
  <2>1. g \in Surjection(Loads, S)
    BY DEF Surjection
  <2> QED
    BY <2>1, StorefrontLoads, FS_Surjection
<1>3. Ana!Limit(s) = Ana!Max(S)
  BY DEF Ana!Limit
<1>4. Ana!Max(S) \in S /\ \A x \in S : x <= Ana!Max(S)
  <2> HIDE DEF S
  <2> QED
    BY <1>1, <1>2, LargestIsMax
<1> QED
  BY <1>1, <1>3, <1>4

(* What a flush has left to deal with.                                     *)
LEMMA TodoFacts ==
    /\ <<"events", "clicks">> # <<"clicks">> /\ <<"events", "clicks">> # <<>> /\ <<"clicks">> # <<>>
    /\ Len(<<"events", "clicks">>) = 2 /\ Len(<<"clicks">>) = 1
    /\ Head(<<"events", "clicks">>) = "events" /\ Head(<<"clicks">>) = "clicks"
    /\ Tail(<<"events", "clicks">>) = <<"clicks">>
    /\ \A t \in SinkTodos : t # <<>> => Head(t) \in Ana!Streams
<1>1. /\ <<"events", "clicks">> # <<"clicks">> /\ <<"events", "clicks">> # <<>> /\ <<"clicks">> # <<>>
      /\ Len(<<"events", "clicks">>) = 2 /\ Len(<<"clicks">>) = 1
  OBVIOUS
<1>2. Head(<<"events", "clicks">>) = "events" /\ Head(<<"clicks">>) = "clicks"
  OBVIOUS
<1>3. Tail(<<"events", "clicks">>) = <<"clicks">>
  OBVIOUS
<1>4. \A t \in SinkTodos : t # <<>> => Head(t) \in Ana!Streams
  BY <1>2 DEF SinkTodos, Ana!Streams
<1> QED
  BY <1>1, <1>2, <1>3, <1>4

(* A flush that starts, one that is over, and one whose first buffer is    *)
(* dealt with.                                                             *)
LEMMA FlushesTyped ==
    /\ Ana!Idle \in SinkFlushes /\ Ana!Idle.todo = <<>> /\ Ana!Idle.rows = <<>> /\ Ana!Idle.sent = FALSE
    /\ Ana!Flush \in SinkFlushes /\ Ana!Flush.todo = <<"events", "clicks">> /\ Ana!Flush.rows = <<>> /\ Ana!Flush.sent = FALSE
<1>1. <<>> \in Seq(Nat) /\ <<>> \in SinkTodos /\ <<"events", "clicks">> \in SinkTodos
  BY DEF SinkTodos
<1>2. /\ Ana!Idle \in SinkFlushes /\ Ana!Idle.todo = <<>> /\ Ana!Idle.rows = <<>> /\ Ana!Idle.sent = FALSE
  BY <1>1 DEF Ana!Idle, SinkFlushes
<1>3. /\ Ana!Flush \in SinkFlushes /\ Ana!Flush.todo = <<"events", "clicks">> /\ Ana!Flush.rows = <<>> /\ Ana!Flush.sent = FALSE
  <2> HIDE DEF Ana!Idle
  <2> QED
    BY <1>1, <1>2 DEF Ana!Flush, SinkFlushes
<1> QED
  BY <1>2, <1>3

(* What NextBuffer leaves of a flush.                                      *)
LEMMA NextBufferGives ==
    ASSUME SinkTypeInv, NEW f \in Ana!Flushers, flusher[f].todo # <<>>, NEW ok \in BOOLEAN, Ana!NextBuffer(f, ok)
    PROVE  /\ degraded' \in BOOLEAN
           /\ \E fl \in SinkFlushes :
                /\ flusher' = [flusher EXCEPT ![f] = fl] /\ fl.rows = <<>> /\ fl.sent = FALSE
                /\ fl.todo = IF flusher[f].todo = <<"events", "clicks">> THEN <<"clicks">> ELSE <<>>
<1>1. degraded' \in BOOLEAN
  BY DEF Ana!NextBuffer, SinkTypeInv
<1>2. PICK now_ : now_ = flusher[f]
  OBVIOUS
<1>3. now_ \in SinkFlushes /\ now_.todo # <<>> /\ now_.todo \in SinkTodos
  BY <1>2 DEF SinkTypeInv, SinkFlushes
<1>4. PICK c \in BOOLEAN : c = (now_.clean /\ ok)
  BY <1>3 DEF SinkFlushes
<1>5. CASE now_.todo = <<"events", "clicks">>
  <2>1. PICK fl : fl = [Ana!Idle EXCEPT !.todo = <<"clicks">>, !.clean = c]
    OBVIOUS
  <2>2. <<"clicks">> \in SinkTodos
    BY DEF SinkTodos
  <2>3. fl \in SinkFlushes /\ fl.rows = <<>> /\ fl.sent = FALSE /\ fl.todo = <<"clicks">>
    BY <2>1, <2>2, FlushesTyped DEF SinkFlushes
  <2>4. Len(now_.todo) # 1 /\ Tail(now_.todo) = <<"clicks">>
    BY <1>5, TodoFacts
  <2>5. flusher' = [flusher EXCEPT ![f] = fl]
    BY <1>2, <1>4, <2>1, <2>4 DEF Ana!NextBuffer
  <2> QED
    BY <1>1, <1>2, <1>5, <2>3, <2>5
<1>6. CASE now_.todo # <<"events", "clicks">>
  <2>1. now_.todo = <<"clicks">> /\ Len(now_.todo) = 1
    BY <1>3, <1>6, TodoFacts DEF SinkTodos
  <2>2. flusher' = [flusher EXCEPT ![f] = Ana!Idle]
    BY <1>2, <2>1 DEF Ana!NextBuffer
  <2> QED
    BY <1>1, <1>2, <1>6, <2>2, FlushesTyped
<1> QED
  BY <1>5, <1>6

(* Only the sink touches what the sink keeps.                              *)
LEMMA SinkFrame == [Next]_vars => AnalyticsStep \/ UNCHANGED anVars
BY DEF Next, vars, frontVars, FgaStep, SellerStep, CatalogStep, IndexStep, StockStep, SearchStep, SharingStep, MediaStep,
       CartStep, CartExpires, PageStep, ListStep, EdgeStep

(* Buffers and topics are empty at first.                                  *)
LEMMA SinkStart == Init => SinkInv
<1> SUFFICES ASSUME Init PROVE SinkInv
  OBVIOUS
<1>1. /\ records = [s \in Ana!Streams |-> <<>>] /\ taken = [s \in Ana!Streams |-> 0] /\ stored = taken
      /\ buf = [s \in Ana!Streams |-> <<>>] /\ table = [s \in Ana!Streams |-> [i \in 1..Ana!Limit(s) |-> 0]]
      /\ flusher = [f \in Ana!Flushers |-> Ana!Idle]
      /\ degraded = FALSE /\ mode = "up" /\ incidents = {} /\ lost = {} /\ anFaults = 0
  BY DEF Init, Ana!AnInit
<1>2. ASSUME NEW f \in Ana!Flushers
      PROVE  flusher[f].todo = <<>> /\ flusher[f].rows = <<>> /\ flusher[f].sent = FALSE /\ \A s : ~Holds(f, s)
  BY <1>1, FlushesTyped DEF Holds
<1>3. ASSUME NEW s \in Ana!Streams
      PROVE  /\ records[s] = <<>> /\ Len(records[s]) = 0 /\ taken[s] = 0 /\ stored[s] = 0 /\ buf[s] = <<>> /\ Len(buf[s]) = 0
             /\ table[s] \in [1..Ana!Limit(s) -> 0..2] /\ \A i \in 1..Ana!Limit(s) : table[s][i] = 0
             /\ Ana!Limit(s) \in Nat
  BY <1>1, LimitBounds
<1>4. SinkTypeInv
  <2>1. flusher \in [Ana!Flushers -> SinkFlushes]
    BY <1>1, FlushesTyped
  <2>2. /\ records \in [Ana!Streams -> Seq(SinkRecords)] /\ taken \in [Ana!Streams -> Nat] /\ stored \in [Ana!Streams -> Nat]
        /\ buf \in [Ana!Streams -> Seq(Nat)] /\ table = [s \in Ana!Streams |-> table[s]]
    BY <1>1
  <2>3. /\ degraded \in BOOLEAN /\ mode \in {"up", "stopping", "draining", "closing"}
        /\ incidents \subseteq Ana!Incidents /\ lost \subseteq Ana!Streams \X Nat /\ anFaults \in 0..MaxSinkFaults
    <3>1. degraded \in BOOLEAN
      BY <1>1
    <3>2. anFaults \in 0..MaxSinkFaults
      BY <1>1, StorefrontBounds
    <3>3. mode \in {"up", "stopping", "draining", "closing"}
      BY <1>1
    <3> QED
      BY <1>1, <3>1, <3>2, <3>3
  <2> QED
    BY <1>2, <1>3, <2>1, <2>2, <2>3 DEF SinkTypeInv
<1>5. RowsTaken
  <2>1. MaxBuffer \in Nat
    BY StorefrontConstants
  <2> SUFFICES ASSUME NEW s \in Ana!Streams
               PROVE  /\ Len(records[s]) <= Ana!Limit(s) /\ stored[s] <= taken[s] /\ taken[s] <= Len(records[s]) /\ Len(buf[s]) <= MaxBuffer
                      /\ \A i \in 1..Len(buf[s]) : buf[s][i] \in 1..taken[s] /\ Ana!Flattened(records[s][buf[s][i]])
                      /\ \A f \in Ana!Flushers : Holds(f, s) => \A k \in 1..Len(flusher[f].rows) : flusher[f].rows[k] \in 1..taken[s]
    BY DEF RowsTaken
  <2>2. \A i \in 1..Len(buf[s]) : FALSE
    BY <1>3
  <2>3. Len(records[s]) <= Ana!Limit(s) /\ stored[s] <= taken[s] /\ taken[s] <= Len(records[s]) /\ Len(buf[s]) <= MaxBuffer
    BY <1>3, <2>1
  <2> QED
    BY <1>2, <2>2, <2>3, Zenon
<1>6. Ana!RowsKept
  BY <1>3 DEF Ana!RowsKept
<1>7. Exclusive /\ RowsAhead /\ BufferGrows
  <2>1. Exclusive /\ RowsAhead
    BY <1>2 DEF Exclusive, RowsAhead
  <2>2. ASSUME NEW s \in Ana!Streams, NEW j \in 1..Len(buf[s]) PROVE FALSE
    BY <1>3
  <2> QED
    BY <2>1, <2>2 DEF BufferGrows
<1>8. StopDrains
  BY <1>1 DEF StopDrains
<1>9. OnceWritten
  <2> SUFFICES ASSUME NEW s \in Ana!Streams, NEW i \in 1..Ana!Limit(s)
               PROVE  table[s][i] = 0
    BY DEF OnceWritten
  <2> QED
    BY <1>3
<1> QED
  BY <1>4, <1>5, <1>6, <1>7, <1>8, <1>9 DEF SinkInv

(* A row that was taken is one the bound admits.                           *)
LEMMA RowIsWithin ==
    ASSUME SinkTypeInv, RowsTaken
    PROVE  \A s \in Ana!Streams : taken[s] \in Nat /\ \A i \in 1..taken[s] : i \in 1..Ana!Limit(s) /\ i \in 1..Len(records[s])
<1> SUFFICES ASSUME NEW s \in Ana!Streams, NEW i \in 1..taken[s]
             PROVE  i \in 1..Ana!Limit(s) /\ i \in 1..Len(records[s])
  BY DEF SinkTypeInv
<1>1. taken[s] \in Nat /\ Len(records[s]) \in Nat /\ Ana!Limit(s) \in Nat
  BY LimitBounds DEF SinkTypeInv
<1>2. taken[s] <= Len(records[s]) /\ Len(records[s]) <= Ana!Limit(s)
  BY DEF RowsTaken
<1> QED
  BY <1>1, <1>2

(* Copied rows are at most let go of, those that were sent are not, and    *)
(* what is in the table stays there.                                       *)
HoldsFewer ==
    \A f \in Ana!Flushers, s \in Ana!Streams :
        Holds(f, s)' => Holds(f, s) /\ flusher'[f].rows = flusher[f].rows /\ flusher'[f].sent = flusher[f].sent
HoldsSent == \A f \in Ana!Flushers, s \in Ana!Streams : Holds(f, s) /\ flusher[f].sent => flusher'[f] = flusher[f]
TableGrows == \A s \in Ana!Streams : \A i \in 1..Ana!Limit(s) : table[s][i] > 0 => table'[s][i] > 0

(* A step that takes and drops no row, and writes one only as the batch    *)
(* whose answer is lost, keeps the invariant.                              *)
LEMMA QuietStep ==
    ASSUME SinkInv, SinkTypeInv', HoldsFewer, UNCHANGED <<records, taken, stored, buf, lost>>, TableGrows,
           (UNCHANGED table /\ HoldsSent) \/ incidents' \cap {"overlap", "unacked", "restart"} # {},
           incidents \subseteq incidents',
           incidents' \cap {"overlap", "stop_backlog", "stop_outage"} = {} => StopDrains'
    PROVE  SinkInv'
<1>1. RowsTaken'
  BY DEF SinkInv, RowsTaken, HoldsFewer
<1>2. Ana!RowsKept'
  <2> SUFFICES ASSUME incidents' \cap {"overlap", "stop_backlog", "stop_outage"} = {},
                      NEW s \in Ana!Streams, NEW i \in 1..taken[s], Ana!Flattened(records[s][i])
               PROVE  Ana!Contains(buf[s], i) \/ table'[s][i] > 0 \/ <<s, i>> \in lost
    BY DEF Ana!RowsKept
  <2>1. Ana!Contains(buf[s], i) \/ table[s][i] > 0 \/ <<s, i>> \in lost
    BY DEF SinkInv, Ana!RowsKept
  <2>2. i \in 1..Ana!Limit(s)
    BY RowIsWithin DEF SinkInv
  <2> QED
    BY <2>1, <2>2 DEF TableGrows
<1>3. Ana!Apart' => Exclusive' /\ RowsAhead' /\ BufferGrows'
  <2> SUFFICES ASSUME Ana!Apart' PROVE Exclusive' /\ RowsAhead' /\ BufferGrows'
    OBVIOUS
  <2>1. Exclusive /\ RowsAhead /\ BufferGrows
    BY DEF Ana!Apart, SinkInv
  <2>2. Exclusive'
    BY <2>1 DEF Exclusive, HoldsFewer
  <2>3. RowsAhead'
    <3> SUFFICES ASSUME NEW f \in Ana!Flushers, NEW s \in Ana!Streams, Holds(f, s)'
                 PROVE  /\ Len(flusher'[f].rows) <= Len(buf[s])
                        /\ \A k \in 1..Len(flusher'[f].rows) :
                             flusher'[f].rows[k] = buf[s][k] /\ (flusher'[f].sent => table'[s][flusher'[f].rows[k]] > 0)
      BY DEF RowsAhead
    <3>1. Holds(f, s) /\ flusher'[f].rows = flusher[f].rows /\ flusher'[f].sent = flusher[f].sent
      BY DEF HoldsFewer
    <3>2. /\ Len(flusher[f].rows) <= Len(buf[s])
          /\ \A k \in 1..Len(flusher[f].rows) :
               flusher[f].rows[k] = buf[s][k] /\ (flusher[f].sent => table[s][flusher[f].rows[k]] > 0)
      BY <2>1, <3>1 DEF RowsAhead
    <3>3. \A k \in 1..Len(flusher[f].rows) : flusher[f].rows[k] \in 1..taken[s]
      BY <3>1 DEF SinkInv, RowsTaken
    <3>4. \A k \in 1..Len(flusher[f].rows) : flusher[f].rows[k] \in 1..Ana!Limit(s)
      BY <3>3, RowIsWithin DEF SinkInv
    <3> QED
      BY <3>1, <3>2, <3>4 DEF TableGrows
  <2> QED
    BY <2>1, <2>2, <2>3 DEF BufferGrows
<1>4. incidents' \cap {"overlap", "unacked", "restart"} = {} => OnceWritten'
  <2> SUFFICES ASSUME incidents' \cap {"overlap", "unacked", "restart"} = {} PROVE OnceWritten'
    OBVIOUS
  <2> UNCHANGED table /\ HoldsSent
    OBVIOUS
  <2>1. OnceWritten
    BY DEF SinkInv
  <2> SUFFICES ASSUME NEW s \in Ana!Streams, NEW i \in 1..Ana!Limit(s)
               PROVE  /\ table[s][i] <= 1 /\ (i > taken[s] => table[s][i] = 0)
                      /\ Ana!Contains(buf[s], i) /\ table[s][i] > 0 =>
                           \E f \in Ana!Flushers : Holds(f, s)' /\ flusher'[f].sent /\ Ana!Contains(flusher'[f].rows, i)
    BY DEF OnceWritten
  <2>2. ASSUME Ana!Contains(buf[s], i), table[s][i] > 0
        PROVE \E f \in Ana!Flushers : Holds(f, s)' /\ flusher'[f].sent /\ Ana!Contains(flusher'[f].rows, i)
    <3>1. PICK f \in Ana!Flushers : Holds(f, s) /\ flusher[f].sent /\ Ana!Contains(flusher[f].rows, i)
      BY <2>1, <2>2 DEF OnceWritten
    <3>2. flusher'[f] = flusher[f]
      BY <3>1 DEF HoldsSent
    <3>3. Holds(f, s)'
      BY <3>1, <3>2 DEF Holds
    <3> QED
      BY <3>1, <3>2, <3>3
  <2> QED
    BY <2>1, <2>2 DEF OnceWritten
<1> QED
  BY <1>1, <1>2, <1>3, <1>4 DEF SinkInv

(* A flush that starts, is over or passes to its next buffer keeps no rows.*)
LEMMA FlushTurns ==
    ASSUME SinkTypeInv, NEW f \in Ana!Flushers, NEW fl \in SinkFlushes, fl.rows = <<>>, fl.sent = FALSE,
           flusher' = [flusher EXCEPT ![f] = fl]
    PROVE  /\ flusher' \in [Ana!Flushers -> SinkFlushes]
           /\ \A g \in Ana!Flushers : /\ flusher'[g].todo = <<>> => flusher'[g].rows = <<>>
                                      /\ flusher'[g].sent => flusher'[g].rows # <<>>
           /\ HoldsFewer /\ flusher'[f] = fl /\ \A g \in Ana!Flushers \ {f} : flusher'[g] = flusher[g]
           /\ flusher[f].sent = FALSE => HoldsSent
<1>1. flusher'[f] = fl /\ \A g \in Ana!Flushers \ {f} : flusher'[g] = flusher[g]
  BY DEF SinkTypeInv
<1>2. flusher' \in [Ana!Flushers -> SinkFlushes]
  BY DEF SinkTypeInv
<1>3. HoldsFewer
  BY <1>1 DEF HoldsFewer, Holds
<1>4. flusher[f].sent = FALSE => HoldsSent
  BY <1>1 DEF HoldsSent
<1> QED
  BY <1>1, <1>2, <1>3, <1>4 DEF SinkTypeInv


(* A buffer that is dealt with is no longer due, the others are.           *)
LEMMA DueOn ==
    ASSUME SinkTypeInv, NEW f \in Ana!Flushers, flusher[f].todo # <<>>,
           flusher'[f].todo = IF flusher[f].todo = <<"events", "clicks">> THEN <<"clicks">> ELSE <<>>
    PROVE  \A s \in Ana!Streams : Due(f, s) => Due(f, s)' \/ s = Head(flusher[f].todo)
<1> SUFFICES ASSUME NEW s \in Ana!Streams, Due(f, s), s # Head(flusher[f].todo) PROVE Due(f, s)'
  OBVIOUS
<1>1. flusher[f].todo # <<"clicks">>
  BY TodoFacts DEF Due
<1>2. flusher[f].todo = <<"events", "clicks">> /\ s # "events"
  BY <1>1, TodoFacts DEF Due
<1>3. s = "clicks" /\ flusher'[f].todo = <<"clicks">>
  BY <1>2 DEF Ana!Streams
<1> QED
  BY <1>3 DEF Due

(* What a shutdown leaves only shrinks while the flushes that are due stay *)
(* due and no row is copied.                                               *)
LEMMA DrainsOn ==
    ASSUME SinkTypeInv, StopDrains, HoldsFewer, mode' = mode, buf' = buf,
           \A f \in {"ticker", "closer"}, s \in Ana!Streams : Due(f, s) => Due(f, s)' \/ Len(buf[s]) = 0
    PROVE  StopDrains'
<1>1. "ticker" \in Ana!Flushers /\ "closer" \in Ana!Flushers
  BY DEF Ana!Flushers
<1>2. BatchSize \in Nat
  BY StorefrontConstants
<1> SUFFICES ASSUME NEW s \in Ana!Streams
             PROVE  /\ mode = "stopping" => Len(buf[s]) <= 2 * BatchSize
                    /\ mode = "draining" => /\ Len(buf[s]) <= 2 * BatchSize
                                            /\ ~Due("ticker", s)' => Len(buf[s]) <= BatchSize
                                            /\ Holds("ticker", s)' => LeftOf("ticker", s)' <= BatchSize
                    /\ mode = "closing" => /\ Len(buf[s]) <= BatchSize
                                           /\ ~Due("closer", s)' => Len(buf[s]) = 0
                                           /\ Holds("closer", s)' => LeftOf("closer", s)' = 0
  BY DEF StopDrains
<1>3. ASSUME NEW f \in Ana!Flushers, Holds(f, s)' PROVE Holds(f, s) /\ LeftOf(f, s)' = LeftOf(f, s)
  BY <1>3 DEF HoldsFewer, LeftOf
<1> QED
  BY <1>1, <1>2, <1>3 DEF StopDrains

(* SIGTERM, the ticker, the last flush and the closing one.                *)
LEMMA ShutdownKeeps ==
    ASSUME SinkInv, Ana!Terminate \/ Ana!Tick \/ Ana!LastFlush \/ Ana!Close
    PROVE  SinkInv'
<1> USE DEF Ana!Terminate, Ana!Tick, Ana!LastFlush, Ana!Close
<1>1. SinkTypeInv /\ RowsTaken
  BY DEF SinkInv
<1>2. UNCHANGED <<records, taken, stored, buf, table, lost, degraded, anFaults>> /\ TableGrows
  BY DEF TableGrows
<1>3. incidents \subseteq incidents' /\ incidents' \subseteq Ana!Incidents /\ mode' \in {"up", "stopping", "draining", "closing"}
  BY <1>1 DEF SinkTypeInv, Ana!Incidents
<1>4. \/ flusher' = flusher
      \/ \E f \in {"ticker", "closer"} : flusher[f].todo = <<>> /\ flusher' = [flusher EXCEPT ![f] = Ana!Flush]
  BY DEF Ana!IsIdle, Ana!Flushers
<1>5. /\ flusher' \in [Ana!Flushers -> SinkFlushes] /\ HoldsFewer /\ HoldsSent
      /\ \A g \in Ana!Flushers : /\ flusher'[g].todo = <<>> => flusher'[g].rows = <<>>
                                 /\ flusher'[g].sent => flusher'[g].rows # <<>>
  <2>1. CASE flusher' = flusher
    BY <1>1, <2>1 DEF SinkTypeInv, HoldsFewer, HoldsSent, Holds
  <2>2. CASE flusher' # flusher
    <3>1. PICK f \in {"ticker", "closer"} : flusher[f].todo = <<>> /\ flusher' = [flusher EXCEPT ![f] = Ana!Flush]
      BY <1>4, <2>2
    <3>2. f \in Ana!Flushers
      BY DEF Ana!Flushers
    <3>3. flusher[f].sent = FALSE
      BY <1>1, <3>1, <3>2 DEF SinkTypeInv, SinkFlushes
    <3> QED
      BY <1>1, <3>1, <3>2, <3>3, FlushTurns, FlushesTyped
  <2> QED
    BY <2>1, <2>2
<1>6. SinkTypeInv'
  BY <1>1, <1>2, <1>3, <1>5 DEF SinkTypeInv
<1>7. incidents' \cap {"overlap", "stop_backlog", "stop_outage"} = {} => StopDrains'
  <2> SUFFICES ASSUME incidents' \cap {"overlap", "stop_backlog", "stop_outage"} = {} PROVE StopDrains'
    OBVIOUS
  <2>1. StopDrains
    BY <1>3 DEF SinkInv
  <2>2. "ticker" \in Ana!Flushers /\ "closer" \in Ana!Flushers /\ BatchSize \in Nat
    BY StorefrontConstants DEF Ana!Flushers
  <2>3. CASE Ana!Terminate
    <3>1. \A s \in Ana!Streams : ~(Len(buf[s]) > 2 * BatchSize)
      BY <2>3
    <3>2. \A s \in Ana!Streams : Len(buf[s]) \in Nat
      BY <1>1 DEF SinkTypeInv
    <3> QED
      BY <1>2, <2>2, <2>3, <3>1, <3>2 DEF StopDrains
  <2>4. CASE Ana!Tick
    BY <2>4 DEF StopDrains
  <2>5. ASSUME NEW f \in Ana!Flushers, flusher' = [flusher EXCEPT ![f] = Ana!Flush]
        PROVE  \A s \in Ana!Streams : Due(f, s)' /\ ~Holds(f, s)'
    <3>1. flusher'[f] = Ana!Flush
      BY <1>1, <2>5 DEF SinkTypeInv
    <3> QED
      BY <3>1, FlushesTyped DEF Due, Holds
  <2>6. CASE Ana!LastFlush
    <3>1. \A s \in Ana!Streams : Due("ticker", s)' /\ ~Holds("ticker", s)'
      BY <2>2, <2>5, <2>6
    <3> QED
      BY <1>2, <2>1, <2>6, <3>1 DEF StopDrains
  <2>7. CASE Ana!Close
    <3>1. \A s \in Ana!Streams : Due("closer", s)' /\ ~Holds("closer", s)'
      BY <2>2, <2>5, <2>7
    <3>2. \A s \in Ana!Streams : ~Due("ticker", s)
      BY <2>2, <2>7, TodoFacts DEF Due, Ana!IsIdle
    <3> QED
      BY <1>2, <2>1, <2>7, <3>1, <3>2 DEF StopDrains
  <2> QED
    BY <2>3, <2>4, <2>6, <2>7
<1> QED
  BY <1>2, <1>3, <1>5, <1>6, <1>7, QuietStep

(* A flush that finds its buffer empty passes on.                          *)
LEMMA EmptyBufferKeeps ==
    ASSUME SinkInv, NEW f \in Ana!Flushers, ~Ana!IsIdle(f), flusher[f].rows = <<>>, Len(buf[Head(flusher[f].todo)]) = 0,
           Ana!NextBuffer(f, TRUE), UNCHANGED <<records, taken, stored, buf, table, mode, incidents, lost, anFaults>>
    PROVE  SinkInv'
<1>1. SinkTypeInv /\ RowsTaken /\ flusher[f].todo # <<>>
  BY DEF SinkInv, Ana!IsIdle
<1>2. degraded' \in BOOLEAN
  BY <1>1, NextBufferGives
<1>3. PICK fl \in SinkFlushes :
         /\ flusher' = [flusher EXCEPT ![f] = fl] /\ fl.rows = <<>> /\ fl.sent = FALSE
         /\ fl.todo = IF flusher[f].todo = <<"events", "clicks">> THEN <<"clicks">> ELSE <<>>
  BY <1>1, NextBufferGives
<1>4. flusher[f].sent = FALSE
  BY <1>1 DEF SinkTypeInv, SinkFlushes
<1>5. /\ flusher' \in [Ana!Flushers -> SinkFlushes] /\ HoldsFewer /\ HoldsSent
      /\ flusher'[f] = fl /\ \A g \in Ana!Flushers \ {f} : flusher'[g] = flusher[g]
  BY <1>1, <1>3, <1>4, FlushTurns
<1>6. \A g \in Ana!Flushers : /\ flusher'[g].todo = <<>> => flusher'[g].rows = <<>>
                              /\ flusher'[g].sent => flusher'[g].rows # <<>>
  BY <1>1, <1>3, FlushTurns
<1>7. SinkTypeInv'
  BY <1>1, <1>2, <1>5, <1>6 DEF SinkTypeInv
<1>8. incidents' \cap {"overlap", "stop_backlog", "stop_outage"} = {} => StopDrains'
  <2> SUFFICES ASSUME incidents' \cap {"overlap", "stop_backlog", "stop_outage"} = {} PROVE StopDrains'
    OBVIOUS
  <2>1. StopDrains
    BY DEF SinkInv
  <2>2. \A s \in Ana!Streams : Due(f, s) => Due(f, s)' \/ s = Head(flusher[f].todo)
    BY <1>1, <1>3, <1>5, DueOn
  <2>3. \A g \in Ana!Flushers, s \in Ana!Streams : Due(g, s) => Due(g, s)' \/ Len(buf[s]) = 0
    BY <1>5, <2>2 DEF Due
  <2>4. \A g \in {"ticker", "closer"}, s \in Ana!Streams : Due(g, s) => Due(g, s)' \/ Len(buf[s]) = 0
    BY <2>3 DEF Ana!Flushers
  <2> QED
    BY <1>1, <1>5, <2>1, <2>4, DrainsOn
<1>9. TableGrows
  BY DEF TableGrows
<1> QED
  BY <1>5, <1>7, <1>8, <1>9, QuietStep

(* What SendBatch writes.                                                  *)
LEMMA InsertedGives ==
    ASSUME SinkTypeInv, NEW s \in Ana!Streams, NEW batch \in Seq(Nat), table' = Ana!Inserted(s, batch)
    PROVE  /\ table' = [t \in Ana!Streams |-> table'[t]]
           /\ \A t \in Ana!Streams : table'[t] \in [1..Ana!Limit(t) -> 0..2]
           /\ TableGrows
           /\ \A t \in Ana!Streams : t # s => table'[t] = table[t]
           /\ \A i \in 1..Ana!Limit(s) :
                /\ Ana!Contains(batch, i) => table'[s][i] > 0 /\ (table[s][i] = 0 => table'[s][i] = 1)
                /\ ~Ana!Contains(batch, i) => table'[s][i] = table[s][i]
<1> DEFINE row == [i \in 1..Ana!Limit(s) |-> IF Ana!Contains(batch, i) THEN Ana!Min({table[s][i] + 1, 2}) ELSE table[s][i]]
<1>1. table[s] \in [1..Ana!Limit(s) -> 0..2] /\ DOMAIN table[s] = 1..Ana!Limit(s)
  BY DEF SinkTypeInv
<1>2. table' = [table EXCEPT ![s] = row]
  BY <1>1 DEF Ana!Inserted, Ana!MaxWritten
<1>3. ASSUME NEW i \in 1..Ana!Limit(s)
      PROVE  /\ row[i] \in 0..2 /\ (table[s][i] > 0 => row[i] > 0)
             /\ Ana!Contains(batch, i) => row[i] > 0 /\ (table[s][i] = 0 => row[i] = 1)
             /\ ~Ana!Contains(batch, i) => row[i] = table[s][i]
  <2>1. table[s][i] \in 0..2 /\ table[s][i] + 1 \in Nat
    <3>1. table[s][i] \in 0..2
      BY <1>1
    <3>2. ASSUME NEW w \in 0..2 PROVE w + 1 \in Nat
      OBVIOUS
    <3> QED
      BY <3>1, <3>2
  <2>2. Ana!Min({table[s][i] + 1, 2}) = IF table[s][i] + 1 <= 2 THEN table[s][i] + 1 ELSE 2
    BY <2>1, MinOfTwo
  <2> QED
    BY <2>1, <2>2
<1>4. row \in [1..Ana!Limit(s) -> 0..2]
  BY <1>3
<1> HIDE DEF row
<1>5. table'[s] = row /\ \A t \in Ana!Streams : t # s => table'[t] = table[t]
  BY <1>2 DEF SinkTypeInv
<1>6. table' = [t \in Ana!Streams |-> table'[t]]
  BY <1>2 DEF SinkTypeInv
<1>7. \A t \in Ana!Streams : table'[t] \in [1..Ana!Limit(t) -> 0..2]
  BY <1>4, <1>5 DEF SinkTypeInv
<1>8. TableGrows
  BY <1>3, <1>5 DEF TableGrows
<1> QED
  BY <1>3, <1>5, <1>6, <1>7, <1>8

(* A batch that fails.                                                     *)
LEMMA SendFailsKeeps ==
    ASSUME SinkInv, NEW f \in Ana!Flushers, Ana!SendBatchFails(f)
    PROVE  SinkInv'
<1> USE DEF Ana!SendBatchFails
<1>1. SinkTypeInv /\ RowsTaken /\ flusher[f].rows # <<>> /\ flusher[f].todo # <<>>
  BY DEF SinkInv, SinkTypeInv
<1>2. degraded' \in BOOLEAN
  BY <1>1, NextBufferGives
<1>3. PICK fl \in SinkFlushes :
         /\ flusher' = [flusher EXCEPT ![f] = fl] /\ fl.rows = <<>> /\ fl.sent = FALSE
         /\ fl.todo = IF flusher[f].todo = <<"events", "clicks">> THEN <<"clicks">> ELSE <<>>
  BY <1>1, NextBufferGives
<1>4. flusher[f].sent = FALSE /\ flusher[f].rows \in Seq(Nat) /\ flusher[f].todo \in SinkTodos
  BY <1>1 DEF SinkTypeInv, SinkFlushes
<1>5. /\ flusher' \in [Ana!Flushers -> SinkFlushes] /\ HoldsFewer /\ HoldsSent
      /\ \A g \in Ana!Flushers : /\ flusher'[g].todo = <<>> => flusher'[g].rows = <<>>
                                 /\ flusher'[g].sent => flusher'[g].rows # <<>>
  BY <1>1, <1>3, <1>4, FlushTurns
<1>6. PICK s \in Ana!Streams : s = Head(flusher[f].todo)
  BY <1>1, <1>4, TodoFacts
<1>7. PICK arrived \in BOOLEAN :
         /\ table' = IF arrived THEN Ana!Inserted(s, flusher[f].rows) ELSE table
         /\ incidents' = incidents \cup {x \in {"unacked", "stop_outage"} :
                                           (x = "unacked" /\ arrived) \/ (x = "stop_outage" /\ mode # "up")}
  BY <1>6
<1>8. /\ table' = [t \in Ana!Streams |-> table'[t]] /\ TableGrows
      /\ \A t \in Ana!Streams : table'[t] \in [1..Ana!Limit(t) -> 0..2]
  <2>1. CASE arrived
    BY <1>1, <1>4, <1>7, <2>1, InsertedGives
  <2>2. CASE ~arrived
    BY <1>1, <1>7, <2>2 DEF SinkTypeInv, TableGrows
  <2> QED
    BY <2>1, <2>2
<1>9. incidents \subseteq incidents' /\ incidents' \subseteq Ana!Incidents
  BY <1>1, <1>7 DEF SinkTypeInv, Ana!Incidents
<1>10. anFaults' \in 0..MaxSinkFaults /\ UNCHANGED <<records, taken, stored, buf, mode, lost>>
  <2>1. MaxSinkFaults \in Nat /\ anFaults \in 0..MaxSinkFaults /\ anFaults < MaxSinkFaults /\ anFaults' = anFaults + 1
    BY <1>1, StorefrontBounds DEF Ana!AnFault, SinkTypeInv
  <2> QED
    BY <2>1
<1>11. SinkTypeInv'
  BY <1>1, <1>2, <1>5, <1>8, <1>9, <1>10 DEF SinkTypeInv
<1>12. incidents' \cap {"overlap", "stop_backlog", "stop_outage"} = {} => StopDrains'
  <2> SUFFICES ASSUME incidents' \cap {"overlap", "stop_backlog", "stop_outage"} = {} PROVE StopDrains'
    OBVIOUS
  <2>1. mode' = "up"
    BY <1>7, <1>10
  <2> QED
    BY <2>1 DEF StopDrains
<1>13. (UNCHANGED table /\ HoldsSent) \/ incidents' \cap {"overlap", "unacked", "restart"} # {}
  BY <1>5, <1>7
<1> QED
  BY <1>5, <1>8, <1>9, <1>10, <1>11, <1>12, <1>13, QuietStep

(* The topics grow: what was published stays as it is.                     *)
LEMMA TopicsGrow ==
    ASSUME SinkInv, NEW s \in Ana!Streams, NEW more \in Seq(SinkRecords),
           records' = [records EXCEPT ![s] = @ \o more], Ana!Fits(records'),
           UNCHANGED <<taken, stored, buf, table, flusher, degraded, mode, incidents, lost>>, anFaults' \in 0..MaxSinkFaults
    PROVE  SinkInv'
<1>1. SinkTypeInv /\ RowsTaken
  BY DEF SinkInv
<1>2. records' \in [Ana!Streams -> Seq(SinkRecords)]
  BY <1>1 DEF SinkTypeInv
<1>3. ASSUME NEW t \in Ana!Streams
      PROVE  /\ Len(records'[t]) \in Nat /\ Len(records[t]) \in Nat /\ Len(records[t]) <= Len(records'[t])
             /\ \A i \in 1..Len(records[t]) : records'[t][i] = records[t][i]
  <2>1. CASE t = s
    <3>1. records[t] \in Seq(SinkRecords) /\ records'[t] = records[t] \o more
      BY <1>1, <2>1 DEF SinkTypeInv
    <3> QED
      BY <3>1
  <2>2. CASE t # s
    BY <1>1, <2>2 DEF SinkTypeInv
  <2> QED
    BY <2>1, <2>2
<1>4. ASSUME NEW t \in Ana!Streams PROVE Len(records'[t]) <= Ana!Limit(t)
  <2>1. PICK l \in Loads : Len(records'[t]) <= l[t]
    BY DEF Ana!Fits
  <2> QED
    BY <1>3, <2>1, LimitBounds
<1>5. SinkTypeInv'
  BY <1>1, <1>2 DEF SinkTypeInv
<1>6. ASSUME NEW t \in Ana!Streams, NEW i \in 1..taken[t] PROVE records'[t][i] = records[t][i]
  BY <1>1, <1>3, RowIsWithin
<1>7. RowsTaken'
  <2> SUFFICES ASSUME NEW t \in Ana!Streams
               PROVE  /\ Len(records'[t]) <= Ana!Limit(t) /\ stored[t] <= taken[t] /\ taken[t] <= Len(records'[t]) /\ Len(buf[t]) <= MaxBuffer
                      /\ \A i \in 1..Len(buf[t]) : buf[t][i] \in 1..taken[t] /\ Ana!Flattened(records'[t][buf[t][i]])
                      /\ \A f \in Ana!Flushers : Holds(f, t)' => \A k \in 1..Len(flusher[f].rows) : flusher[f].rows[k] \in 1..taken[t]
    BY DEF RowsTaken
  <2>1. taken[t] <= Len(records'[t])
    <3>1. taken[t] <= Len(records[t]) /\ taken[t] \in Nat
      BY <1>1 DEF RowsTaken, SinkTypeInv
    <3> QED
      BY <1>3, <3>1
  <2>2. \A f \in Ana!Flushers : Holds(f, t)' => Holds(f, t)
    BY DEF Holds
  <2>3. \A i \in 1..Len(buf[t]) : buf[t][i] \in 1..taken[t] /\ Ana!Flattened(records'[t][buf[t][i]])
    BY <1>1, <1>6 DEF RowsTaken
  <2> QED
    BY <1>1, <1>4, <2>1, <2>2, <2>3 DEF RowsTaken
<1>8. Ana!RowsKept'
  BY <1>6 DEF SinkInv, Ana!RowsKept
<1>9. /\ Ana!Apart' <=> Ana!Apart
      /\ (Exclusive => Exclusive') /\ (RowsAhead => RowsAhead') /\ (BufferGrows => BufferGrows')
      /\ (StopDrains => StopDrains') /\ (OnceWritten => OnceWritten')
  BY DEF Ana!Apart, Exclusive, RowsAhead, BufferGrows, StopDrains, OnceWritten, Holds, Due, LeftOf
<1> QED
  BY <1>5, <1>7, <1>8, <1>9 DEF SinkInv

(* An order event, and the events of a beacon.                             *)
LEMMA PublishKeeps ==
    ASSUME SinkInv, Ana!FunnelEvent("fact") \/ \E b \in Ana!Beacons : Ana!IngestEvents(b)
    PROVE  SinkInv'
<1>1. SinkTypeInv /\ "events" \in Ana!Streams /\ "clicks" \in Ana!Streams
  BY DEF SinkInv, Ana!Streams
<1>2. CASE Ana!FunnelEvent("fact")
  <2>1. records["events"] \in Seq(SinkRecords) /\ "fact" \in SinkRecords
    BY <1>1 DEF SinkTypeInv, SinkRecords
  <2>2. PICK more : more = <<"fact">> /\ more \in Seq(SinkRecords)
    <3>1. <<"fact">> \in Seq(SinkRecords)
      BY <2>1
    <3> QED
      BY <3>1, Zenon
  <2>3. Append(records["events"], "fact") = records["events"] \o more
    BY <2>1, <2>2
  <2>4. records' = [records EXCEPT !["events"] = @ \o more] /\ anFaults' \in 0..MaxSinkFaults
    BY <1>1, <1>2, <2>3 DEF Ana!FunnelEvent, SinkTypeInv
  <2> QED
    BY <1>1, <1>2, <2>2, <2>4, TopicsGrow DEF Ana!FunnelEvent
<1>3. ASSUME NEW b \in Ana!Beacons, Ana!IngestEvents(b) PROVE SinkInv'
  <2> DEFINE known == Ana!Cardinality({k \in 1..Ana!Min({Len(b), MaxBeacon}) : Ana!Flattened(b[k])})
  <2>1. known \in Nat
    <3>1. Len(b) \in Nat /\ MaxBeacon \in Nat
      BY <1>3, StorefrontBounds DEF Ana!Beacons
    <3>2. PICK m \in Nat : m = Ana!Min({Len(b), MaxBeacon})
      BY <3>1, MinOfTwo
    <3>3. IsFiniteSet(1..m)
      BY FS_Interval
    <3>4. PICK S : S = {k \in 1..m : Ana!Flattened(b[k])}
      OBVIOUS
    <3>5. IsFiniteSet(S)
      BY <3>3, <3>4, FS_Subset
    <3>6. Cardinality(S) \in Nat
      BY <3>5, FS_CardinalityType
    <3>7. Ana!Cardinality(S) = Cardinality(S)
      BY DEF Ana!Cardinality, Cardinality
    <3> QED
      BY <3>2, <3>4, <3>6, <3>7
  <2>2. PICK n \in 0..known :
           /\ records' = [records EXCEPT !["clicks"] = @ \o [k \in 1..n |-> "fact"]]
           /\ Ana!Fits(records')
           /\ IF n < known THEN Ana!AnFault ELSE UNCHANGED anFaults
           /\ UNCHANGED <<taken, stored, buf, table, flusher, degraded, mode, incidents, lost>>
    BY <1>3 DEF Ana!IngestEvents
  <2>3. n \in Nat
    BY <2>1
  <2> HIDE DEF known
  <2>4. PICK more : more = [k \in 1..n |-> "fact"] /\ more \in Seq(SinkRecords)
    <3>1. "fact" \in SinkRecords
      BY DEF SinkRecords
    <3>2. [k \in 1..n |-> "fact"] \in [1..n -> SinkRecords]
      BY <3>1
    <3>3. [k \in 1..n |-> "fact"] \in Seq(SinkRecords)
      BY <2>3, <3>2, SeqDef
    <3> QED
      BY <3>3, Zenon
  <2>5. anFaults' \in 0..MaxSinkFaults
    <3>1. anFaults \in 0..MaxSinkFaults /\ MaxSinkFaults \in Nat
      BY <1>1, StorefrontBounds DEF SinkTypeInv
    <3>2. anFaults' = anFaults \/ (anFaults < MaxSinkFaults /\ anFaults' = anFaults + 1)
      BY <2>2 DEF Ana!AnFault
    <3> QED
      BY <3>1, <3>2
  <2> QED
    BY <1>1, <2>2, <2>4, <2>5, TopicsGrow
<1> QED
  BY <1>2, <1>3

(* Offsets are committed up to what was taken.                             *)
LEMMA CommitKeeps ==
    ASSUME SinkInv, NEW s \in Ana!Streams, Ana!CommitOffsets(s)
    PROVE  SinkInv'
<1> USE DEF Ana!CommitOffsets
<1>1. SinkTypeInv /\ RowsTaken
  BY DEF SinkInv
<1>2. stored' \in [Ana!Streams -> Nat] /\ \A t \in Ana!Streams : stored'[t] <= taken[t]
  <2>1. stored'[s] = taken[s] /\ \A t \in Ana!Streams : t # s => stored'[t] = stored[t]
    BY <1>1 DEF SinkTypeInv
  <2> QED
    BY <1>1, <2>1 DEF SinkTypeInv, RowsTaken
<1>3. SinkTypeInv'
  BY <1>1, <1>2 DEF SinkTypeInv
<1>4. RowsTaken'
  BY <1>1, <1>2 DEF RowsTaken, Holds
<1>5. Ana!RowsKept'
  BY DEF SinkInv, Ana!RowsKept
<1>6. /\ Ana!Apart' <=> Ana!Apart
      /\ (Exclusive => Exclusive') /\ (RowsAhead => RowsAhead') /\ (BufferGrows => BufferGrows')
      /\ (StopDrains => StopDrains') /\ (OnceWritten => OnceWritten')
  BY DEF Ana!Apart, Exclusive, RowsAhead, BufferGrows, StopDrains, OnceWritten, Holds, Due, LeftOf
<1> QED
  BY <1>3, <1>4, <1>5, <1>6 DEF SinkInv

(* A record that makes no row is skipped.                                  *)
LEMMA SkipKeeps ==
    ASSUME SinkInv, NEW s \in Ana!Streams, mode = "up", taken[s] + 1 <= Len(records[s]), ~Ana!Flattened(records[s][taken[s] + 1]),
           taken' = [taken EXCEPT ![s] = taken[s] + 1],
           UNCHANGED <<records, stored, buf, table, flusher, degraded, mode, incidents, lost, anFaults>>
    PROVE  SinkInv'
<1>1. SinkTypeInv /\ RowsTaken
  BY DEF SinkInv
<1>2. /\ taken' \in [Ana!Streams -> Nat] /\ taken'[s] = taken[s] + 1 /\ \A t \in Ana!Streams : t # s => taken'[t] = taken[t]
      /\ \A t \in Ana!Streams : taken[t] \in Nat /\ stored[t] \in Nat
  BY <1>1 DEF SinkTypeInv
<1>3. \A t \in Ana!Streams : taken[t] <= taken'[t] /\ taken'[t] <= Len(records[t])
  BY <1>1, <1>2 DEF RowsTaken
<1>4. \A t \in Ana!Streams : \A i \in 1..taken[t] : i \in 1..taken'[t]
  BY <1>2, <1>3
<1>5. SinkTypeInv'
  BY <1>1, <1>2 DEF SinkTypeInv
<1>6. RowsTaken'
  <2> SUFFICES ASSUME NEW t \in Ana!Streams
               PROVE  /\ Len(records[t]) <= Ana!Limit(t) /\ stored[t] <= taken'[t] /\ taken'[t] <= Len(records[t]) /\ Len(buf[t]) <= MaxBuffer
                      /\ \A i \in 1..Len(buf[t]) : buf[t][i] \in 1..taken'[t] /\ Ana!Flattened(records[t][buf[t][i]])
                      /\ \A f \in Ana!Flushers : Holds(f, t)' => \A k \in 1..Len(flusher[f].rows) : flusher[f].rows[k] \in 1..taken'[t]
    BY DEF RowsTaken
  <2>1. stored[t] <= taken'[t]
    BY <1>1, <1>2, <1>3 DEF RowsTaken
  <2>2. \A f \in Ana!Flushers : Holds(f, t)' => Holds(f, t)
    BY DEF Holds
  <2>3. /\ Len(records[t]) <= Ana!Limit(t) /\ Len(buf[t]) <= MaxBuffer
        /\ \A i \in 1..Len(buf[t]) : buf[t][i] \in 1..taken[t] /\ Ana!Flattened(records[t][buf[t][i]])
        /\ \A f \in Ana!Flushers : Holds(f, t) => \A k \in 1..Len(flusher[f].rows) : flusher[f].rows[k] \in 1..taken[t]
    BY <1>1 DEF RowsTaken
  <2> QED
    BY <1>3, <1>4, <2>1, <2>2, <2>3
<1>7. \A t \in Ana!Streams : \A i \in 1..taken'[t] : i \in 1..taken[t] \/ (t = s /\ i = taken[s] + 1)
  BY <1>2
<1>8. Ana!RowsKept'
  BY <1>7 DEF SinkInv, Ana!RowsKept
<1>9. OnceWritten => OnceWritten'
  <2> SUFFICES ASSUME OnceWritten PROVE OnceWritten'
    OBVIOUS
  <2>1. \A t \in Ana!Streams : Ana!Limit(t) \in Nat
    BY LimitBounds
  <2>2. \A t \in Ana!Streams : \A i \in 1..Ana!Limit(t) : i > taken'[t] => i > taken[t]
    BY <1>2, <1>3, <2>1
  <2> QED
    BY <2>2 DEF OnceWritten, Holds
<1>10. /\ Ana!Apart' <=> Ana!Apart
       /\ (Exclusive => Exclusive') /\ (RowsAhead => RowsAhead') /\ (BufferGrows => BufferGrows') /\ (StopDrains => StopDrains')
  BY DEF Ana!Apart, Exclusive, RowsAhead, BufferGrows, StopDrains, Holds, Due, LeftOf
<1> QED
  BY <1>5, <1>6, <1>8, <1>9, <1>10 DEF SinkInv

(* A record that makes a row goes to the end of the buffer.                *)
LEMMA AddRowKeeps ==
    ASSUME SinkInv, NEW s \in Ana!Streams, mode = "up", Ana!IsIdle(s), taken[s] + 1 <= Len(records[s]),
           Ana!Flattened(records[s][taken[s] + 1]), Ana!AddRow(s, taken[s] + 1),
           UNCHANGED <<records, stored, table, mode, incidents, lost, anFaults>>
    PROVE  SinkInv'
<1> DEFINE new == taken[s] + 1  n == Len(buf[s])
<1>1. SinkTypeInv /\ RowsTaken
  BY DEF SinkInv
<1>2. /\ buf' = [buf EXCEPT ![s] = Append(@, new)] /\ n < MaxBuffer
      /\ taken' = [taken EXCEPT ![s] = new] /\ degraded' = degraded
      /\ flusher' = flusher \/ flusher' = [flusher EXCEPT ![s] = Ana!Flush]
  BY DEF Ana!AddRow
<1>3. /\ \A t \in Ana!Streams : taken[t] \in Nat /\ stored[t] \in Nat /\ buf[t] \in Seq(Nat) /\ Len(buf[t]) \in Nat
      /\ new \in Nat /\ n \in Nat /\ s \in Ana!Flushers
  BY <1>1 DEF SinkTypeInv, Ana!Streams, Ana!Flushers
<1>4. /\ taken' \in [Ana!Streams -> Nat] /\ taken'[s] = new /\ \A t \in Ana!Streams : t # s => taken'[t] = taken[t]
  BY <1>1, <1>2, <1>3 DEF SinkTypeInv
<1>5. /\ buf' \in [Ana!Streams -> Seq(Nat)] /\ \A t \in Ana!Streams : t # s => buf'[t] = buf[t]
      /\ buf'[s] = Append(buf[s], new)
  BY <1>1, <1>2, <1>3 DEF SinkTypeInv
<1>6. /\ Len(buf'[s]) = n + 1 /\ buf'[s][n + 1] = new /\ \A k \in 1..n : buf'[s][k] = buf[s][k]
  BY <1>3, <1>5
<1> HIDE DEF n, new
<1>7. /\ flusher' \in [Ana!Flushers -> SinkFlushes]
      /\ \A g \in Ana!Flushers : /\ flusher'[g].todo = <<>> => flusher'[g].rows = <<>>
                                 /\ flusher'[g].sent => flusher'[g].rows # <<>>
      /\ HoldsFewer /\ HoldsSent
  <2>1. CASE flusher' = flusher
    BY <1>1, <2>1 DEF SinkTypeInv, HoldsFewer, HoldsSent, Holds
  <2>2. CASE flusher' = [flusher EXCEPT ![s] = Ana!Flush]
    <3>1. flusher[s].sent = FALSE
      BY <1>1, <1>3 DEF SinkTypeInv, SinkFlushes, Ana!IsIdle
    <3> QED
      BY <1>1, <1>3, <2>2, <3>1, FlushTurns, FlushesTyped
  <2> QED
    BY <1>2, <2>1, <2>2
<1>8. SinkTypeInv'
  BY <1>1, <1>2, <1>4, <1>5, <1>7 DEF SinkTypeInv
<1>9. \A t \in Ana!Streams : \A i \in 1..taken[t] : i \in 1..taken'[t]
  BY <1>3, <1>4 DEF new
<1>10. new \in 1..taken'[s] /\ taken'[s] <= Len(records[s])
  BY <1>3, <1>4 DEF new
<1>11. ASSUME NEW f \in Ana!Flushers, NEW t \in Ana!Streams, Holds(f, t)'
       PROVE  Holds(f, t) /\ flusher'[f].rows = flusher[f].rows /\ flusher'[f].sent = flusher[f].sent
  BY <1>7, <1>11 DEF HoldsFewer
<1>12. RowsTaken'
  <2> SUFFICES ASSUME NEW t \in Ana!Streams
               PROVE  /\ Len(records[t]) <= Ana!Limit(t) /\ stored[t] <= taken'[t] /\ taken'[t] <= Len(records[t]) /\ Len(buf'[t]) <= MaxBuffer
                      /\ \A i \in 1..Len(buf'[t]) : buf'[t][i] \in 1..taken'[t] /\ Ana!Flattened(records[t][buf'[t][i]])
                      /\ \A f \in Ana!Flushers : Holds(f, t)' => \A k \in 1..Len(flusher'[f].rows) : flusher'[f].rows[k] \in 1..taken'[t]
    BY DEF RowsTaken
  <2>1. Len(records[t]) <= Ana!Limit(t) /\ stored[t] <= taken[t] /\ Len(buf[t]) <= MaxBuffer /\ taken[t] <= Len(records[t])
    BY <1>1 DEF RowsTaken
  <2>2. stored[t] <= taken'[t] /\ taken'[t] <= Len(records[t])
    BY <1>3, <1>4, <1>10, <2>1 DEF new
  <2>3. \A i \in 1..Len(buf[t]) : buf[t][i] \in 1..taken'[t] /\ Ana!Flattened(records[t][buf[t][i]])
    BY <1>1, <1>9 DEF RowsTaken
  <2>4. Len(buf'[t]) <= MaxBuffer /\ \A i \in 1..Len(buf'[t]) : buf'[t][i] \in 1..taken'[t] /\ Ana!Flattened(records[t][buf'[t][i]])
    <3>1. CASE t = s
      <4>1. n + 1 <= MaxBuffer
        BY <1>2, <1>3, StorefrontConstants
      <4>2. \A i \in 1..(n + 1) : i \in 1..n \/ i = n + 1
        BY <1>3
      <4>3. Ana!Flattened(records[s][new])
        BY DEF new
      <4> QED
        BY <1>6, <1>10, <2>3, <3>1, <4>1, <4>2, <4>3 DEF n
    <3>2. CASE t # s
      BY <1>5, <2>1, <2>3, <3>2
    <3> QED
      BY <3>1, <3>2
  <2>5. \A f \in Ana!Flushers : Holds(f, t) => \A k \in 1..Len(flusher[f].rows) : flusher[f].rows[k] \in 1..taken[t]
    BY <1>1 DEF RowsTaken
  <2> QED
    BY <1>9, <1>11, <2>1, <2>2, <2>4, <2>5
<1>13. ASSUME NEW t \in Ana!Streams, NEW i, Ana!Contains(buf'[t], i) PROVE Ana!Contains(buf[t], i) \/ (t = s /\ i = new)
  <2>1. CASE t = s
    <3>1. PICK k \in 1..(n + 1) : buf'[s][k] = i
      BY <1>6, <1>13, <2>1 DEF Ana!Contains
    <3>2. k \in 1..n \/ k = n + 1
      BY <1>3
    <3> QED
      BY <1>6, <2>1, <3>1, <3>2 DEF n, Ana!Contains
  <2>2. CASE t # s
    BY <1>5, <1>13, <2>2
  <2> QED
    BY <2>1, <2>2
<1>14. ASSUME NEW t \in Ana!Streams, NEW i, Ana!Contains(buf[t], i) \/ (t = s /\ i = new) PROVE Ana!Contains(buf'[t], i)
  <2>1. CASE t = s
    <3>1. n + 1 \in 1..(n + 1) /\ \A k \in 1..n : k \in 1..(n + 1)
      BY <1>3
    <3> QED
      BY <1>6, <1>14, <2>1, <3>1 DEF n, Ana!Contains
  <2>2. CASE t # s
    BY <1>5, <1>14, <2>2
  <2> QED
    BY <2>1, <2>2
<1>15. Ana!RowsKept'
  <2> SUFFICES ASSUME incidents \cap {"overlap", "stop_backlog", "stop_outage"} = {},
                      NEW t \in Ana!Streams, NEW i \in 1..taken'[t], Ana!Flattened(records[t][i])
               PROVE  Ana!Contains(buf'[t], i) \/ table[t][i] > 0 \/ <<t, i>> \in lost
    BY DEF Ana!RowsKept
  <2>1. i \in 1..taken[t] \/ (t = s /\ i = new)
    BY <1>3, <1>4 DEF new
  <2> QED
    BY <1>14, <2>1 DEF SinkInv, Ana!RowsKept
<1>16. Ana!Apart => Exclusive' /\ RowsAhead' /\ BufferGrows'
  <2> SUFFICES ASSUME Ana!Apart PROVE Exclusive' /\ RowsAhead' /\ BufferGrows'
    OBVIOUS
  <2>1. Exclusive /\ RowsAhead /\ BufferGrows
    BY DEF SinkInv
  <2>2. Exclusive'
    BY <1>11, <2>1 DEF Exclusive
  <2>3. RowsAhead'
    <3> SUFFICES ASSUME NEW f \in Ana!Flushers, NEW t \in Ana!Streams, Holds(f, t)'
                 PROVE  /\ Len(flusher'[f].rows) <= Len(buf'[t])
                        /\ \A k \in 1..Len(flusher'[f].rows) :
                             flusher'[f].rows[k] = buf'[t][k] /\ (flusher'[f].sent => table[t][flusher'[f].rows[k]] > 0)
      BY DEF RowsAhead
    <3>1. Holds(f, t) /\ flusher'[f].rows = flusher[f].rows /\ flusher'[f].sent = flusher[f].sent
      BY <1>11
    <3>2. /\ Len(flusher[f].rows) <= Len(buf[t])
          /\ \A k \in 1..Len(flusher[f].rows) :
               flusher[f].rows[k] = buf[t][k] /\ (flusher[f].sent => table[t][flusher[f].rows[k]] > 0)
      BY <2>1, <3>1 DEF RowsAhead
    <3>3. Len(flusher[f].rows) \in Nat
      BY <1>1 DEF SinkTypeInv, SinkFlushes
    <3>4. CASE t = s
      <4>1. Len(flusher[f].rows) <= n
        BY <3>2, <3>4 DEF n
      <4>2. Len(flusher[f].rows) <= n + 1 /\ \A k \in 1..Len(flusher[f].rows) : k \in 1..n
        BY <1>3, <3>3, <4>1
      <4> QED
        BY <1>6, <3>1, <3>2, <3>4, <4>2
    <3>5. CASE t # s
      BY <1>5, <3>1, <3>2, <3>5
    <3> QED
      BY <3>4, <3>5
  <2>4. BufferGrows'
    <3> SUFFICES ASSUME NEW t \in Ana!Streams, NEW j \in 1..Len(buf'[t]), NEW k \in 1..Len(buf'[t]), j < k
                 PROVE  buf'[t][j] < buf'[t][k]
      BY DEF BufferGrows
    <3>1. CASE t = s
      <4>1. j \in 1..n /\ (k \in 1..n \/ k = n + 1)
        BY <1>3, <1>6, <3>1
      <4>2. buf[s][j] \in 1..taken[s] /\ (k \in 1..n => buf[s][j] < buf[s][k])
        BY <1>1, <2>1, <4>1 DEF RowsTaken, BufferGrows, n
      <4>3. buf[s][j] < new
        BY <1>3, <4>2 DEF new
      <4> QED
        BY <1>6, <3>1, <4>1, <4>2, <4>3
    <3>2. CASE t # s
      BY <1>5, <2>1, <3>2 DEF BufferGrows
    <3> QED
      BY <3>1, <3>2
  <2> QED
    BY <2>2, <2>3, <2>4
<1>17. OnceWritten => OnceWritten'
  <2> SUFFICES ASSUME OnceWritten PROVE OnceWritten'
    OBVIOUS
  <2> SUFFICES ASSUME NEW t \in Ana!Streams, NEW i \in 1..Ana!Limit(t)
               PROVE  /\ table[t][i] <= 1 /\ (i > taken'[t] => table[t][i] = 0)
                      /\ Ana!Contains(buf'[t], i) /\ table[t][i] > 0 =>
                           \E f \in Ana!Flushers : Holds(f, t)' /\ flusher'[f].sent /\ Ana!Contains(flusher'[f].rows, i)
    BY DEF OnceWritten
  <2>1. /\ table[t][i] <= 1 /\ (i > taken[t] => table[t][i] = 0)
    BY DEF OnceWritten
  <2>2. i \in Nat
    BY LimitBounds
  <2>3. i > taken'[t] => i > taken[t]
    BY <1>3, <1>4, <2>2 DEF new
  <2>4. ASSUME Ana!Contains(buf'[t], i), table[t][i] > 0
        PROVE  \E f \in Ana!Flushers : Holds(f, t)' /\ flusher'[f].sent /\ Ana!Contains(flusher'[f].rows, i)
    <3>1. ~(t = s /\ i = new)
      <4>1. table[t][i] # 0
        BY <1>1, <2>4 DEF SinkTypeInv
      <4> QED
        BY <1>3, <2>1, <4>1 DEF new
    <3>2. Ana!Contains(buf[t], i)
      BY <1>13, <2>4, <3>1
    <3>3. PICK f \in Ana!Flushers : Holds(f, t) /\ flusher[f].sent /\ Ana!Contains(flusher[f].rows, i)
      BY <2>4, <3>2 DEF OnceWritten
    <3>4. flusher'[f] = flusher[f]
      BY <1>7, <3>3 DEF HoldsSent
    <3> QED
      BY <3>3, <3>4 DEF Holds
  <2> QED
    BY <2>1, <2>3, <2>4
<1>18. StopDrains' /\ (Ana!Apart' <=> Ana!Apart)
  BY DEF StopDrains, Ana!Apart
<1> QED
  BY <1>8, <1>12, <1>15, <1>16, <1>17, <1>18 DEF SinkInv

(* The handler of either consumer: the record is skipped, becomes a row or *)
(* is refused.                                                             *)
LEMMA HandleKeeps ==
    ASSUME SinkInv, NEW s \in Ana!Streams, Ana!Handle(s)
    PROVE  SinkInv'
<1> USE DEF Ana!Handle
<1>1. SinkTypeInv
  BY DEF SinkInv
<1>2. CASE ~Ana!Flattened(records[s][taken[s] + 1])
  BY <1>2, SkipKeeps
<1>3. CASE Ana!Flattened(records[s][taken[s] + 1]) /\ Ana!AddRow(s, taken[s] + 1)
  BY <1>3, AddRowKeeps
<1>4. CASE Ana!Refuse(s)
  <2> USE DEF Ana!Refuse
  <2>1. UNCHANGED <<records, taken, stored, buf, table, flusher, mode, incidents, lost, anFaults>> /\ degraded' = TRUE
    BY <1>4
  <2>2. SinkTypeInv'
    BY <1>1, <2>1 DEF SinkTypeInv
  <2>3. HoldsFewer /\ HoldsSent /\ TableGrows /\ StopDrains'
    BY <2>1 DEF HoldsFewer, HoldsSent, TableGrows, StopDrains, Holds
  <2> QED
    BY <2>1, <2>2, <2>3, QuietStep
<1> QED
  BY <1>2, <1>3, <1>4

(* The first rows of a buffer.                                             *)
LEMMA FirstRows ==
    ASSUME NEW b \in Seq(Nat), NEW n \in Nat, n <= Len(b)
    PROVE  \E oldest \in Seq(Nat) :
             /\ oldest = SubSeq(b, 1, n) /\ Len(oldest) = n
             /\ \A k \in 1..n : oldest[k] = b[k] /\ k \in 1..Len(b)
<1>1. Len(b) \in Nat /\ \A k \in 1..n : k \in 1..Len(b) /\ b[k] \in Nat
  <2>1. Len(b) \in Nat /\ \A k \in 1..Len(b) : b[k] \in Nat
    OBVIOUS
  <2> QED
    BY <2>1
<1>2. /\ SubSeq(b, 1, n) \in Seq(Nat)
      /\ Len(SubSeq(b, 1, n)) = IF 1 <= n THEN n - 1 + 1 ELSE 0
      /\ \A i \in 1..(n - 1 + 1) : SubSeq(b, 1, n)[i] = b[1 + i - 1]
  BY <1>1, SubSeqProperties
<1>3. PICK r : r = SubSeq(b, 1, n)
  OBVIOUS
<1>4. r \in Seq(Nat) /\ Len(r) = n /\ \A k \in 1..n : r[k] = b[k]
  BY <1>2, <1>3
<1> QED
  BY <1>1, <1>3, <1>4

(* The rows after the first.                                               *)
LEMMA LaterRows ==
    ASSUME NEW b \in Seq(Nat), NEW n \in Nat, n <= Len(b)
    PROVE  \E rest \in Seq(Nat) :
             /\ rest = SubSeq(b, n + 1, Len(b)) /\ Len(rest) = Len(b) - n
             /\ \A k \in 1..(Len(b) - n) : rest[k] = b[n + k] /\ n + k \in 1..Len(b)
             /\ \A k \in 1..Len(b) : k > n => k - n \in 1..(Len(b) - n) /\ rest[k - n] = b[k]
<1>1. Len(b) \in Nat /\ \A k \in 1..Len(b) : b[k] \in Nat
  OBVIOUS
<1>2. PICK l \in Nat : l = Len(b)
  BY <1>1
<1>3. n \in Nat /\ n <= l /\ \A k \in (n + 1)..l : k \in 1..l /\ b[k] \in Nat
  BY <1>1, <1>2
<1>4. /\ SubSeq(b, n + 1, l) \in Seq(Nat)
      /\ Len(SubSeq(b, n + 1, l)) = IF n + 1 <= l THEN l - (n + 1) + 1 ELSE 0
      /\ \A i \in 1..(l - (n + 1) + 1) : SubSeq(b, n + 1, l)[i] = b[n + 1 + i - 1]
  BY <1>3, SubSeqProperties
<1>5. PICK r : r = SubSeq(b, n + 1, l)
  OBVIOUS
<1>6. r \in Seq(Nat) /\ Len(r) = l - n /\ \A k \in 1..(l - n) : r[k] = b[n + k]
  <2>1. l - (n + 1) + 1 = l - n /\ (n + 1 <= l \/ l - n = 0) /\ \A k \in 1..(l - n) : n + 1 + k - 1 = n + k
    BY <1>3
  <2> QED
    BY <1>3, <1>4, <1>5, <2>1
<1>7. \A k \in 1..(l - n) : n + k \in 1..l
  BY <1>3
<1>8. \A k \in 1..l : k > n => k - n \in 1..(l - n) /\ n + (k - n) = k
  BY <1>3
<1>9. \A k \in 1..l : k > n => r[k - n] = b[k]
  BY <1>6, <1>8
<1> QED
  BY <1>2, <1>5, <1>6, <1>7, <1>8, <1>9

(* The oldest rows are copied.                                             *)
LEMMA ReserveKeeps ==
    ASSUME SinkInv, NEW f \in Ana!Flushers, Ana!Reserve(f)
    PROVE  SinkInv'
<1> USE DEF Ana!Reserve
<1>1. SinkTypeInv /\ RowsTaken /\ flusher[f].todo # <<>> /\ flusher[f].rows = <<>> /\ BatchSize \in Nat /\ BatchSize # 0
  BY StorefrontConstants DEF SinkInv, Ana!IsIdle
<1>2. PICK s \in Ana!Streams : s = Head(flusher[f].todo)
  BY <1>1, TodoFacts DEF SinkTypeInv, SinkFlushes
<1>3. buf[s] \in Seq(Nat) /\ Len(buf[s]) \in Nat
  BY <1>1 DEF SinkTypeInv
<1>4. Ana!Min({Len(buf[s]), BatchSize}) = IF Len(buf[s]) <= BatchSize THEN Len(buf[s]) ELSE BatchSize
  BY <1>1, <1>3, MinOfTwo
<1> DEFINE n == IF Len(buf[s]) <= BatchSize THEN Len(buf[s]) ELSE BatchSize
<1>5. /\ n \in Nat /\ n <= Len(buf[s]) /\ (n = 0 => Len(buf[s]) = 0)
      /\ (Len(buf[s]) <= 2 * BatchSize => Len(buf[s]) - n <= BatchSize)
      /\ (Len(buf[s]) <= BatchSize => Len(buf[s]) - n = 0)
  <2>1. ASSUME NEW l \in Nat, NEW b \in Nat, b # 0, NEW m, m = IF l <= b THEN l ELSE b
        PROVE  /\ m \in Nat /\ m <= l /\ (m = 0 => l = 0)
               /\ (l <= 2 * b => l - m <= b) /\ (l <= b => l - m = 0)
    BY <2>1
  <2> QED
    BY <1>1, <1>3, <2>1
<1> HIDE DEF n
<1>6. CASE n = 0 /\ Ana!NextBuffer(f, TRUE) /\ UNCHANGED incidents
  BY <1>1, <1>2, <1>5, <1>6, EmptyBufferKeeps
<1>7. CASE /\ n > 0 /\ flusher' = [flusher EXCEPT ![f].rows = SubSeq(buf[s], 1, n)]
           /\ incidents' = IF \E g \in Ana!Flushers \ {f} : flusher[g].rows # <<>> /\ Head(flusher[g].todo) = s
                           THEN incidents \cup {"overlap"} ELSE incidents
           /\ UNCHANGED degraded
  <2>1. PICK oldest \in Seq(Nat) : /\ oldest = SubSeq(buf[s], 1, n) /\ Len(oldest) = n
                                   /\ \A k \in 1..n : oldest[k] = buf[s][k] /\ k \in 1..Len(buf[s])
    BY <1>3, <1>5, <1>7, FirstRows
  <2>2. Len(oldest) = n /\ oldest # <<>> /\ \A k \in 1..n : oldest[k] = buf[s][k] /\ k \in 1..Len(buf[s])
    BY <1>5, <1>7, <2>1
  <2>3. PICK fl : fl = [flusher[f] EXCEPT !.rows = oldest]
    OBVIOUS
  <2>4. flusher[f] \in SinkFlushes
    BY <1>1 DEF SinkTypeInv
  <2>5. fl \in SinkFlushes /\ fl.rows = oldest /\ fl.todo = flusher[f].todo /\ fl.sent = flusher[f].sent
    BY <2>3, <2>4 DEF SinkFlushes
  <2>6. flusher' = [flusher EXCEPT ![f] = fl] /\ UNCHANGED <<records, taken, stored, buf, table, mode, lost, anFaults, degraded>>
    BY <1>7, <2>1, <2>3
  <2>7. flusher'[f] = fl /\ (\A g \in Ana!Flushers \ {f} : flusher'[g] = flusher[g]) /\ flusher' \in [Ana!Flushers -> SinkFlushes]
    BY <1>1, <2>5, <2>6 DEF SinkTypeInv
  <2>8. incidents \subseteq incidents' /\ incidents' \subseteq Ana!Incidents
    BY <1>1, <1>7 DEF SinkTypeInv, Ana!Incidents
  <2>9. SinkTypeInv'
    BY <1>1, <2>2, <2>5, <2>6, <2>7, <2>8 DEF SinkTypeInv
  <2>10. ASSUME NEW g \in Ana!Flushers, NEW t \in Ana!Streams, Holds(g, t)' PROVE (g = f /\ t = s) \/ (g # f /\ Holds(g, t))
    BY <1>2, <2>5, <2>7, <2>10 DEF Holds
  <2>11. ~flusher[f].sent /\ ~fl.sent /\ \A t \in Ana!Streams : ~Holds(f, t)
    BY <1>1, <2>5 DEF SinkTypeInv, Holds
  <2>12. RowsTaken'
    <3> SUFFICES ASSUME NEW t \in Ana!Streams, NEW g \in Ana!Flushers, Holds(g, t)', NEW k \in 1..Len(flusher'[g].rows)
                 PROVE  flusher'[g].rows[k] \in 1..taken[t]
      BY <1>1, <2>6 DEF RowsTaken
    <3>1. CASE g = f /\ t = s
      BY <1>1, <2>2, <2>5, <2>7, <3>1 DEF RowsTaken
    <3>2. CASE g # f /\ Holds(g, t)
      BY <1>1, <2>7, <3>2 DEF RowsTaken
    <3> QED
      BY <2>10, <3>1, <3>2
  <2>13. Ana!RowsKept'
    BY <2>6, <2>8 DEF SinkInv, Ana!RowsKept
  <2>14. ASSUME Ana!Apart'
         PROVE  /\ Exclusive /\ RowsAhead /\ BufferGrows
                /\ \A g \in Ana!Flushers, t \in Ana!Streams : Holds(g, t)' /\ g # f => Holds(g, t) /\ t # s
    <3>1. Ana!Apart
      BY <2>8, <2>14 DEF Ana!Apart
    <3>2. \A g \in Ana!Flushers \ {f} : ~Holds(g, s)
      BY <1>7, <2>14 DEF Ana!Apart, Holds
    <3> QED
      BY <2>10, <3>1, <3>2 DEF SinkInv
  <2>15. Ana!Apart' => Exclusive' /\ RowsAhead' /\ BufferGrows'
    <3> SUFFICES ASSUME Ana!Apart' PROVE Exclusive' /\ RowsAhead' /\ BufferGrows'
      OBVIOUS
    <3>1. Exclusive'
      BY <2>10, <2>14 DEF Exclusive
    <3>2. RowsAhead'
      <4> SUFFICES ASSUME NEW g \in Ana!Flushers, NEW t \in Ana!Streams, Holds(g, t)'
                   PROVE  /\ Len(flusher'[g].rows) <= Len(buf[t])
                          /\ \A k \in 1..Len(flusher'[g].rows) :
                               flusher'[g].rows[k] = buf[t][k] /\ (flusher'[g].sent => table[t][flusher'[g].rows[k]] > 0)
        BY <2>6 DEF RowsAhead
      <4>1. CASE g = f /\ t = s
        BY <1>5, <2>2, <2>5, <2>7, <2>11, <4>1
      <4>2. CASE g # f /\ Holds(g, t)
        BY <2>7, <2>14, <4>2 DEF RowsAhead
      <4> QED
        BY <2>10, <4>1, <4>2
    <3> QED
      BY <2>6, <2>14, <3>1, <3>2 DEF BufferGrows
  <2>16. incidents' \cap {"overlap", "stop_backlog", "stop_outage"} = {} => StopDrains'
    <3> SUFFICES ASSUME incidents' \cap {"overlap", "stop_backlog", "stop_outage"} = {} PROVE StopDrains'
      OBVIOUS
    <3>1. StopDrains
      BY <2>8 DEF SinkInv
    <3>2. "ticker" \in Ana!Flushers /\ "closer" \in Ana!Flushers
      BY DEF Ana!Flushers
    <3>3. \A g \in Ana!Flushers, t \in Ana!Streams : Due(g, t)' <=> Due(g, t)
      BY <2>5, <2>7 DEF Due
    <3>4. \A g \in Ana!Flushers, t \in Ana!Streams : g # f /\ Holds(g, t)' => Holds(g, t) /\ LeftOf(g, t)' = LeftOf(g, t)
      BY <2>6, <2>7, <2>10 DEF LeftOf
    <3>5. \A t \in Ana!Streams : Holds(f, t)' => t = s /\ LeftOf(f, t)' = Len(buf[s]) - n
      BY <2>2, <2>5, <2>6, <2>7, <2>10 DEF LeftOf
    <3>6. Len(buf[s]) <= 2 * BatchSize => Len(buf[s]) - n <= BatchSize
      BY <1>5
    <3>7. Len(buf[s]) <= BatchSize => Len(buf[s]) - n = 0
      BY <1>5
    <3> SUFFICES ASSUME NEW t \in Ana!Streams
                 PROVE  /\ mode = "stopping" => Len(buf[t]) <= 2 * BatchSize
                        /\ mode = "draining" => /\ Len(buf[t]) <= 2 * BatchSize
                                                /\ ~Due("ticker", t)' => Len(buf[t]) <= BatchSize
                                                /\ Holds("ticker", t)' => LeftOf("ticker", t)' <= BatchSize
                        /\ mode = "closing" => /\ Len(buf[t]) <= BatchSize
                                               /\ ~Due("closer", t)' => Len(buf[t]) = 0
                                               /\ Holds("closer", t)' => LeftOf("closer", t)' = 0
      BY <2>6 DEF StopDrains
    <3> QED
      BY <3>1, <3>2, <3>3, <3>4, <3>5, <3>6, <3>7 DEF StopDrains
  <2>17. incidents' \cap {"overlap", "unacked", "restart"} = {} => OnceWritten'
    <3> SUFFICES ASSUME OnceWritten PROVE OnceWritten'
      BY <2>8 DEF SinkInv
    <3>1. \A g \in Ana!Flushers, t \in Ana!Streams :
             Holds(g, t) /\ flusher[g].sent => Holds(g, t)' /\ flusher'[g] = flusher[g]
      BY <2>7, <2>11 DEF Holds
    <3> SUFFICES ASSUME NEW t \in Ana!Streams, NEW i \in 1..Ana!Limit(t), Ana!Contains(buf[t], i), table[t][i] > 0
                 PROVE  \E g \in Ana!Flushers : Holds(g, t)' /\ flusher'[g].sent /\ Ana!Contains(flusher'[g].rows, i)
      BY <2>6 DEF OnceWritten
    <3>2. PICK g \in Ana!Flushers : Holds(g, t) /\ flusher[g].sent /\ Ana!Contains(flusher[g].rows, i)
      BY DEF OnceWritten
    <3> QED
      BY <3>1, <3>2
  <2> QED
    BY <2>9, <2>12, <2>13, <2>15, <2>16, <2>17 DEF SinkInv
<1> QED
  <2>1. \/ n = 0 /\ Ana!NextBuffer(f, TRUE) /\ UNCHANGED incidents
        \/ /\ n > 0 /\ flusher' = [flusher EXCEPT ![f].rows = SubSeq(buf[s], 1, n)]
           /\ incidents' = IF \E g \in Ana!Flushers \ {f} : flusher[g].rows # <<>> /\ Head(flusher[g].todo) = s
                           THEN incidents \cup {"overlap"} ELSE incidents
           /\ UNCHANGED degraded
    BY <1>2, <1>4 DEF n
  <2> QED
    BY <1>6, <1>7, <2>1

(* A batch arrives and its rows are in the table.                          *)
LEMMA SendKeeps ==
    ASSUME SinkInv, NEW f \in Ana!Flushers, Ana!SendBatch(f)
    PROVE  SinkInv'
<1> USE DEF Ana!SendBatch
<1>1. SinkTypeInv /\ RowsTaken /\ flusher[f].rows # <<>> /\ flusher[f].todo # <<>> /\ ~flusher[f].sent
  BY DEF SinkInv, SinkTypeInv
<1>2. flusher[f] \in SinkFlushes
  BY <1>1 DEF SinkTypeInv
<1>3. flusher[f].rows \in Seq(Nat) /\ Len(flusher[f].rows) \in Nat
  BY <1>2 DEF SinkFlushes
<1>4. PICK s \in Ana!Streams : s = Head(flusher[f].todo)
  BY <1>1, <1>2, TodoFacts DEF SinkFlushes
<1>5. table' = Ana!Inserted(s, flusher[f].rows) /\ Holds(f, s) /\ \A t \in Ana!Streams : Holds(f, t) => t = s
  BY <1>1, <1>4 DEF Holds
<1>6. /\ table' = [t \in Ana!Streams |-> table'[t]]
      /\ \A t \in Ana!Streams : table'[t] \in [1..Ana!Limit(t) -> 0..2]
      /\ TableGrows
      /\ \A t \in Ana!Streams : t # s => table'[t] = table[t]
      /\ \A i \in 1..Ana!Limit(s) :
           /\ Ana!Contains(flusher[f].rows, i) => table'[s][i] > 0 /\ (table[s][i] = 0 => table'[s][i] = 1)
           /\ ~Ana!Contains(flusher[f].rows, i) => table'[s][i] = table[s][i]
  BY <1>1, <1>3, <1>5, InsertedGives
<1>7. PICK fl : fl = [flusher[f] EXCEPT !.sent = TRUE]
  OBVIOUS
<1>8. fl \in SinkFlushes /\ fl.rows = flusher[f].rows /\ fl.todo = flusher[f].todo /\ fl.sent
  BY <1>2, <1>7 DEF SinkFlushes
<1>9. /\ flusher'[f] = fl /\ (\A g \in Ana!Flushers \ {f} : flusher'[g] = flusher[g]) /\ flusher' \in [Ana!Flushers -> SinkFlushes]
  BY <1>1, <1>7, <1>8 DEF SinkTypeInv
<1>10. SinkTypeInv'
  BY <1>1, <1>6, <1>8, <1>9 DEF SinkTypeInv
<1>11. \A g \in Ana!Flushers, t \in Ana!Streams : (Holds(g, t)' <=> Holds(g, t)) /\ (Due(g, t)' <=> Due(g, t))
  BY <1>8, <1>9 DEF Holds, Due
<1>12. \A g \in Ana!Flushers : flusher'[g].rows = flusher[g].rows
  BY <1>8, <1>9
<1>13. RowsTaken'
  BY <1>1, <1>11, <1>12 DEF RowsTaken
<1>14. \A t \in Ana!Streams : \A i \in 1..taken[t] : i \in 1..Ana!Limit(t)
  BY <1>1, RowIsWithin
<1>15. Ana!RowsKept'
  BY <1>6, <1>14 DEF SinkInv, Ana!RowsKept, TableGrows
<1>16. Ana!Apart => Exclusive' /\ RowsAhead' /\ BufferGrows'
  <2> SUFFICES ASSUME Ana!Apart PROVE Exclusive' /\ RowsAhead' /\ BufferGrows'
    OBVIOUS
  <2>1. Exclusive /\ RowsAhead /\ BufferGrows
    BY DEF SinkInv
  <2>2. Exclusive' /\ BufferGrows'
    BY <1>11, <2>1 DEF Exclusive, BufferGrows
  <2>3. RowsAhead'
    <3> SUFFICES ASSUME NEW g \in Ana!Flushers, NEW t \in Ana!Streams, Holds(g, t)
                 PROVE  /\ Len(flusher[g].rows) <= Len(buf[t])
                        /\ \A k \in 1..Len(flusher[g].rows) :
                             flusher[g].rows[k] = buf[t][k] /\ (flusher'[g].sent => table'[t][flusher[g].rows[k]] > 0)
      BY <1>11, <1>12 DEF RowsAhead
    <3>1. /\ Len(flusher[g].rows) <= Len(buf[t])
          /\ \A k \in 1..Len(flusher[g].rows) :
               flusher[g].rows[k] = buf[t][k] /\ (flusher[g].sent => table[t][flusher[g].rows[k]] > 0)
      BY <2>1 DEF RowsAhead
    <3>2. \A k \in 1..Len(flusher[g].rows) : flusher[g].rows[k] \in 1..Ana!Limit(t)
      BY <1>1, <1>14 DEF RowsTaken
    <3>3. CASE g = f
      <4>1. t = s
        BY <1>5, <3>3
      <4>2. \A k \in 1..Len(flusher[f].rows) : Ana!Contains(flusher[f].rows, flusher[f].rows[k])
        BY DEF Ana!Contains
      <4> QED
        BY <1>6, <3>1, <3>2, <3>3, <4>1, <4>2
    <3>4. CASE g # f
      BY <1>6, <1>9, <3>1, <3>2, <3>4 DEF TableGrows
    <3> QED
      BY <3>3, <3>4
  <2> QED
    BY <2>2, <2>3
<1>17. StopDrains => StopDrains'
  <2>1. "ticker" \in Ana!Flushers /\ "closer" \in Ana!Flushers
    BY DEF Ana!Flushers
  <2>2. ASSUME NEW g \in Ana!Flushers, NEW t \in Ana!Streams PROVE LeftOf(g, t)' = LeftOf(g, t)
    <3>1. buf' = buf /\ flusher'[g].rows = flusher[g].rows /\ (Holds(g, t)' <=> Holds(g, t))
      BY <1>11, <1>12
    <3>2. LeftOf(g, t)' = Len(buf'[t]) - IF Holds(g, t)' THEN Len(flusher'[g].rows) ELSE 0
      BY DEF LeftOf
    <3>3. LeftOf(g, t) = Len(buf[t]) - IF Holds(g, t) THEN Len(flusher[g].rows) ELSE 0
      BY DEF LeftOf
    <3>4. CASE Holds(g, t)
      BY <3>1, <3>2, <3>3, <3>4
    <3>5. CASE ~Holds(g, t)
      BY <3>1, <3>2, <3>3, <3>5
    <3> QED
      BY <3>4, <3>5
  <2> QED
    BY <1>11, <2>1, <2>2 DEF StopDrains
<1>18. incidents \cap {"overlap", "unacked", "restart"} = {} => OnceWritten'
  <2> SUFFICES ASSUME incidents \cap {"overlap", "unacked", "restart"} = {} PROVE OnceWritten'
    OBVIOUS
  <2>1. OnceWritten /\ Exclusive /\ RowsAhead
    BY DEF SinkInv, Ana!Apart
  <2>2. ASSUME NEW i \in 1..Ana!Limit(s), Ana!Contains(flusher[f].rows, i)
        PROVE  table[s][i] = 0 /\ ~(i > taken[s])
    <3>1. PICK k \in 1..Len(flusher[f].rows) : flusher[f].rows[k] = i
      BY <2>2 DEF Ana!Contains
    <3>2. k \in 1..Len(buf[s]) /\ buf[s][k] = i
      <4>1. Len(flusher[f].rows) <= Len(buf[s]) /\ flusher[f].rows[k] = buf[s][k] /\ Len(buf[s]) \in Nat
        BY <1>1, <1>5, <2>1, <3>1 DEF RowsAhead, SinkTypeInv
      <4> QED
        BY <1>3, <3>1, <4>1
    <3>3. Ana!Contains(buf[s], i)
      BY <3>2 DEF Ana!Contains
    <3>4. ~(table[s][i] > 0)
      <4> SUFFICES ASSUME table[s][i] > 0 PROVE FALSE
        OBVIOUS
      <4>1. PICK g \in Ana!Flushers : Holds(g, s) /\ flusher[g].sent
        BY <2>1, <3>3 DEF OnceWritten
      <4>2. g = f
        BY <1>5, <2>1, <4>1 DEF Exclusive
      <4> QED
        BY <1>1, <4>1, <4>2
    <3>5. table[s][i] \in 0..2
      BY <1>1 DEF SinkTypeInv
    <3>6. i \in 1..taken[s] /\ taken[s] \in Nat
      BY <1>1, <1>5, <3>1 DEF RowsTaken, SinkTypeInv
    <3> QED
      BY <3>4, <3>5, <3>6
  <2> SUFFICES ASSUME NEW t \in Ana!Streams, NEW i \in 1..Ana!Limit(t)
               PROVE  /\ table'[t][i] <= 1 /\ (i > taken[t] => table'[t][i] = 0)
                      /\ Ana!Contains(buf[t], i) /\ table'[t][i] > 0 =>
                           \E g \in Ana!Flushers : Holds(g, t)' /\ flusher'[g].sent /\ Ana!Contains(flusher'[g].rows, i)
    BY DEF OnceWritten
  <2>3. CASE t = s /\ Ana!Contains(flusher[f].rows, i)
    <3>1. table'[t][i] = 1 /\ ~(i > taken[t])
      BY <1>6, <2>2, <2>3
    <3>2. Holds(f, t)' /\ flusher'[f].sent /\ Ana!Contains(flusher'[f].rows, i)
      BY <1>5, <1>8, <1>9, <1>11, <2>3
    <3> QED
      BY <3>1, <3>2
  <2>4. CASE ~(t = s /\ Ana!Contains(flusher[f].rows, i))
    <3>1. table'[t][i] = table[t][i]
      BY <1>6, <2>4
    <3>2. /\ table[t][i] <= 1 /\ (i > taken[t] => table[t][i] = 0)
          /\ Ana!Contains(buf[t], i) /\ table[t][i] > 0 =>
               \E g \in Ana!Flushers : Holds(g, t) /\ flusher[g].sent /\ Ana!Contains(flusher[g].rows, i)
      BY <2>1 DEF OnceWritten
    <3>3. \A g \in Ana!Flushers : flusher[g].sent => flusher'[g] = flusher[g]
      BY <1>1, <1>9
    <3> QED
      BY <1>11, <3>1, <3>2, <3>3
  <2> QED
    BY <2>3, <2>4
<1>19. incidents' = incidents /\ (Ana!Apart' <=> Ana!Apart)
  BY DEF Ana!Apart
<1> QED
  BY <1>10, <1>13, <1>15, <1>16, <1>17, <1>18, <1>19 DEF SinkInv

(* A process that starts with empty buffers.                               *)
LEMMA RebornKeeps ==
    ASSUME SinkInv, Ana!Reborn, UNCHANGED <<records, stored, table, anFaults>>,
           incidents \subseteq incidents', incidents' \subseteq Ana!Incidents, "restart" \in incidents',
           lost' \subseteq Ana!Streams \X Nat, Ana!RowsKept'
    PROVE  SinkInv'
<1> USE DEF Ana!Reborn
<1>1. SinkTypeInv /\ RowsTaken
  BY DEF SinkInv
<1>2. \A f \in Ana!Flushers : /\ flusher'[f] = Ana!Idle /\ flusher'[f].todo = <<>> /\ flusher'[f].rows = <<>> /\ ~flusher'[f].sent
  BY FlushesTyped
<1>3. \A f, s : f \in Ana!Flushers => ~Holds(f, s)'
  BY <1>2 DEF Holds
<1>4. \A s \in Ana!Streams : buf'[s] = <<>> /\ Len(buf'[s]) = 0 /\ (\A i \in 1..Len(buf'[s]) : FALSE)
  OBVIOUS
<1>5. SinkTypeInv'
  <2>1. buf' \in [Ana!Streams -> Seq(Nat)] /\ flusher' \in [Ana!Flushers -> SinkFlushes]
    BY FlushesTyped
  <2> QED
    BY <1>1, <1>2, <2>1 DEF SinkTypeInv
<1>6. RowsTaken'
  <2>1. MaxBuffer \in Nat
    BY StorefrontConstants
  <2> SUFFICES ASSUME NEW s \in Ana!Streams
               PROVE  /\ Len(records[s]) <= Ana!Limit(s) /\ stored[s] <= stored[s] /\ stored[s] <= Len(records[s]) /\ Len(buf'[s]) <= MaxBuffer
                      /\ \A i \in 1..Len(buf'[s]) : buf'[s][i] \in 1..stored[s] /\ Ana!Flattened(records[s][buf'[s][i]])
                      /\ \A f \in Ana!Flushers : Holds(f, s)' => \A k \in 1..Len(flusher'[f].rows) : flusher'[f].rows[k] \in 1..stored[s]
    BY DEF RowsTaken
  <2>2. /\ Len(records[s]) \in Nat /\ stored[s] \in Nat /\ taken[s] \in Nat /\ Len(records[s]) <= Ana!Limit(s)
        /\ stored[s] <= taken[s] /\ taken[s] <= Len(records[s])
    BY <1>1 DEF SinkTypeInv, RowsTaken
  <2>3. stored[s] <= stored[s] /\ stored[s] <= Len(records[s]) /\ Len(buf'[s]) <= MaxBuffer
    BY <1>4, <2>1, <2>2
  <2> QED
    BY <1>3, <1>4, <2>2, <2>3, Zenon
<1>7. Exclusive' /\ RowsAhead'
  BY <1>3 DEF Exclusive, RowsAhead
<1>8. BufferGrows'
  BY <1>4, Zenon DEF BufferGrows
<1>9. StopDrains' /\ incidents' \cap {"overlap", "unacked", "restart"} # {}
  BY DEF StopDrains
<1> QED
  BY <1>5, <1>6, <1>7, <1>8, <1>9 DEF SinkInv

(* The process is killed: what it had committed and not written is lost.   *)
LEMMA CrashKeeps ==
    ASSUME SinkInv, Ana!Crash
    PROVE  SinkInv'
<1> USE DEF Ana!Crash
<1>1. SinkTypeInv /\ RowsTaken
  BY DEF SinkInv
<1> DEFINE Gone(s) == {<<s, buf[s][k]>> : k \in {j \in 1..Len(buf[s]) : buf[s][j] <= stored[s]}}
<1>2. lost' = lost \cup UNION {Gone(s) : s \in Ana!Streams}
  OBVIOUS
<1>3. lost' \subseteq Ana!Streams \X Nat
  <2>1. ASSUME NEW s \in Ana!Streams PROVE Gone(s) \subseteq Ana!Streams \X Nat
    BY <1>1 DEF SinkTypeInv
  <2>2. lost \subseteq Ana!Streams \X Nat
    BY <1>1 DEF SinkTypeInv
  <2> HIDE DEF Gone
  <2> QED
    BY <1>2, <2>1, <2>2
<1>4. Ana!RowsKept'
  <2> SUFFICES ASSUME incidents' \cap {"overlap", "stop_backlog", "stop_outage"} = {},
                      NEW s \in Ana!Streams, NEW i \in 1..stored[s], Ana!Flattened(records[s][i])
               PROVE  table[s][i] > 0 \/ <<s, i>> \in lost'
    BY DEF Ana!RowsKept, Ana!Reborn
  <2>1. i \in 1..taken[s] /\ i <= stored[s]
    BY <1>1 DEF SinkTypeInv, RowsTaken
  <2>2. incidents \cap {"overlap", "stop_backlog", "stop_outage"} = {}
    OBVIOUS
  <2>3. Ana!Contains(buf[s], i) \/ table[s][i] > 0 \/ <<s, i>> \in lost
    BY <2>1, <2>2 DEF SinkInv, Ana!RowsKept
  <2>4. ASSUME Ana!Contains(buf[s], i) PROVE <<s, i>> \in Gone(s)
    BY <2>1, <2>4 DEF Ana!Contains
  <2> HIDE DEF Gone
  <2> QED
    BY <1>2, <2>3, <2>4
<1>5. incidents \subseteq incidents' /\ incidents' \subseteq Ana!Incidents /\ "restart" \in incidents'
  BY <1>1 DEF SinkTypeInv, Ana!Incidents
<1> QED
  BY <1>3, <1>4, <1>5, RebornKeeps

(* The next process, after a shutdown that left nothing behind.            *)
LEMMA StartAgainKeeps ==
    ASSUME SinkInv, Ana!StartAgain
    PROVE  SinkInv'
<1> USE DEF Ana!StartAgain
<1>1. SinkTypeInv /\ RowsTaken
  BY DEF SinkInv
<1>2. incidents \subseteq incidents' /\ incidents' \subseteq Ana!Incidents /\ "restart" \in incidents'
  BY <1>1 DEF SinkTypeInv, Ana!Incidents
<1>3. Ana!RowsKept'
  <2> SUFFICES ASSUME incidents' \cap {"overlap", "stop_backlog", "stop_outage"} = {},
                      NEW s \in Ana!Streams, NEW i \in 1..stored[s], Ana!Flattened(records[s][i])
               PROVE  table[s][i] > 0 \/ <<s, i>> \in lost
    BY DEF Ana!RowsKept, Ana!Reborn
  <2>1. i \in 1..taken[s]
    BY <1>1 DEF SinkTypeInv, RowsTaken
  <2>2. incidents \cap {"overlap", "stop_backlog", "stop_outage"} = {}
    BY <1>2
  <2>3. Len(buf[s]) = 0
    <3>1. "closer" \in Ana!Flushers
      BY DEF Ana!Flushers
    <3>2. ~Due("closer", s)
      BY <3>1, TodoFacts DEF Due, Ana!IsIdle
    <3> QED
      BY <2>2, <3>2 DEF SinkInv, StopDrains
  <2>4. ~Ana!Contains(buf[s], i)
    BY <2>3 DEF Ana!Contains
  <2> QED
    BY <2>1, <2>2, <2>4 DEF SinkInv, Ana!RowsKept
<1>4. lost' \subseteq Ana!Streams \X Nat
  BY <1>1 DEF SinkTypeInv
<1> QED
  BY <1>2, <1>3, <1>4, RebornKeeps

(* The rows that were sent leave the buffer, while no two flushes of it    *)
(* have overlapped.                                                        *)
LEMMA DropKeepsApart ==
    ASSUME SinkInv, NEW f \in Ana!Flushers, NEW s \in Ana!Streams, NEW fl \in SinkFlushes, Holds(f, s), flusher[f].sent,
           buf' = [buf EXCEPT ![s] = SubSeq(@, Len(flusher[f].rows) + 1, Len(@))], flusher' = [flusher EXCEPT ![f] = fl], fl.rows = <<>>, fl.sent = FALSE,
           fl.todo = IF flusher[f].todo = <<"events", "clicks">> THEN <<"clicks">> ELSE <<>>,
           UNCHANGED <<records, taken, stored, table, mode, incidents, lost>>, Ana!Apart
    PROVE  /\ Ana!RowsKept' /\ Exclusive' /\ RowsAhead' /\ BufferGrows'
           /\ (StopDrains => StopDrains') /\ (OnceWritten => OnceWritten')
<1>1. SinkTypeInv /\ RowsTaken /\ Exclusive /\ RowsAhead /\ BufferGrows
  BY DEF SinkInv
<1> DEFINE l == Len(buf[s])  n == Len(flusher[f].rows)
<1>2. l \in Nat /\ n \in Nat
  <2>1. flusher[f] \in SinkFlushes /\ buf[s] \in Seq(Nat)
    BY <1>1 DEF SinkTypeInv
  <2>2. flusher[f].rows \in Seq(Nat)
    BY <2>1 DEF SinkFlushes
  <2> QED
    BY <2>1, <2>2
<1>3. PICK rest \in Seq(Nat) :
         /\ rest = SubSeq(buf[s], n + 1, l) /\ n <= l /\ Len(rest) = l - n
         /\ \A k \in 1..(l - n) : rest[k] = buf[s][n + k] /\ n + k \in 1..l
         /\ \A k \in 1..l : k > n => k - n \in 1..(l - n) /\ rest[k - n] = buf[s][k]
  <2>1. n <= l
    BY <1>1 DEF RowsAhead
  <2>2. buf[s] \in Seq(Nat)
    BY <1>1 DEF SinkTypeInv
  <2>3. PICK m \in Nat : m = n
    BY <1>2
  <2> HIDE DEF n
  <2>4. \E rest \in Seq(Nat) :
           /\ rest = SubSeq(buf[s], m + 1, l) /\ Len(rest) = l - m
           /\ \A k \in 1..(l - m) : rest[k] = buf[s][m + k] /\ m + k \in 1..l
           /\ \A k \in 1..l : k > m => k - m \in 1..(l - m) /\ rest[k - m] = buf[s][k]
    BY <2>1, <2>2, <2>3, LaterRows
  <2> QED
    BY <2>1, <2>3, <2>4
<1>4. buf'[s] = rest /\ \A t \in Ana!Streams : t # s => buf'[t] = buf[t]
  BY <1>1, <1>3 DEF SinkTypeInv
<1> HIDE DEF l, n
<1>5. /\ n <= l /\ Len(buf'[s]) = l - n /\ l - n \in Nat /\ (\A k \in 1..(l - n) : buf'[s][k] = buf[s][n + k] /\ n + k \in 1..l)
      /\ \A k \in 1..l : k > n => k - n \in 1..(l - n) /\ buf'[s][k - n] = buf[s][k]
  <2>1. n <= l
    BY <1>2, <1>3
  <2>2. l - n \in Nat
    BY <1>2, <2>1
  <2>3. Len(buf'[s]) = l - n
    BY <1>2, <1>3, <1>4
  <2>4. \A k \in 1..(l - n) : buf'[s][k] = buf[s][n + k] /\ n + k \in 1..l
    BY <1>2, <1>3, <1>4
  <2>5. \A k \in 1..l : k > n => k - n \in 1..(l - n) /\ buf'[s][k - n] = buf[s][k]
    BY <1>2, <1>3, <1>4
  <2> QED
    BY <2>1, <2>2, <2>3, <2>4, <2>5
<1>6. HoldsFewer /\ flusher'[f] = fl /\ \A g \in Ana!Flushers \ {f} : flusher'[g] = flusher[g]
  BY <1>1, FlushTurns
<1>7. \A g \in Ana!Flushers : Holds(g, s) => g = f
  BY <1>1 DEF Exclusive
<1>8. ASSUME NEW g \in Ana!Flushers, NEW t \in Ana!Streams, Holds(g, t)'
      PROVE  g # f /\ t # s /\ Holds(g, t) /\ flusher'[g] = flusher[g]
  <2>1. Holds(g, t) /\ g # f
    BY <1>6, <1>8 DEF HoldsFewer, Holds
  <2> QED
    BY <1>6, <1>7, <2>1
<1>9. \A k \in 1..n : flusher[f].rows[k] = buf[s][k] /\ table[s][buf[s][k]] > 0
  BY <1>1 DEF RowsAhead, n
<1>10. ASSUME NEW i, Ana!Contains(buf[s], i) PROVE Ana!Contains(buf'[s], i) \/ table[s][i] > 0
  <2>1. PICK k \in 1..l : buf[s][k] = i
    BY <1>10 DEF Ana!Contains, l
  <2>2. CASE k > n
    BY <1>5, <2>1, <2>2 DEF Ana!Contains
  <2>3. CASE ~(k > n)
    <3>1. k \in 1..n
      BY <1>2, <2>3
    <3> QED
      BY <1>9, <2>1, <3>1
  <2> QED
    BY <2>2, <2>3
<1>11. Ana!RowsKept'
  BY <1>4, <1>10 DEF SinkInv, Ana!RowsKept
<1>12. Exclusive'
  BY <1>1, <1>8 DEF Exclusive
<1>13. RowsAhead'
  <2> SUFFICES ASSUME NEW g \in Ana!Flushers, NEW t \in Ana!Streams, Holds(g, t)'
               PROVE  /\ Len(flusher'[g].rows) <= Len(buf'[t])
                      /\ \A k \in 1..Len(flusher'[g].rows) :
                           flusher'[g].rows[k] = buf'[t][k] /\ (flusher'[g].sent => table[t][flusher'[g].rows[k]] > 0)
    BY DEF RowsAhead
  <2>1. t # s /\ Holds(g, t) /\ flusher'[g] = flusher[g] /\ buf'[t] = buf[t]
    BY <1>4, <1>8
  <2> QED
    BY <1>1, <2>1 DEF RowsAhead
<1>14. BufferGrows'
  <2> SUFFICES ASSUME NEW t \in Ana!Streams, NEW j \in 1..Len(buf'[t]), NEW k \in 1..Len(buf'[t]), j < k
               PROVE  buf'[t][j] < buf'[t][k]
    BY DEF BufferGrows
  <2>1. CASE t = s
    <3>1. j \in 1..(l - n) /\ k \in 1..(l - n)
      BY <1>5, <2>1
    <3>2. n + j \in 1..l /\ n + k \in 1..l /\ buf'[s][j] = buf[s][n + j] /\ buf'[s][k] = buf[s][n + k]
      BY <1>5, <3>1
    <3>3. n + j < n + k
      BY <1>2, <3>1
    <3> QED
      <4>1. \A p, q \in 1..l : p < q => buf[s][p] < buf[s][q]
        BY <1>1 DEF BufferGrows, l
      <4>2. buf[s][n + j] < buf[s][n + k]
        BY <3>2, <3>3, <4>1
      <4> QED
        BY <2>1, <3>2, <4>2
  <2>2. CASE t # s
    BY <1>1, <1>4, <2>2 DEF BufferGrows
  <2> QED
    BY <2>1, <2>2
<1>15. StopDrains => StopDrains'
  <2> SUFFICES ASSUME StopDrains PROVE StopDrains'
    OBVIOUS
  <2>1. "ticker" \in Ana!Flushers /\ "closer" \in Ana!Flushers /\ BatchSize \in Nat
    BY StorefrontConstants DEF Ana!Flushers
  <2>2. s = Head(flusher[f].todo) /\ flusher[f].todo # <<>>
    BY <1>1 DEF Holds, SinkTypeInv
  <2>3. LeftOf(f, s) = Len(buf'[s])
    <3>1. LeftOf(f, s) = l - n
      BY DEF LeftOf, l, n
    <3> QED
      BY <1>5, <3>1
  <2>4. \A t \in Ana!Streams : Due(f, t) => Due(f, t)' \/ t = s
    <3>1. flusher'[f].todo = IF flusher[f].todo = <<"events", "clicks">> THEN <<"clicks">> ELSE <<>>
      BY <1>6
    <3> QED
      BY <1>1, <2>2, <3>1, DueOn
  <2>5. \A g \in Ana!Flushers \ {f}, t \in Ana!Streams : Due(g, t) => Due(g, t)'
    BY <1>6 DEF Due
  <2>6. ASSUME NEW t \in Ana!Streams PROVE Len(buf'[t]) \in Nat /\ Len(buf[t]) \in Nat /\ Len(buf'[t]) <= Len(buf[t])
    <3>1. CASE t = s
      <4>1. Len(buf[s]) = l
        BY DEF l
      <4>2. l - n \in Nat /\ l - n <= l
        BY <1>2, <1>5
      <4> QED
        BY <1>2, <1>5, <3>1, <4>1, <4>2
    <3>2. CASE t # s
      BY <1>1, <1>4, <3>2 DEF SinkTypeInv
    <3> QED
      BY <3>1, <3>2
  <2>7. ASSUME NEW g \in Ana!Flushers, NEW t \in Ana!Streams, Holds(g, t)' PROVE Holds(g, t) /\ LeftOf(g, t)' = LeftOf(g, t)
    <3>1. Holds(g, t) /\ buf'[t] = buf[t] /\ flusher'[g] = flusher[g]
      BY <1>4, <1>8, <2>7
    <3>2. LeftOf(g, t)' = Len(buf'[t]) - IF Holds(g, t)' THEN Len(flusher'[g].rows) ELSE 0
      BY DEF LeftOf
    <3>3. LeftOf(g, t) = Len(buf[t]) - IF Holds(g, t) THEN Len(flusher[g].rows) ELSE 0
      BY DEF LeftOf
    <3> QED
      BY <2>7, <3>1, <3>2, <3>3
  <2> SUFFICES ASSUME NEW t \in Ana!Streams
               PROVE  /\ mode = "stopping" => Len(buf'[t]) <= 2 * BatchSize
                      /\ mode = "draining" => /\ Len(buf'[t]) <= 2 * BatchSize
                                              /\ ~Due("ticker", t)' => Len(buf'[t]) <= BatchSize
                                              /\ Holds("ticker", t)' => LeftOf("ticker", t)' <= BatchSize
                      /\ mode = "closing" => /\ Len(buf'[t]) <= BatchSize
                                             /\ ~Due("closer", t)' => Len(buf'[t]) = 0
                                             /\ Holds("closer", t)' => LeftOf("closer", t)' = 0
    BY DEF StopDrains
  <2>8. /\ mode = "stopping" => Len(buf[t]) <= 2 * BatchSize
        /\ mode = "draining" => /\ Len(buf[t]) <= 2 * BatchSize
                                /\ ~Due("ticker", t) => Len(buf[t]) <= BatchSize
                                /\ Holds("ticker", t) => LeftOf("ticker", t) <= BatchSize
        /\ mode = "closing" => /\ Len(buf[t]) <= BatchSize
                               /\ ~Due("closer", t) => Len(buf[t]) = 0
                               /\ Holds("closer", t) => LeftOf("closer", t) = 0
    BY DEF StopDrains
  <2>9. ASSUME NEW a \in Nat, a = BatchSize \/ a = 2 * BatchSize, Len(buf[t]) <= a PROVE Len(buf'[t]) <= a
    <3>1. ASSUME NEW x \in Nat, NEW y \in Nat, x <= y, y <= a PROVE x <= a
      BY <3>1
    <3> QED
      BY <2>6, <2>9, <3>1
  <2>10. 2 * BatchSize \in Nat
    BY <2>1
  <2>11. mode = "stopping" => Len(buf'[t]) <= 2 * BatchSize
    BY <2>1, <2>8, <2>9, <2>10
  <2>12. mode = "draining" => Len(buf'[t]) <= 2 * BatchSize
    BY <2>1, <2>8, <2>9, <2>10
  <2>13. mode = "closing" => Len(buf'[t]) <= BatchSize
    BY <2>1, <2>8, <2>9, <2>10
  <2>14. mode = "draining" /\ ~Due("ticker", t)' => Len(buf'[t]) <= BatchSize
    <3> SUFFICES ASSUME mode = "draining", ~Due("ticker", t)' PROVE Len(buf'[t]) <= BatchSize
      OBVIOUS
    <3>1. ~Due("ticker", t) \/ (f = "ticker" /\ t = s)
      BY <2>1, <2>4, <2>5
    <3>2. CASE ~Due("ticker", t)
      BY <2>1, <2>6, <2>8, <3>2
    <3>3. CASE f = "ticker" /\ t = s
      BY <2>3, <2>8, <3>3
    <3> QED
      BY <3>1, <3>2, <3>3
  <2>15. mode = "closing" /\ ~Due("closer", t)' => Len(buf'[t]) = 0
    <3> SUFFICES ASSUME mode = "closing", ~Due("closer", t)' PROVE Len(buf'[t]) = 0
      OBVIOUS
    <3>1. ~Due("closer", t) \/ (f = "closer" /\ t = s)
      BY <2>1, <2>4, <2>5
    <3>2. CASE ~Due("closer", t)
      BY <2>6, <2>8, <3>2
    <3>3. CASE f = "closer" /\ t = s
      BY <2>3, <2>8, <3>3
    <3> QED
      BY <3>1, <3>2, <3>3
  <2> QED
    BY <2>1, <2>7, <2>8, <2>11, <2>12, <2>13, <2>14, <2>15
<1>16. OnceWritten => OnceWritten'
  <2> SUFFICES ASSUME OnceWritten PROVE OnceWritten'
    OBVIOUS
  <2> SUFFICES ASSUME NEW t \in Ana!Streams, NEW i \in 1..Ana!Limit(t), Ana!Contains(buf'[t], i), table[t][i] > 0
               PROVE  \E g \in Ana!Flushers : Holds(g, t)' /\ flusher'[g].sent /\ Ana!Contains(flusher'[g].rows, i)
    BY DEF OnceWritten
  <2>1. CASE t = s
    <3> \E j \in 1..(l - n) : buf[s][n + j] = i /\ n + j \in 1..l
      <4>1. PICK j \in 1..Len(buf'[s]) : buf'[s][j] = i
        BY <2>1 DEF Ana!Contains
      <4>2. j \in 1..(l - n)
        BY <1>5
      <4> QED
        BY <1>5, <4>1, <4>2
    <3>1. PICK j \in 1..(l - n) : buf[s][n + j] = i /\ n + j \in 1..l
      OBVIOUS
    <3>2. Ana!Contains(buf[s], i)
      BY <3>1 DEF Ana!Contains, l
    <3>3. PICK g \in Ana!Flushers : Holds(g, s) /\ Ana!Contains(flusher[g].rows, i)
      BY <2>1, <3>2 DEF OnceWritten
    <3>4. g = f
      BY <1>7, <3>3
    <3>5. PICK k \in 1..n : flusher[f].rows[k] = i
      BY <3>3, <3>4 DEF Ana!Contains, n
    <3>6. buf[s][k] = i /\ k \in 1..l /\ k < n + j
      <4>1. buf[s][k] = i
        BY <1>9, <3>5
      <4>2. k \in 1..l /\ k < n + j
        BY <1>2, <1>5, <3>1, <3>5
      <4> QED
        BY <4>1, <4>2
    <3>7. buf[s][k] < buf[s][n + j]
      <4>1. \A p, q \in 1..l : p < q => buf[s][p] < buf[s][q]
        BY <1>1 DEF BufferGrows, l
      <4> QED
        BY <3>1, <3>6, <4>1
    <3>8. i \in Nat
      BY LimitBounds
    <3> QED
      BY <3>1, <3>6, <3>7, <3>8
  <2>2. CASE t # s
    <3>1. Ana!Contains(buf[t], i)
      BY <1>4, <2>2
    <3>2. PICK g \in Ana!Flushers : Holds(g, t) /\ flusher[g].sent /\ Ana!Contains(flusher[g].rows, i)
      BY <3>1 DEF OnceWritten
    <3>3. g # f
      BY <2>2, <3>2 DEF Holds
    <3>4. flusher'[g] = flusher[g]
      BY <1>6, <3>3
    <3> QED
      BY <3>2, <3>4 DEF Holds
  <2> QED
    BY <2>1, <2>2
<1> QED
  BY <1>11, <1>12, <1>13, <1>14, <1>15, <1>16

(* Under the mutex, as many rows as were sent are deleted; or the process  *)
(* ends, which takes an overlap.                                           *)
LEMMA DropKeeps ==
    ASSUME SinkInv, NEW f \in Ana!Flushers, Ana!DropSent(f)
    PROVE  SinkInv'
<1> USE DEF Ana!DropSent
<1>1. SinkTypeInv /\ RowsTaken /\ flusher[f].rows # <<>> /\ flusher[f].todo # <<>> /\ flusher[f].sent
  BY DEF SinkInv, SinkTypeInv
<1>2. flusher[f] \in SinkFlushes /\ flusher[f].rows \in Seq(Nat)
  BY <1>1 DEF SinkTypeInv, SinkFlushes
<1>3. PICK s \in Ana!Streams : s = Head(flusher[f].todo)
  BY <1>1, <1>2, TodoFacts DEF SinkFlushes
<1>4. PICK n \in Nat : n = Len(flusher[f].rows)
  BY <1>2
<1>5. Holds(f, s) /\ buf[s] \in Seq(Nat)
  BY <1>1, <1>3 DEF Holds, SinkTypeInv
<1>6. CASE n > Len(buf[s])
  <2>1. ~Ana!Apart
    <3> SUFFICES ASSUME Ana!Apart PROVE FALSE
      OBVIOUS
    <3>1. n <= Len(buf[s])
      BY <1>4, <1>5 DEF SinkInv, RowsAhead
    <3> QED
      BY <1>5, <1>6, <3>1
  <2>2. Ana!Reborn /\ incidents' = incidents \cup {"restart"} /\ UNCHANGED <<records, stored, table, lost, anFaults>>
    <3>1. ~(n <= Len(buf[s]))
      BY <1>5, <1>6
    <3> QED
      BY <1>3, <1>4, <3>1
  <2>3. "overlap" \in incidents'
    BY <2>1, <2>2 DEF Ana!Apart
  <2>4. Ana!RowsKept'
    BY <2>3 DEF Ana!RowsKept
  <2>5. incidents \subseteq incidents' /\ incidents' \subseteq Ana!Incidents /\ lost' \subseteq Ana!Streams \X Nat
    BY <1>1, <2>2 DEF SinkTypeInv, Ana!Incidents
  <2> QED
    BY <2>2, <2>4, <2>5, RebornKeeps
<1>7. CASE n <= Len(buf[s])
  <2>1. /\ buf' = [buf EXCEPT ![s] = SubSeq(@, n + 1, Len(@))] /\ Ana!NextBuffer(f, TRUE)
        /\ UNCHANGED <<records, taken, stored, table, mode, incidents, lost, anFaults>>
    <3>1. ~(n > Len(buf[s]))
      BY <1>5, <1>7
    <3> QED
      BY <1>3, <1>4, <3>1
  <2>2. degraded' \in BOOLEAN
    BY <1>1, <2>1, NextBufferGives
  <2>3. PICK fl \in SinkFlushes :
           /\ flusher' = [flusher EXCEPT ![f] = fl] /\ fl.rows = <<>> /\ fl.sent = FALSE
           /\ fl.todo = IF flusher[f].todo = <<"events", "clicks">> THEN <<"clicks">> ELSE <<>>
    BY <1>1, <2>1, NextBufferGives
  <2>4. PICK rest \in Seq(Nat) :
           /\ rest = SubSeq(buf[s], n + 1, Len(buf[s])) /\ Len(rest) = Len(buf[s]) - n
           /\ \A k \in 1..(Len(buf[s]) - n) : rest[k] = buf[s][n + k] /\ n + k \in 1..Len(buf[s])
           /\ \A k \in 1..Len(buf[s]) : k > n => k - n \in 1..(Len(buf[s]) - n) /\ rest[k - n] = buf[s][k]
    BY <1>5, <1>7, LaterRows
  <2>5. buf' = [buf EXCEPT ![s] = rest]
    BY <2>1, <2>4
  <2>6. buf' \in [Ana!Streams -> Seq(Nat)] /\ buf'[s] = rest /\ \A t \in Ana!Streams : t # s => buf'[t] = buf[t]
    BY <1>1, <2>5 DEF SinkTypeInv
  <2>7. /\ flusher' \in [Ana!Flushers -> SinkFlushes] /\ HoldsFewer
        /\ \A g \in Ana!Flushers : /\ flusher'[g].todo = <<>> => flusher'[g].rows = <<>>
                                   /\ flusher'[g].sent => flusher'[g].rows # <<>>
    BY <1>1, <2>3, FlushTurns
  <2>8. SinkTypeInv'
    BY <1>1, <2>1, <2>2, <2>6, <2>7 DEF SinkTypeInv
  <2>9. RowsTaken'
    <3> SUFFICES ASSUME NEW t \in Ana!Streams
                 PROVE  /\ Len(records[t]) <= Ana!Limit(t) /\ stored[t] <= taken[t] /\ taken[t] <= Len(records[t]) /\ Len(buf'[t]) <= MaxBuffer
                        /\ \A i \in 1..Len(buf'[t]) : buf'[t][i] \in 1..taken[t] /\ Ana!Flattened(records[t][buf'[t][i]])
                        /\ \A g \in Ana!Flushers : Holds(g, t)' => \A k \in 1..Len(flusher'[g].rows) : flusher'[g].rows[k] \in 1..taken[t]
      BY <2>1 DEF RowsTaken
    <3>1. /\ Len(records[t]) <= Ana!Limit(t) /\ stored[t] <= taken[t] /\ taken[t] <= Len(records[t]) /\ Len(buf[t]) <= MaxBuffer
          /\ \A i \in 1..Len(buf[t]) : buf[t][i] \in 1..taken[t] /\ Ana!Flattened(records[t][buf[t][i]])
          /\ \A g \in Ana!Flushers : Holds(g, t) => \A k \in 1..Len(flusher[g].rows) : flusher[g].rows[k] \in 1..taken[t]
      BY <1>1 DEF RowsTaken
    <3>2. CASE t = s
      <4>1. Len(buf'[s]) <= MaxBuffer
        <5>1. ASSUME NEW l \in Nat, NEW m \in Nat, m <= l, l <= MaxBuffer PROVE l - m <= MaxBuffer
          BY <5>1, StorefrontConstants
        <5>2. Len(buf[s]) \in Nat
          BY <1>5
        <5> QED
          BY <1>7, <2>4, <2>6, <3>1, <3>2, <5>1, <5>2
      <4>2. \A i \in 1..Len(buf'[s]) : \E j \in 1..Len(buf[s]) : buf'[s][i] = buf[s][j]
        BY <2>4, <2>6
      <4> QED
        BY <2>7, <3>1, <3>2, <4>1, <4>2 DEF HoldsFewer
    <3>3. CASE t # s
      BY <2>6, <2>7, <3>1, <3>3 DEF HoldsFewer
    <3> QED
      BY <3>2, <3>3
  <2>10. Ana!Apart' <=> Ana!Apart
    BY <2>1 DEF Ana!Apart
  <2>11. CASE Ana!Apart
    <3>1. /\ Ana!RowsKept' /\ Exclusive' /\ RowsAhead' /\ BufferGrows'
          /\ (StopDrains => StopDrains') /\ (OnceWritten => OnceWritten')
      <4>1. UNCHANGED <<records, taken, stored, table, mode, incidents, lost>>
        BY <2>1
      <4>2. fl.rows = <<>> /\ fl.sent = FALSE /\ flusher' = [flusher EXCEPT ![f] = fl]
            /\ fl.todo = IF flusher[f].todo = <<"events", "clicks">> THEN <<"clicks">> ELSE <<>>
        BY <2>3
      <4> QED
        BY <1>1, <1>4, <1>5, <2>1, <2>11, <4>1, <4>2, DropKeepsApart
    <3> QED
      BY <2>1, <2>8, <2>9, <3>1 DEF SinkInv
  <2>12. CASE ~Ana!Apart
    <3>1. "overlap" \in incidents'
      BY <2>1, <2>12 DEF Ana!Apart
    <3>2. Ana!RowsKept'
      BY <3>1 DEF Ana!RowsKept
    <3> QED
      BY <2>8, <2>9, <2>10, <2>12, <3>1, <3>2 DEF SinkInv
  <2> QED
    BY <2>11, <2>12
<1> QED
  <2>1. n > Len(buf[s]) \/ n <= Len(buf[s])
    BY <1>5
  <2> QED
    BY <1>6, <1>7, <2>1

(* Every step keeps the invariant of the sink.                             *)
LEMMA SinkStepKeeps ==
    ASSUME SinkInv, [Next]_vars
    PROVE  SinkInv'
<1>1. CASE UNCHANGED anVars
  BY <1>1 DEF anVars, SinkInv, SinkTypeInv, RowsTaken, Ana!RowsKept, Ana!Apart, Exclusive, RowsAhead, BufferGrows, StopDrains,
              OnceWritten, Holds, Due, LeftOf
<1>2. CASE Ana!AnNext
  <2>1. ASSUME NEW f \in Ana!Flushers, Ana!FlushStep(f) PROVE SinkInv'
    BY <2>1, ReserveKeeps, SendKeeps, DropKeeps DEF Ana!FlushStep
  <2>2. ASSUME NEW f \in Ana!Flushers, Ana!SendBatchFails(f) PROVE SinkInv'
    BY <2>2, SendFailsKeeps
  <2>3. ASSUME NEW s \in Ana!Streams, Ana!Handle(s) \/ Ana!CommitOffsets(s) PROVE SinkInv'
    BY <2>3, HandleKeeps, CommitKeeps
  <2> QED
    BY <1>2, <2>1, <2>2, <2>3, PublishKeeps, ShutdownKeeps, CrashKeeps, StartAgainKeeps DEF Ana!AnNext
<1>3. AnalyticsStep => Ana!AnNext
  BY DEF AnalyticsStep
<1> QED
  BY <1>1, <1>2, <1>3, SinkFrame

(* A row that was taken from Kafka is in its buffer or in ClickHouse       *)
(* unless an incident that may lose it has happened, and is there once     *)
(* unless one that may repeat it has (Sink, RunFlusher, Close).            *)
THEOREM RowsKeptOnce == Spec => []SinkKeepsRows
<1>1. Spec => []SinkInv
  BY SinkStart, SinkStepKeeps, PTL DEF Spec
<1>2. SinkInv => SinkKeepsRows
  <2> SUFFICES ASSUME SinkInv PROVE SinkKeepsRows
    OBVIOUS
  <2>1. Ana!AnTypeOK
    BY DEF SinkInv, SinkTypeInv, RowsTaken, Ana!AnTypeOK
  <2>2. Ana!WrittenOnce
    <3> SUFFICES ASSUME incidents \cap {"overlap", "unacked", "restart"} = {},
                        NEW s \in Ana!Streams, NEW i \in 1..Ana!Limit(s)
                 PROVE  /\ table[s][i] <= 1
                        /\ Ana!Contains(buf[s], i) /\ table[s][i] = 1 =>
                             \E f \in Ana!Flushers : flusher[f].sent /\ Ana!Contains(flusher[f].rows, i)
      BY DEF Ana!WrittenOnce
    <3> QED
      BY DEF SinkInv, OnceWritten
  <2> QED
    BY <2>1, <2>2 DEF SinkInv, SinkKeepsRows
<1> QED
  BY <1>1, <1>2, PTL
=============================================================================
