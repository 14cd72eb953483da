------------------------------ MODULE Storefront ------------------------------
(***************************************************************************)
(* The services in front of and beside checkout: shops and their staff in  *)
(* OpenFGA, the catalog with the consumers of product_changed, shared      *)
(* orders, media, carts and the cart page, the paged listings, the way     *)
(* through ingress and BFF, and the analytics sink.  Services that share   *)
(* no state are not run together (Deployments): their steps commute.       *)
(***************************************************************************)
EXTENDS Integers, Sequences, FiniteSets, Access

CONSTANTS Deployments,                                              \* sets of parts run together
          FgaClients, Owners, ShopNames, Slugify, MaxShopEvents,    \* Fga, Seller
          Listed, FirstParty, Editors, MaxProductEvents,            \* Catalog
          NoDoc, StockAttempts,                                     \* Search
          SharedOrders, OrderOwner,                                 \* Sharing
          Assets, ContentTypes, OtherTypes, MaxUploadBytes, Sizes, Confirmers, MaxReady, MaxPuts,
          Carts, CartProducts, Half, MaxLineQuantity, Quantities, CartRequests, MaxCartOps,
          TaxRates, DefaultTax, Coupons, Pages, PageCart, PriceSet, MaxEdits,
          RowIDs, Subjects, PageSizes, DefaultPage, MaxPage, MaxOffset, MaxClock, MaxChanges,
          Visitors,                                                 \* principals who page and log in
          Life, MaxNow, MaxKeys, MaxCalls, Calls,
          BatchSize, MaxBuffer, Loads, MaxBeacon,                   \* Analytics
          MaxSinkFaults,                                            \* bound on its crashes and failed sends
          MaxFaults                                                 \* bound on other restarts

VARIABLES up, restarts,
          stores, fgaClient, tuples, granted, asked,
          shop, shopEvents, ownerTuple,
          product, productEvents, edit,
          searchAt, searchStored, index, stockAt, stockTries, stockParked, stockRows,
          asset, object, presigned, confirm, assetEvents, uploaded,
          cart, cartReq, cartOps, serial, disturbed, wrapped,
          price, couponRows, pageReq, edits,
          rows, clock, changes, walk,
          now, key, jwks, cookies, call, answers, signedOut,
          records, taken, stored, buf, table, flusher, degraded, mode, incidents, lost, anFaults

F   == INSTANCE Fga
Sel == INSTANCE Seller
Cat == INSTANCE Catalog WITH Listings <- Listed
Sea == INSTANCE Search WITH Listings <- Listed
Sha == INSTANCE Sharing
Med == INSTANCE Media
Pag == INSTANCE CartPage
Lis == INSTANCE Listings
Edg == INSTANCE Edge
Ana == INSTANCE Analytics

fgaVars == <<stores, fgaClient, tuples, granted, asked>>
sellerVars == <<shop, shopEvents, ownerTuple>>
catalogVars == <<product, productEvents, edit>>
searchVars == <<searchAt, searchStored, index, stockAt, stockTries, stockParked, stockRows>>
mediaVars == <<asset, object, presigned, confirm, assetEvents, uploaded>>
cartVars == <<cart, cartReq, cartOps, serial, disturbed, wrapped>>
pageVars == <<price, couponRows, pageReq, edits>>
listVars == <<rows, clock, changes, walk>>
edgeVars == <<now, key, jwks, cookies, call, answers, signedOut>>
anVars == <<records, taken, stored, buf, table, flusher, degraded, mode, incidents, lost, anFaults>>
frontVars == <<mediaVars, cartVars, pageVars, listVars, edgeVars, anVars>>
shopVars == <<fgaVars, sellerVars, catalogVars, searchVars>>
vars == <<up, restarts, shopVars, frontVars>>

(* clickhouse.Open raises the bound on the buffer to a batch; slugs are    *)
(* functions of names, orders have owners.                                 *)
ASSUME StorefrontConstants ==
    /\ BatchSize \in Nat \ {0} /\ MaxBuffer \in Nat /\ MaxBuffer >= BatchSize
    /\ DOMAIN Slugify = ShopNames /\ Owners \subseteq Principals /\ Visitors \subseteq Principals
    /\ OrderOwner \in [SharedOrders -> Principals]
    /\ MaxLineQuantity \in 1..(Half - 1) /\ MaxUploadBytes \in Nat \ {0}

(* The bounds are numbers; the values that stand for nothing are nothing.  *)
ASSUME StorefrontBounds ==
    /\ MaxReady \in Nat /\ MaxShopEvents \in Nat /\ MaxProductEvents \in Nat /\ MaxFaults \in Nat
    /\ MaxNow \in Nat /\ Life \in Nat /\ MaxCalls \in Nat /\ MaxKeys \in Nat \ {0}
    /\ MaxBeacon \in Nat /\ MaxSinkFaults \in Nat
ASSUME StorefrontLoads == IsFiniteSet(Loads) /\ Loads # {} /\ Loads \subseteq [events : Nat, clicks : Nat]
ASSUME StorefrontCarts ==
    /\ Half \in Nat /\ Quantities \subseteq -Half .. Half - 1 /\ IsFiniteSet(CartProducts) /\ MaxCartOps \in Nat
    /\ "" \notin Carts /\ PageCart \in Carts

(* The catalog refuses negative prices (validateMoney); the coupons are    *)
(* the migration's, and a share of the price is at most all of it; taxes   *)
(* are charged, not paid out.                                              *)
ASSUME StorefrontPrices ==
    /\ MaxEdits \in Nat /\ DefaultTax \in Nat /\ \A c \in DOMAIN TaxRates : TaxRates[c] \in Nat
    /\ \A x \in PriceSet : x.units \in Nat /\ x.nanos \in Nat
    /\ Coupons \subseteq [code : STRING \ {""}, kind : {"PERCENT", "AMOUNT"}, off : Nat, expired : BOOLEAN,
                         maxUses : Nat, usedCount : Nat]
    /\ \A c \in Coupons : c.kind = "PERCENT" => c.off <= 100
ASSUME StorefrontLists ==
    /\ RowIDs \subseteq Nat /\ IsFiniteSet(RowIDs) /\ PageSizes \subseteq Int
    /\ DefaultPage \in Nat \ {0} /\ MaxPage \in Nat /\ MaxOffset \in Nat /\ MaxClock \in Nat /\ MaxChanges \in Nat
ASSUME StorefrontNames ==
    /\ IsFiniteSet(FgaClients) /\ {"seller", "catalog", "order"} \subseteq FgaClients
    /\ FirstParty \notin Owners /\ "" \notin Principals
    /\ NoDoc \notin Nat /\ StockAttempts \in Nat \ {0}

(* What is not deployed waits in one initial state.                        *)
Init ==
    /\ up \in Deployments /\ restarts = 0
    /\ F!FgaInit /\ Sel!SellerInit /\ Cat!CatalogInit /\ Sea!SearchInit /\ Med!MediaInit
    /\ Pag!CartInit /\ Lis!ListInit
    /\ Pag!PageInit /\ ("page" \notin up => price = <<>> /\ couponRows = {})
    /\ Edg!EdgeInit /\ ("edge" \notin up => jwks = {})
    /\ Ana!AnInit

Restart == restarts < MaxFaults /\ restarts' = restarts + 1
Staying == UNCHANGED <<up, restarts>>

(* The services of a deployment that hold an OpenFGA client.               *)
ClientsUp ==
    {c \in FgaClients : \/ c \in up
                        \/ c = "catalog" /\ "seller" \in up
                        \/ c = "order" /\ "sharing" \in up}

FgaStep ==
    /\ \E c \in ClientsUp :
         \/ F!Bootstrap(c) /\ UNCHANGED restarts
         \/ F!RestartClient(c) /\ Restart
    /\ UNCHANGED <<up, sellerVars, catalogVars, searchVars, frontVars>>

SellerStep ==
    /\ "seller" \in up
    /\ \/ \E o \in Owners, n \in ShopNames : Sel!CreateShop(o, n) \/ Sel!UpdateShop(o, n)
       \/ \E o \in Owners : Sel!WriteOwnerTuple(o)
       \/ \E p \in Principals, o \in Owners : Sel!ActivateShop(p, o) \/ Sel!SuspendShop(p, o)
       \/ \E o \in Owners, p \in Principals : Sel!AddShopStaff(o, p) \/ Sel!RemoveShopStaff(o, p)
    /\ Staying /\ UNCHANGED <<catalogVars, searchVars, frontVars>>

CatalogStep ==
    /\ "catalog" \in up
    /\ \E e \in Editors :
         \/ \E p \in Principals, s \in Listed,
               o \in {FirstParty} \cup {x \in Owners : shop[x].status # "NONE"} : Cat!CreateProduct(e, p, s, o)
         \/ \E p \in Principals, s \in Listed :
              (\E to \in {"DRAFT", "ACTIVE", "ARCHIVED"} : Cat!UpdateProduct(e, p, s, to)) \/ Cat!ArchiveProduct(e, p, s)
         \/ Cat!WriteTx(e)
    /\ Staying /\ UNCHANGED <<sellerVars, searchVars, frontVars>>

IndexStep == "search" \in up /\ Sea!IndexNext /\ Staying /\ UNCHANGED <<fgaVars, sellerVars, catalogVars, frontVars>>
StockStep == "stock" \in up /\ Sea!EnsureStockRow /\ Staying /\ UNCHANGED <<fgaVars, sellerVars, catalogVars, frontVars>>
SearchStep ==  \* and inventory's consumer: calls that fail, restarts
    /\ \/ "search" \in up /\ (Sea!IndexFails \/ Sea!SearchCommit) /\ UNCHANGED restarts
       \/ "search" \in up /\ Sea!SearchRestart /\ Restart
       \/ "stock" \in up /\ Sea!EnsureStockRowFails /\ UNCHANGED restarts
       \/ "stock" \in up /\ Sea!StockRestart /\ Restart
    /\ UNCHANGED <<up, fgaVars, sellerVars, catalogVars, frontVars>>

SharingStep ==
    /\ "sharing" \in up
    /\ \E p, q \in Principals, o \in SharedOrders : Sha!ShareOrder(p, o, q) \/ Sha!RevokeOrderShare(p, o, q)
    /\ Staying /\ UNCHANGED <<sellerVars, catalogVars, searchVars, frontVars>>

MediaStep ==
    /\ "media" \in up
    /\ \/ \E p \in Principals, k \in Assets, n \in Sizes, t \in ContentTypes \cup OtherTypes : Med!CreateUploadURL(p, k, t, n)
       \/ \E k \in Assets, n \in Sizes, t \in ContentTypes \cup OtherTypes : Med!PutObject(k, t, n)
       \/ \E k \in Assets : Med!URLExpires(k)
       \/ \E c \in Confirmers : Med!Head_(c) \/ Med!StoreMarkReady(c)
       \/ \E c \in Confirmers, p \in Principals, k \in Assets : Med!ConfirmUpload(c, p, k)
    /\ Staying /\ UNCHANGED <<shopVars, cartVars, pageVars, listVars, edgeVars, anVars>>

(* The cart's requests.  Beside the cart page, which reads the cart once,  *)
(* they fill one cart, each product once, before a page is asked for.      *)
CartStep ==
    /\ up \cap {"cart", "page"} # {}
    /\ \E r \in CartRequests :
         \/ \E p \in CartProducts, q \in Quantities :
              /\ "page" \in up /\ q > 0 /\ p \notin DOMAIN cart[PageCart] /\ (\A v \in Pages : pageReq[v].pc = "idle")
              /\ \A x \in CartRequests : cartReq[x].pc = "idle"
              /\ Pag!LoadCart(r, "add", PageCart, p, q)
         \/ /\ "cart" \in up
            /\ \E c \in Carts, p \in CartProducts :
                 (\E op \in {"add", "set"}, q \in Quantities : Pag!LoadCart(r, op, c, p, q))
                    \/ Pag!LoadCart(r, "remove", c, p, 0)
         \/ "cart" \in up /\ \E c \in Carts : Pag!LoadCart(r, "clear", c, "", 0)
         \/ "cart" \in up /\ \E from, to \in Carts : Pag!LoadFrom(r, from, to)
         \/ Pag!SaveCart(r) \/ Pag!LoadTo(r) \/ Pag!SaveMerged(r) \/ Pag!DeleteFrom(r)
    /\ Staying /\ UNCHANGED <<shopVars, mediaVars, pageVars, listVars, edgeVars, anVars>>
CartExpires ==
    /\ "cart" \in up /\ \E c \in Carts : Pag!ExpireCart(c)
    /\ Staying /\ UNCHANGED <<shopVars, mediaVars, pageVars, listVars, edgeVars, anVars>>

PageStep ==
    /\ "page" \in up
    /\ \/ \E p \in CartProducts, x \in PriceSet : Pag!ChangePrice(p, x)
       \/ \E c \in couponRows : Pag!CouponExpires(c)
       \/ \E v \in Pages :
            \/ \E k \in {y.code : y \in Coupons} \cup {""} : Pag!RespondCart(v, PageCart, k)
            \/ Pag!BatchProductsByID(v) \/ Pag!QuoteCartItems(v) \/ Pag!QuoteWithoutCoupon(v) \/ Pag!PageDone(v)
    /\ Staying /\ UNCHANGED <<shopVars, mediaVars, cartVars, listVars, edgeVars, anVars>>

ListStep ==
    /\ "lists" \in up /\ walk.pc \notin {"done", "refused"}   \* one walk is followed
    /\ \/ \E ids \in SUBSET RowIDs, o \in Subjects : Lis!InsertRows(ids, o)
       \/ \E r \in rows, to \in Lis!RowStatus : Lis!ChangeRow(r, to)
       \/ Lis!TimePasses
       \/ \E p \in Visitors, l \in Lis!Lists, o \in Subjects \cup {""}, s \in {"", "HIDDEN"}, n \in PageSizes :
            Lis!OpenList(p, l, o, s, n)
       \/ Lis!TimePage \/ Lis!ProductPage \/ Lis!SearchHits
    /\ Staying /\ UNCHANGED <<shopVars, mediaVars, cartVars, pageVars, edgeVars, anVars>>

(* What a client may present that is not the browser: an operator's token, *)
(* soon out of date, and one Keycloak never signed.  Customers log in.     *)
OtherTokens == {[sub |-> p, exp |-> 0, key |-> k] : p \in {x \in Principals : RolesOf[x] # {}}, k \in {0, 1}}
EdgeStep ==
    /\ "edge" \in up /\ Len(answers) < MaxCalls   \* the bound ends the behaviour
    /\ \/ Edg!TimeGoesOn \/ Edg!RotateKey \/ Edg!RefreshJWKS
       \/ \E p \in {x \in Visitors : RolesOf[x] = {}} : Edg!Login(p)
       \/ \E c \in Calls, r \in Edg!Router :
            \E bad \in BOOLEAN : Edg!Send(c, r, Edg!Bearer, bad) \/ \E t \in OtherTokens : Edg!Send(c, r, t, bad)
       \/ \E c \in Calls, rpc \in Edg!AllRPCs, t \in OtherTokens \cup {Edg!NoToken} : Edg!DialService(c, rpc, t)
       \/ \E c \in Calls : Edg!EdgeCheck(c) \/ Edg!Forward(c) \/ Edg!Logout(c) \/ Edg!Serve(c)
    /\ Staying /\ UNCHANGED <<shopVars, mediaVars, cartVars, pageVars, listVars, anVars>>

AnalyticsKeep == Staying /\ UNCHANGED <<shopVars, mediaVars, cartVars, pageVars, listVars, edgeVars>>
AnalyticsApart == "analytics" \in up /\ Ana!Apart
AnalyticsStep == "analytics" \in up /\ Ana!AnNext /\ AnalyticsKeep

Next ==
    \/ FgaStep \/ SellerStep \/ CatalogStep \/ IndexStep \/ StockStep \/ SearchStep \/ SharingStep
    \/ MediaStep \/ CartStep \/ CartExpires \/ PageStep \/ ListStep \/ EdgeStep \/ AnalyticsStep

(* main of search and of inventory run their consumers, main of analytics  *)
(* its consumers, its flusher and a shutdown to the end.                   *)
Fairness ==
    /\ WF_vars(IndexStep) /\ WF_vars(StockStep)
    /\ \A s \in Ana!Streams : WF_vars(AnalyticsApart /\ Ana!Handle(s) /\ AnalyticsKeep)
    /\ \A f \in Ana!Flushers : WF_vars("analytics" \in up /\ Ana!FlushStep(f) /\ AnalyticsKeep)
    /\ WF_vars(AnalyticsApart /\ Ana!Tick /\ AnalyticsKeep)
    /\ WF_vars(AnalyticsApart /\ (Ana!LastFlush \/ Ana!Close \/ Ana!StartAgain) /\ AnalyticsKeep)

Spec == Init /\ [][Next]_vars /\ Fairness

-----------------------------------------------------------------------------
(* Each part's own promise, its types included, kept while what shares     *)
(* state with it runs (the full statements are with the definitions).      *)

(* A right that was granted in OpenFGA is in force in the service that     *)
(* asks for it and one that was withdrawn is not: a shop's staff, granted  *)
(* by seller and asked for by catalog, and the viewers of an order.  Whom  *)
(* seller lists are those whom catalog lets write, beside the owner and    *)
(* operators (AddShopStaff, ListShopStaff, mayWriteProduct, ShareOrder,    *)
(* GetOrder).                                                              *)
DelegationRight ==
    /\ F!FgaTypeOK /\ up \in Deployments /\ restarts \in 0..MaxFaults
    /\ F!GrantsInForce("seller", "catalog", "staff") /\ Sha!OrdersSeenByRight
    /\ F!SameStore("seller", "catalog") =>
         \A o \in Owners : \A p \in Principals :
            /\ p \in Sel!ListShopStaff(o) => Cat!MayWriteProduct(p, o)
            /\ Cat!MayWriteProduct(p, o) => p \in Sel!ListShopStaff(o) \cup {o} \/ HasRole(p, "catalog_manager")

(* What shops, products and assets announce is what became of their rows,  *)
(* with two operators, editors or confirmations at once; and the two       *)
(* consumers of product_changed, once they have read all of it, agree with *)
(* the catalog through failing calls and restarts: the index holds the     *)
(* ACTIVE products with their content (not their shop, which no event      *)
(* tells), so that a hit is on its shop's page and opens for everybody as  *)
(* it was found; and every product has a stock row, unless inventory       *)
(* parked every event of it (Transition, writeTx, MarkReady,               *)
(* UpsertFromEvent, GetProduct, EnsureStockRow).                           *)
AnnouncedTruthfully ==
    /\ Sel!SellerTypeOK /\ Cat!CatalogTypeOK /\ Sea!SearchTypeOK
    /\ Sel!ShopHistory /\ Cat!EventsTellRow /\ Med!EventsTellAsset
    /\ searchAt = Len(productEvents) =>
         /\ \A s \in Listed : s \in Sea!Hits <=> s \in Cat!ListProducts(product[s].shop)
         /\ \A s \in Sea!Hits, p \in Principals : Cat!GetProduct(p, s) = product[s] /\ product[s].version = index[s]
    /\ \A s \in stockRows : product[s].status # "NONE"
    /\ stockAt = Len(productEvents) =>
         \A s \in Listed : \/ product[s].status = "NONE" \/ s \in stockRows
                           \/ \A i \in 1..Len(productEvents) : productEvents[i].slug = s => i \in stockParked

(* A READY asset was uploaded as its row says (MarkReady, ConfirmUpload).  *)
ReadyWasSeen == Med!MediaTypeOK /\ Med!ReadyWasSeen

(* Carts hold legal lines and what requests put into them, and the page    *)
(* shows amounts and coupons that belong together (clampQty, load, save,   *)
(* Merge, respondCart, quoteCartItems, Price).                             *)
CartsRight == Pag!CartTypeOK /\ Pag!PageTypeOK /\ Pag!LinesLegal /\ Pag!UnitsAccounted /\ Pag!ViewFits

(* A walk through a listing misses no row and shows none twice, or to the  *)
(* wrong customer (List, listPage, Search).                                *)
WalksRight == Lis!ListTypeOK /\ Lis!WalkComplete /\ Lis!WalkDisjoint

(* A call is answered by whoever may answer it, with the status its error  *)
(* has (ext-authz, authUnary, ClearCookies, FromGRPC).                     *)
CallsRight ==
    Edg!EdgeTypeOK /\ Edg!ActsForVerified /\ Edg!PublicIsOpen /\ Edg!EdgeNotStricter /\ Edg!LogoutForgets /\ Edg!StatusTellsKind

(* The analytics sink keeps a row until ClickHouse has it, and writes it   *)
(* once (flushEvents, flushClicks, Close).                                 *)
SinkKeepsRows == Ana!AnTypeOK /\ Ana!RowsKept /\ Ana!WrittenOnce

(* Every product event reaches the index, and every analytics record that  *)
(* no incident loses reaches ClickHouse, through restarts, failed sends    *)
(* and a full buffer (Handler, RunFlusher, Retryable).                     *)
EventsLand == []<>(("search" \in up => searchAt = Len(productEvents)) /\ Ana!AllLanded)
=============================================================================
