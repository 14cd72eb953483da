--------------------------------- MODULE Edge ---------------------------------
(***************************************************************************)
(* The way of a request from the browser to a handler: ext-authz looks at  *)
(* the token at the ingress (services/ext-authz), the BFF forwards it      *)
(* (services/bff), and the service verifies it before its handler asks for *)
(* a role (pkg/auth, pkg/grpcx).  On the way back the handler's error      *)
(* becomes a gRPC status and that an HTTP status (pkg/errs).  Keycloak     *)
(* signs tokens, changes its key, and publishes its keys, which each       *)
(* service fetches now and then.  Time is in steps of 30 seconds.          *)
(***************************************************************************)
EXTENDS Integers, Sequences, FiniteSets, Access

CONSTANTS Life,          \* lifetime of an access token
          MaxNow, MaxKeys, MaxCalls,
          Calls          \* requests in flight together

VARIABLES now, key,      \* time, and Keycloak's signing key
          jwks,          \* keys the services know
          cookies,       \* the browser's cookies: name and path to token
          call,          \* requests on their way
          answers,       \* history: how requests ended, oldest first
          signedOut      \* history: a logout was answered, and no login since

edgeVars == <<now, key, jwks, cookies, call, answers, signedOut>>

EdgeLeeway == 2
ServiceLeeway == 1

(* DefaultConfig: the paths that need no token, and those of operators.    *)
PublicPrefixes == {"auth/login", "catalog", "search", "shops", "cart", "events"}
AdminPrefixes == {"admin"}
AdminRoles == {"admin", "platform_admin"}

(* The methods each service registers.                                     *)
CartService == {"GetCart", "AddItem", "SetItemQuantity", "RemoveItem", "Clear", "Merge"}
CatalogService == {"CreateProduct", "UpdateProduct", "ArchiveProduct", "GetProduct", "ListProducts", "ListShopProducts",
                   "BatchGetProducts"}
FulfillmentService == {"GetShipment", "ListShipments", "MarkShipped", "MarkDelivered", "CancelShipment"}
InventoryService == {"CheckAvailability", "Reserve", "Commit", "Release", "AdjustStock"}
MediaService == {"CreateUploadURL", "ConfirmUpload", "GetAsset"}
NotificationService == {"ListNotifications", "SendTest"}
OrderService == {"CreateOrder", "GetOrder", "ListOrders", "CancelOrder", "RequestReturn", "GetReturn", "ListReturns",
                 "DecideReturn", "ShareOrder", "RevokeOrderShare", "ListOrderShares"}
PaymentService == {"CreatePayment", "ConfirmPayment", "Refund", "Void"}
PayoutService == {"GetPayout", "ListPayouts", "MarkPaid"}
PricingService == {"QuotePrice", "ValidateCoupon"}
ReviewService == {"CreateReview", "ListReviews", "GetRatingSummary", "ModerateReview"}
SearchService == {"Search", "Autocomplete"}
SellerService == {"CreateShop", "GetMyShop", "GetShop", "UpdateShop", "ListShops", "ActivateShop", "SuspendShop",
                  "AddShopStaff", "RemoveShopStaff", "ListShopStaff"}

(* WithOptionalAuthMethods: a token is verified if there is one.           *)
CartOptionalMethods == CartService
CatalogOptionalMethods == {"GetProduct", "ListProducts", "BatchGetProducts"}
InventoryOptionalMethods == {"CheckAvailability", "Reserve", "Commit", "Release"}
MediaOptionalMethods == {"GetAsset"}
PaymentOptionalMethods == {"CreatePayment", "ConfirmPayment", "Refund", "Void"}
PricingOptionalMethods == {"QuotePrice", "ValidateCoupon"}
ReviewOptionalMethods == {"ListReviews", "GetRatingSummary"}
SellerOptionalMethods == {"GetShop"}

(* RequireRole, where a handler asks for one before anything else.         *)
RoleAsked(m) ==
    CASE m \in {"ListShops", "ActivateShop", "SuspendShop"} -> {"shop_admin"}
      [] m \in {"MarkShipped", "MarkDelivered", "CancelShipment", "DecideReturn"} -> {"order_manager"}
      [] m \in {"CreateUploadURL", "ConfirmUpload", "ModerateReview"} -> {"catalog_manager"}
      [] m = "AdjustStock" -> {"inventory_manager"}
      [] m = "MarkPaid" -> {"finance"}
      [] OTHER -> {}

(* How a service treats a call: search has no interceptor at all.          *)
RPC(service, m) ==
    [auth |-> CASE service = SearchService -> "skip"
                [] m \in CartOptionalMethods \cup CatalogOptionalMethods \cup InventoryOptionalMethods
                           \cup MediaOptionalMethods \cup PaymentOptionalMethods \cup PricingOptionalMethods
                           \cup ReviewOptionalMethods \cup SellerOptionalMethods -> "optional"
                [] OTHER -> "required",
     role |-> RoleAsked(m), soft |-> FALSE]
BestEffort(rpc) == [rpc EXCEPT !.soft = TRUE]   \* the BFF goes on without its answer
AllRPCs ==
    UNION {{RPC(s, m) : m \in s} :
        s \in {CartService, CatalogService, FulfillmentService, InventoryService, MediaService, NotificationService,
               OrderService, PaymentService, PayoutService, PricingService, ReviewService, SearchService, SellerService}}

(* What the saga and the reconciler call outside any request, and pricing  *)
(* for its quotes: nothing forwards a token (ForwardAuth, Dial).           *)
BackgroundCalls ==
    {RPC(InventoryService, m) : m \in {"Commit", "Release"}} \cup {RPC(PaymentService, m) : m \in {"Void", "Refund"}}
      \cup {RPC(CatalogService, "BatchGetProducts")}

(* The BFF's routes, by handler.  "signIn": the tokenless are turned away; *)
(* "body" says what a malformed body does: "bind" answers 400 and stops,   *)
(* "goOn" answers 400 and goes on, as bindProto and bindJSON return the    *)
(* nil of c.JSON; "calls" are the RPCs made one after the other.           *)
Route(path, signIn, body, calls) ==
    [edge |-> IF path \in PublicPrefixes THEN "public" ELSE IF path \in AdminPrefixes THEN "admin" ELSE "token",
     signIn |-> signIn, body |-> body, calls |-> calls]

BrowseRoutes ==
    [listProducts |-> Route("catalog", FALSE, "none", <<RPC(SearchService, "Search")>>),
     getProduct   |-> Route("catalog", FALSE, "none",
                            <<RPC(CatalogService, "GetProduct"), BestEffort(RPC(SellerService, "GetShop"))>>),
     autocomplete |-> Route("search", FALSE, "none", <<RPC(SearchService, "Autocomplete")>>)]
ShopPageRoutes ==
    [getShop |-> Route("shops", FALSE, "none", <<RPC(SellerService, "GetShop")>>),
     listShopPublicProducts |->
        Route("shops", FALSE, "none", <<RPC(SellerService, "GetShop"), RPC(CatalogService, "ListProducts")>>)]
IngestRoutes == [ingestEvents |-> Route("events", FALSE, "bind", <<>>)]

(* Cart routes end in respondCart.                                         *)
CartRoute(m, body) ==
    Route("cart", FALSE, body, <<RPC(CartService, m), BestEffort(RPC(CatalogService, "BatchGetProducts")),
                                 BestEffort(RPC(PricingService, "QuotePrice"))>>)
CartRoutes ==
    [getCart |-> CartRoute("GetCart", "none"), addCartItem |-> CartRoute("AddItem", "bind"),
     setCartItem |-> CartRoute("SetItemQuantity", "bind"), removeCartItem |-> CartRoute("RemoveItem", "none"),
     clearCart |-> CartRoute("Clear", "none")]
CheckoutRoutes ==
    [checkout |-> Route("checkout", TRUE, "bind", <<RPC(OrderService, "CreateOrder")>>),
     confirmCheckout |-> Route("checkout", TRUE, "bind", <<RPC(PaymentService, "ConfirmPayment")>>),
     listOrders |-> Route("orders", TRUE, "none", <<RPC(OrderService, "ListOrders")>>),
     getOrder |-> Route("orders", TRUE, "none", <<RPC(OrderService, "GetOrder")>>)]
SharingRoutes ==
    [shareOrder |-> Route("orders", TRUE, "goOn", <<RPC(OrderService, "ShareOrder")>>),
     revokeOrderShare |-> Route("orders", TRUE, "none", <<RPC(OrderService, "RevokeOrderShare")>>),
     listOrderShares |-> Route("orders", TRUE, "none", <<RPC(OrderService, "ListOrderShares")>>)]

OfMyShop(rpc) == <<RPC(SellerService, "GetMyShop"), rpc>>   \* the BFF looks up the caller's shop
ShopRoutes ==
    [createShop |-> Route("seller", TRUE, "goOn", <<RPC(SellerService, "CreateShop")>>),
     getMyShop |-> Route("seller", TRUE, "none", <<RPC(SellerService, "GetMyShop")>>),
     updateShop |-> Route("seller", TRUE, "goOn", <<RPC(SellerService, "UpdateShop")>>)]
StaffRoutes ==
    [addShopStaff |-> Route("seller", TRUE, "goOn", <<RPC(SellerService, "AddShopStaff")>>),
     removeShopStaff |-> Route("seller", TRUE, "none", <<RPC(SellerService, "RemoveShopStaff")>>),
     listShopStaff |-> Route("seller", TRUE, "none", <<RPC(SellerService, "ListShopStaff")>>)]
ShopProductRoutes ==
    [createShopProduct |-> Route("seller", TRUE, "goOn", OfMyShop(RPC(CatalogService, "CreateProduct"))),
     listShopProducts |-> Route("seller", TRUE, "none", OfMyShop(RPC(CatalogService, "ListShopProducts"))),
     listShopPayouts |-> Route("seller", TRUE, "none", OfMyShop(RPC(PayoutService, "ListPayouts"))),
     updateShopProduct |-> Route("seller", TRUE, "goOn", <<RPC(CatalogService, "UpdateProduct")>>),
     archiveShopProduct |-> Route("seller", TRUE, "none", <<RPC(CatalogService, "ArchiveProduct")>>)]
AdminShopRoutes ==
    [adminListShops |-> Route("admin", FALSE, "none", <<RPC(SellerService, "ListShops")>>),
     adminActivateShop |-> Route("admin", FALSE, "none", <<RPC(SellerService, "ActivateShop")>>),
     adminSuspendShop |-> Route("admin", FALSE, "goOn", <<RPC(SellerService, "SuspendShop")>>)]
AdminCatalogRoutes ==
    [createProduct |-> Route("admin", FALSE, "goOn", <<RPC(CatalogService, "CreateProduct")>>),
     updateProduct |-> Route("admin", FALSE, "goOn", <<RPC(CatalogService, "UpdateProduct")>>),
     archiveProduct |-> Route("admin", FALSE, "none", <<RPC(CatalogService, "ArchiveProduct")>>),
     createUpload |-> Route("admin", FALSE, "goOn", <<RPC(MediaService, "CreateUploadURL")>>),
     confirmUpload |-> Route("admin", FALSE, "goOn", <<RPC(MediaService, "ConfirmUpload")>>)]
AdminOrderRoutes ==
    [adminListOrders |-> Route("admin", TRUE, "none", <<RPC(OrderService, "ListOrders")>>),
     adminGetOrder |-> Route("admin", TRUE, "none", <<RPC(OrderService, "GetOrder")>>),
     adminListReturns |-> Route("admin", TRUE, "none", <<RPC(OrderService, "ListReturns")>>),
     adminDecideReturn |-> Route("admin", TRUE, "bind", <<RPC(OrderService, "DecideReturn")>>)]
AdminShipmentRoutes ==
    [adminListShipments |-> Route("admin", TRUE, "none", <<RPC(FulfillmentService, "ListShipments")>>),
     adminShipShipment |-> Route("admin", TRUE, "none", <<RPC(FulfillmentService, "MarkShipped")>>),
     adminDeliverShipment |-> Route("admin", TRUE, "none", <<RPC(FulfillmentService, "MarkDelivered")>>),
     adminCancelShipment |-> Route("admin", TRUE, "none", <<RPC(FulfillmentService, "CancelShipment")>>)]
AdminPayoutRoutes ==
    [adminListPayouts |-> Route("admin", TRUE, "none", <<RPC(PayoutService, "ListPayouts")>>),
     adminMarkPayoutPaid |-> Route("admin", TRUE, "none", <<RPC(PayoutService, "MarkPaid")>>)]
LogoutRoute == Route("auth/logout", FALSE, "none", <<>>)

(* Router.  Routes of one class, as seen from here, are the same route.    *)
Router ==
    (UNION {{g[h] : h \in DOMAIN g} :
        g \in {BrowseRoutes, ShopPageRoutes, IngestRoutes, CartRoutes, CheckoutRoutes, SharingRoutes, ShopRoutes, StaffRoutes,
               ShopProductRoutes, AdminShopRoutes, AdminCatalogRoutes, AdminOrderRoutes, AdminShipmentRoutes,
               AdminPayoutRoutes}})
      \cup {LogoutRoute}

(* A client of the mesh dials a service without ingress and BFF.           *)
Direct(rpc) == [edge |-> "none", signIn |-> FALSE, body |-> "none", calls |-> <<rpc>>]

NoToken == [sub |-> "", exp |-> 0, key |-> 0]
Tokens == [sub : Principals, exp : 0..(MaxNow + Life), key : 0..MaxKeys]
(* A token of key 0 is one Keycloak never signed.                          *)

(* errs.Kind, as the handlers and the interceptor use it.                  *)
Kinds == {"Internal", "InvalidArgument", "NotFound", "AlreadyExists", "PermissionDenied", "Unauthenticated",
          "FailedPrecondition", "Conflict", "ResourceExhausted", "Unavailable", "DeadlineExceeded"}

(* A request: the next of its route's calls; whether its body is malformed *)
(* and 400 was written; the calls a handler served, and when; whether an   *)
(* interceptor turned it away.                                             *)
NoCall ==
    [pc |-> "idle", route |-> LogoutRoute, token |-> NoToken, next |-> 1, bad |-> FALSE, written |-> FALSE,
     served |-> {}, refused |-> FALSE, kind |-> ""]

EdgeTypeOK ==
    /\ now \in 0..MaxNow /\ key \in 1..MaxKeys /\ jwks \subseteq 1..MaxKeys
    /\ DOMAIN cookies \subseteq {<<"access_token", "/">>, <<"refresh_token", "/api/v1/auth">>}
    /\ \A c \in Calls : call[c].pc \in {"idle", "edge", "bff", "service"} /\ call[c].kind \in Kinds \cup {""}
                         /\ call[c].next \in 1..3
    /\ Len(answers) <= MaxCalls /\ signedOut \in BOOLEAN

EdgeInit ==
    /\ now = 0 /\ key = 1 /\ jwks \in {{}, {1}}
    /\ cookies = <<>> /\ call = [c \in Calls |-> NoCall] /\ answers = <<>> /\ signedOut = FALSE

TimeGoesOn ==
    /\ now < MaxNow /\ now' = now + 1
    \* the browser drops the access cookie at its MaxAge
    /\ cookies' = [k \in {x \in DOMAIN cookies : x[1] = "refresh_token" \/ cookies[x].exp > now'} |-> cookies[k]]
    /\ UNCHANGED <<key, jwks, call, answers, signedOut>>
RotateKey == key < MaxKeys /\ key' = key + 1 /\ UNCHANGED <<now, jwks, cookies, call, answers, signedOut>>

(* keyfunc's refresh: Keycloak publishes the new key and the old ones.     *)
RefreshJWKS == jwks' = 1..key /\ jwks' # jwks /\ UNCHANGED <<now, key, cookies, call, answers, signedOut>>

(* Broker.Login and SetCookies; a path of its own for the refresh token.   *)
Login(p) ==
    /\ \E t \in {[sub |-> p, exp |-> now + Life, key |-> key]} :
         cookies' = [k \in {<<"access_token", "/">>, <<"refresh_token", "/api/v1/auth">>} |-> t]
    /\ signedOut' = FALSE /\ UNCHANGED <<now, key, jwks, call, answers>>

(* bearer and bearerFromHeaders: the cookie, if the browser has it.        *)
Bearer == IF <<"access_token", "/">> \in DOMAIN cookies THEN cookies[<<"access_token", "/">>] ELSE NoToken

(* The browser calls a route, or some client with a token of its own, or a *)
(* client in the mesh dials a service.                                     *)
Start(c, r, t, bad, pc) ==
    /\ call[c].pc = "idle" /\ Len(answers) + Cardinality({d \in Calls : call[d].pc # "idle"}) < MaxCalls
    /\ call' = [call EXCEPT ![c] = [NoCall EXCEPT !.pc = pc, !.route = r, !.token = t, !.bad = bad]]
    /\ UNCHANGED <<now, key, jwks, cookies, answers, signedOut>>
Send(c, r, t, bad) == (r.body = "none" => ~bad) /\ Start(c, r, t, bad, "edge")
DialService(c, rpc, t) == Start(c, Direct(rpc), t, FALSE, "service")

(* Mutant: the ingress allows no leeway.                                   *)
ParseInsecureStrict(t) == now < t.exp

(* ParseInsecure: the claims are read, not verified.                       *)
ParseInsecure(t) == ~(now - EdgeLeeway > t.exp)

(* Verify: signed with a key the service knows, and in time.               *)
Verify(t) == t.key \in jwks /\ now - ServiceLeeway < t.exp

(* The first status written is the one the client sees.                    *)
Answer(c, req, status, at) ==
    /\ answers' = Append(answers, [status |-> IF req.written THEN 400 ELSE status, at |-> at, call |-> req,
                                   verified |-> Verify(req.token)])
    /\ call' = [call EXCEPT ![c] = NoCall]

(* Checker.Check.                                                          *)
Check(r, t) ==
    CASE r.edge = "public" -> 200
      [] r.edge # "public" /\ t = NoToken -> 401
      [] r.edge # "public" /\ t # NoToken /\ ~ParseInsecure(t) -> 401
      [] r.edge = "admin" /\ t # NoToken /\ ParseInsecure(t) /\ ~HasAnyRole(t.sub, AdminRoles) -> 403
      [] OTHER -> 200

(* ext-authz: server.Check lets the request on or answers it.              *)
EdgeCheck(c) ==
    LET status == Check(call[c].route, call[c].token) IN
    /\ call[c].pc = "edge"
    /\ IF status = 200 THEN call' = [call EXCEPT ![c].pc = "bff"] /\ UNCHANGED answers
       ELSE Answer(c, call[c], status, "edge")
    /\ UNCHANGED <<now, key, jwks, cookies, signedOut>>

(* ClearCookies: each cookie at the path it was set on.                    *)
ClearCookies(ks) == {k \in ks : k \notin {<<"access_token", "/">>, <<"refresh_token", "/api/v1/auth">>}}

(* requireAuth: somebody without a token is answered 401.                  *)
RequireAuth(req) == req.route.signIn => req.token # NoToken

(* The BFF: requireAuth, the body, then the calls with the token (outCtx); *)
(* a route without calls is answered at once, logout among them.           *)
Forward(c) ==
    LET req == call[c] IN
    /\ req.pc = "bff" /\ req.route # LogoutRoute
    /\ CASE ~RequireAuth(req) -> Answer(c, req, 401, "bff")
         [] RequireAuth(req) /\ req.bad /\ req.route.body = "bind" -> Answer(c, req, 400, "bff")
         [] OTHER ->
              IF req.route.calls = <<>> THEN \E status \in {202, 503} : Answer(c, req, status, "bff")
              ELSE call' = [call EXCEPT ![c].pc = "service", ![c].written = req.bad] /\ UNCHANGED answers
    /\ UNCHANGED <<now, key, jwks, cookies, signedOut>>
Logout(c) ==
    /\ call[c].pc = "bff" /\ call[c].route = LogoutRoute
    /\ cookies' = [k \in ClearCookies(DOMAIN cookies) |-> cookies[k]]
    /\ Answer(c, call[c], 204, "bff") /\ signedOut' = TRUE
    /\ UNCHANGED <<now, key, jwks>>

(* authUnary: who calls, or nobody, or a refusal.                          *)
AuthUnary(rpc, t) ==
    IF rpc.auth = "skip" \/ (t = NoToken /\ rpc.auth = "optional") THEN [ok |-> TRUE, p |-> ""]
    ELSE [ok |-> t # NoToken /\ Verify(t), p |-> t.sub]

(* Kind.HTTPStatus.                                                        *)
HTTPStatus(k) ==
    CASE k = "InvalidArgument" -> 400 [] k = "Unauthenticated" -> 401 [] k = "PermissionDenied" -> 403
      [] k = "NotFound" -> 404 [] k \in {"AlreadyExists", "Conflict"} -> 409 [] k = "FailedPrecondition" -> 412
      [] k = "ResourceExhausted" -> 429 [] k = "Unavailable" -> 503 [] k = "DeadlineExceeded" -> 504
      [] OTHER -> 500

(* Kind.GRPCCode, through which ToStatus sends an error: the codes have    *)
(* the kinds' names, but for one.                                          *)
GRPCCode(k) == IF k = "Conflict" THEN "Aborted" ELSE k

(* httpForCode, with which FromGRPC answers the browser.                   *)
HttpForCode(code) ==
    CASE code = "OK" -> 200 [] code \in {"InvalidArgument", "OutOfRange"} -> 400 [] code = "Unauthenticated" -> 401
      [] code = "PermissionDenied" -> 403 [] code = "NotFound" -> 404 [] code \in {"AlreadyExists", "Aborted"} -> 409
      [] code = "FailedPrecondition" -> 412 [] code = "ResourceExhausted" -> 429 [] code = "Unavailable" -> 503
      [] code = "DeadlineExceeded" -> 504 [] code = "Unimplemented" -> 501 [] OTHER -> 500

(* The service: the interceptor, the handler's role, and what becomes of   *)
(* the request, which may fail in any way of its own.                      *)
HandlerKinds(rpc, who) ==
    IF rpc.role = {} \/ RequireAnyRole(who.p, rpc.role) THEN Kinds
    ELSE IF who.p \in Principals THEN {"PermissionDenied"} ELSE {"Unauthenticated"}
(* loggingUnary turns the error into a status, and fail answers with it.   *)
Fail(c, kind, refused) ==
    Answer(c, [call[c] EXCEPT !.kind = kind, !.refused = refused], HttpForCode(GRPCCode(kind)), "handler")
GoOn(c, req) ==
    IF req.next = Len(req.route.calls) THEN Answer(c, req, 200, "handler")
    ELSE call' = [call EXCEPT ![c] = [req EXCEPT !.next = @ + 1]] /\ UNCHANGED answers
Serve(c) ==
    LET req == call[c]  rpc == req.route.calls[req.next]  who == AuthUnary(rpc, req.token) IN
    /\ req.pc = "service"
    /\ \/ ~who.ok /\ ~rpc.soft /\ Fail(c, "Unauthenticated", TRUE)
       \/ who.ok /\ ~rpc.soft /\ \E k \in HandlerKinds(rpc, who) : Fail(c, k, FALSE)
       \/ rpc.soft /\ GoOn(c, req)
       \/ /\ who.ok /\ (rpc.role # {} => RequireAnyRole(who.p, rpc.role))
          /\ GoOn(c, [req EXCEPT !.served = @ \cup {[rpc |-> rpc, at |-> now]}])
    /\ UNCHANGED <<now, key, jwks, cookies, signedOut>>

-----------------------------------------------------------------------------
(* A handler acts for somebody only on a token Keycloak signed for them,   *)
(* that has not been out of date for longer than the leeway, and with the  *)
(* role it asks for, whatever the ingress let through, whoever dials the   *)
(* service, and however late in a request of several calls (authUnary,     *)
(* RequireRole).                                                           *)
ActsForVerified ==
    \A i \in 1..Len(answers) : \A x \in answers[i].call.served :
        LET t == answers[i].call.token IN
        /\ x.rpc.auth = "required" \/ (x.rpc.auth = "optional" /\ t # NoToken) =>
             t # NoToken /\ t.key # 0 /\ x.at - ServiceLeeway < t.exp
        /\ x.rpc.role # {} => HasAnyRole(t.sub, x.rpc.role)

(* A visitor without a token is turned away from no public page by a       *)
(* service behind it, nor is the saga when it acts outside a request: the  *)
(* three tables of who may pass agree (DefaultConfig, Router,              *)
(* WithOptionalAuthMethods).                                               *)
PublicIsOpen ==
    \A i \in 1..Len(answers) :
        LET q == answers[i].call IN
        q.token = NoToken /\ (q.route.edge = "public" \/ \E b \in BackgroundCalls : q.route = Direct(b)) => ~q.refused

(* The ingress sends nobody away whose token the services would accept,    *)
(* but for the roles of the admin routes (ParseInsecure, Verify).          *)
EdgeNotStricter ==
    \A i \in 1..Len(answers) : answers[i].at = "edge" /\ answers[i].status = 401 => ~answers[i].verified

(* Who has logged out carries no token any more, the refresh token         *)
(* included, until the next login (SetCookies, ClearCookies).              *)
LogoutForgets == signedOut => DOMAIN cookies = {}

(* The status the browser gets is the status of the handler's error        *)
(* (GRPCCode, HTTPStatus, httpForCode).                                    *)
StatusTellsKind ==
    \A i \in 1..Len(answers) :
        answers[i].call.kind # "" =>
            answers[i].call.written \/ answers[i].status = HTTPStatus(answers[i].call.kind)

(* Not so: what was answered with 400 was not passed on to a service       *)
(* (bindProto, bindJSON).                                                  *)
BadRequestNotServed == \A i \in 1..Len(answers) : answers[i].status = 400 /\ answers[i].call.bad => answers[i].call.served = {}
=============================================================================
