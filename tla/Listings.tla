------------------------------- MODULE Listings -------------------------------
(***************************************************************************)
(* The paged listings: orders, returns, shipments, payouts, shops, reviews *)
(* and notifications go on from the created_at of the last row of a page,  *)
(* products from its created_at and id, and search from an offset.  A      *)
(* client walks one listing page by page while rows come and change.  Rows *)
(* written by one transaction have one created_at (now()).                 *)
(***************************************************************************)
EXTENDS Naturals, Sequences, FiniteSets, FiniteSetsExt, SequencesExt, Access

CONSTANTS RowIDs,        \* naturals, larger is later in the order of ids
          Subjects,      \* owners rows belong to
          PageSizes, DefaultPage, MaxPage, MaxOffset,
          MaxClock, MaxChanges

VARIABLES rows,          \* rows of the table: id, created_at, owner, status
          clock, changes,
          walk           \* the client's walk

listVars == <<rows, clock, changes, walk>>

RowStatus == {"PUBLISHED", "HIDDEN"}   \* shown in public and not, whatever the table calls it
TimeLists == {"orders", "returns", "shipments", "payouts", "shops", "reviews", "notifications"}
Lists == TimeLists \cup {"products", "search"}

NoWalk == [pc |-> "idle", list |-> "", by |-> "", owner |-> "", status |-> "", limit |-> 0,
           cursor |-> <<>>, seen |-> <<>>, must |-> {}, cuts |-> {}, calm |-> TRUE]

ListTypeOK ==
    /\ \A r \in rows : r.id \in RowIDs /\ r.at \in 0..MaxClock /\ r.owner \in Subjects /\ r.status \in RowStatus
    /\ \A r, q \in rows : r.id = q.id => r = q
    /\ clock \in 0..MaxClock /\ changes \in 0..MaxChanges
    /\ walk.pc \in {"idle", "paging", "done", "refused"}

ListInit == rows = {} /\ clock = 0 /\ changes = 0 /\ walk = NoWalk

(* A transaction inserts rows, a row changes its status, or time passes.   *)
InsertRows(ids, owner) ==
    /\ ids # {} /\ changes < MaxChanges /\ changes' = changes + 1
    /\ \A r \in rows : r.id \notin ids
    /\ rows' = rows \cup {[id |-> i, at |-> clock, owner |-> owner, status |-> "PUBLISHED"] : i \in ids}
    /\ walk' = [walk EXCEPT !.calm = FALSE] /\ UNCHANGED clock
ChangeRow(r, to) ==
    /\ r \in rows /\ r.status # to /\ changes < MaxChanges /\ changes' = changes + 1
    /\ rows' = (rows \ {r}) \cup {[r EXCEPT !.status = to]}
    /\ walk' = [walk EXCEPT !.calm = FALSE, !.must = @ \ {r.id}] /\ UNCHANGED clock
TimePasses == clock < MaxClock /\ clock' = clock + 1 /\ UNCHANGED <<rows, changes, walk>>

(* sqlfilter: only the filters that are given become predicates.           *)
Filters(owner, status) ==
    {r \in rows : (owner # "" => r.owner = owner) /\ (status # "" => r.status = status)}

(* The owner and the status the handlers ask the store for: a customer's   *)
(* own rows, or what an operator names; {} is a refusal.  The owner of a   *)
(* row is the shop of a payout or a product, and the product of a review;  *)
(* a shop's staff is the subject of its name.                              *)
Scoped(p, role, owner, status) ==
    {IF HasRole(p, role) THEN <<owner, status>> ELSE <<p, "">>}
ListOrders(p, owner, status) == Scoped(p, "order_manager", owner, status)
ListReturns(p, owner, status) == Scoped(p, "order_manager", "", status)
ListShipments(p, owner, status) == Scoped(p, "order_manager", "", status)
MayReadShop(p, owner) == HasRole(p, "finance") \/ p = owner
ListPayouts(p, owner, status) == IF MayReadShop(p, owner) THEN {<<owner, status>>} ELSE {}
ListShops(p, owner, status) == IF RequireRole(p, "shop_admin") THEN {<<"", status>>} ELSE {}
ListReviews(p, owner, status) == IF owner # "" THEN {<<owner, "PUBLISHED">>} ELSE {}
ListNotifications(p, owner, status) == {<<p, "">>}
ListProducts(p, owner, status) == {<<owner, "PUBLISHED">>}
Scope(list, p, owner, status) ==
    CASE list = "orders" -> ListOrders(p, owner, status)
      [] list = "returns" -> ListReturns(p, owner, status)
      [] list = "shipments" -> ListShipments(p, owner, status)
      [] list = "payouts" -> ListPayouts(p, owner, status)
      [] list = "shops" -> ListShops(p, owner, status)
      [] list = "reviews" -> ListReviews(p, owner, status)
      [] list = "notifications" -> ListNotifications(p, owner, status)
      [] OTHER -> ListProducts(p, owner, status)

(* A page holds the limit's newest rows of those after the cursor; rows of *)
(* one time come in any order, or by id.  The seven stores have this code  *)
(* each to itself, with the same statement up to the table's name.         *)
Before(r, q, byID) == r.at > q.at \/ (byID /\ r.at = q.at /\ r.id > q.id)
FirstRows(from, limit, byID) ==
    {s \in kSubset(IF Cardinality(from) < limit THEN Cardinality(from) ELSE limit, from) :
        \A r \in s, q \in from \ s : ~Before(q, r, byID)}
LastRow(s, byID) == CHOOSE r \in s : \A q \in s \ {r} : ~Before(r, q, byID)

(* List of orders, returns, shipments, payouts, shops, reviews and         *)
(* notifications: created_at < cursor, newest first.                       *)
AfterTime(w) == {r \in Filters(w.owner, w.status) : w.cursor # <<>> => r.at < w.cursor[1]}
TimePages(w) == FirstRows(AfterTime(w), w.limit, FALSE)

(* Mutant: the page starts after the cursor's time, whatever the id.       *)
AfterTimeAndIDNot(w) == {r \in Filters(w.owner, w.status) : w.cursor # <<>> => r.at < w.cursor[1]}

(* listPage of products: (created_at, id) < cursor.                        *)
AfterTimeAndID(w) ==
    {r \in Filters(w.owner, w.status) : w.cursor # <<>> =>
        r.at < w.cursor[1] \/ (r.at = w.cursor[1] /\ r.id < w.cursor[2])}
ProductPages(w) == FirstRows(AfterTimeAndID(w), w.limit, TRUE)

(* buildQuery with from and size: the hits by rank.                        *)
Rank(r, w) == Cardinality({q \in Filters(w.owner, w.status) : Before(q, r, TRUE)})
From(w) == IF w.cursor = <<>> THEN 0 ELSE w.cursor[1]
SearchPage(w) ==
    {r \in Filters(w.owner, w.status) : Rank(r, w) >= From(w) /\ Rank(r, w) < From(w) + w.limit}

(* A page size out of range is replaced by the listing's own.              *)
PageSize(n) == IF n <= 0 \/ n > MaxPage THEN DefaultPage ELSE n

(* A listing is opened.                                                    *)
OpenList(p, list, owner, status, limit) ==
    /\ walk.pc = "idle"
    /\ \E f \in Scope(list, p, owner, status) :
         walk' = [NoWalk EXCEPT !.pc = "paging", !.list = list, !.by = p, !.owner = f[1], !.status = f[2],
                                !.limit = PageSize(limit), !.must = {r.id : r \in Filters(f[1], f[2])}]
    /\ UNCHANGED <<rows, clock, changes>>

Show(s) == [walk EXCEPT !.seen = @ \o SetToSeq({r.id : r \in s})]

(* One page of a listing by time: with a row more than the limit there is  *)
(* a next page, from the time of the page's last row.                      *)
TimePage ==
    /\ walk.pc = "paging" /\ walk.list \in TimeLists
    /\ \E s \in TimePages(walk) :
         LET rest == AfterTime(walk) \ s
             cursor == LastRow(s, FALSE).at
         IN walk' = IF rest = {} THEN [Show(s) EXCEPT !.pc = "done"]
                    ELSE [Show(s) EXCEPT !.cursor = <<cursor>>,
                                         !.cuts = @ \cup {t \in {cursor} : \E r \in rest : r.at = t}]
    /\ UNCHANGED <<rows, clock, changes>>

(* One page of products: encodeCursor and decodeCursor keep time and id.   *)
ProductPage ==
    /\ walk.pc = "paging" /\ walk.list = "products"
    /\ \E s \in ProductPages(walk) :
         LET last == LastRow(s, TRUE) IN
         walk' = IF AfterTimeAndID(walk) = s THEN [Show(s) EXCEPT !.pc = "done"]
                 ELSE [Show(s) EXCEPT !.cursor = <<last.at, last.id>>]
    /\ UNCHANGED <<rows, clock, changes>>

(* Search: one page of hits, refused beyond the window.                    *)
SearchHits ==
    LET next == From(walk) + walk.limit IN
    /\ walk.pc = "paging" /\ walk.list = "search"
    /\ walk' = IF next > MaxOffset THEN [walk EXCEPT !.pc = "refused"]
               ELSE IF next < Cardinality(Filters(walk.owner, walk.status))
               THEN [Show(SearchPage(walk)) EXCEPT !.cursor = <<next>>]
               ELSE [Show(SearchPage(walk)) EXCEPT !.pc = "done"]
    /\ UNCHANGED <<rows, clock, changes>>

-----------------------------------------------------------------------------
(* A walk that ends has shown every row that was there when it began and   *)
(* stayed as it was: for products always; for the listings by time unless  *)
(* a page ended between rows of one time; for search while nothing changed *)
(* (List, listPage, Search).                                               *)
WalkComplete ==
    walk.pc = "done" => \A r \in rows :
        r.id \in walk.must =>
            \/ r.id \in ToSet(walk.seen)
            \/ walk.list \in TimeLists /\ r.at \in walk.cuts
            \/ walk.list = "search" /\ ~walk.calm

(* No page shows a row again, and none shows a customer another's rows in  *)
(* the listings that are scoped to the caller (Scope).                     *)
WalkDisjoint ==
    /\ (walk.list = "search" /\ ~walk.calm) \/ IsInjective(walk.seen)
    /\ (walk.list \in {"orders", "returns", "shipments", "payouts", "notifications"}
        /\ RolesOf[walk.by] = {}) =>
         \A r \in rows : r.id \in ToSet(walk.seen) => r.owner = walk.by
=============================================================================
