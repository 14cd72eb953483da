-------------------------------- MODULE Seller --------------------------------
(***************************************************************************)
(* The seller service (services/seller): one shop per owner, reviewed by   *)
(* operators, and its staff, kept as tuples in OpenFGA.  A shop is named   *)
(* by its owner.  Creating a shop is a transaction; the owner's tuple is   *)
(* written after it and may be lost.                                       *)
(***************************************************************************)
EXTENDS Naturals, Sequences, FiniteSets, Access, Fga

CONSTANTS Owners,          \* principals that open shops
          ShopNames,       \* names of legal length
          Slugify,         \* the slug of a name; names may share one
          MaxShopEvents    \* bound on the events of one shop

VARIABLES shop,            \* shops row of each owner ("NONE": no row)
          shopEvents,      \* outbox rows of each shop, oldest first
          ownerTuple       \* owners whose tuple CreateShop has still to write

sellerVars == <<shop, shopEvents, ownerTuple>>

ShopStatus == {"NONE", "PENDING_REVIEW", "ACTIVE", "SUSPENDED"}

SellerTypeOK ==
    /\ \A o \in Owners :
         /\ shop[o].status \in ShopStatus
         /\ Len(shopEvents[o]) <= MaxShopEvents
         /\ \A q \in Owners \ {o} : shop[o].status # "NONE" /\ shop[q].status # "NONE" => shop[o].slug # shop[q].slug
    /\ ownerTuple \subseteq Owners

NoShop == [status |-> "NONE", name |-> "", slug |-> ""]

SellerInit ==
    /\ shop = [o \in Owners |-> NoShop] /\ shopEvents = [o \in Owners |-> <<>>]
    /\ ownerTuple = {}

(* NewShop, with a slug from the name.                                     *)
NewShop(name) == [status |-> "PENDING_REVIEW", name |-> name, slug |-> Slugify[name]]

Emit(o, topic) == Len(shopEvents[o]) < MaxShopEvents /\ shopEvents' = [shopEvents EXCEPT ![o] = Append(@, topic)]

(* grpcsvc.CreateShop up to the commit of Store.Create: the owner has no   *)
(* shop yet and the slug is free.                                          *)
CreateShop(o, name) ==
    /\ Ready("seller") /\ shop[o].status = "NONE"
    /\ \A q \in Owners : shop[q].status # "NONE" => shop[q].slug # Slugify[name]
    /\ shop' = [shop EXCEPT ![o] = NewShop(name)]
    /\ Emit(o, "created")
    /\ ownerTuple' = ownerTuple \cup {o}
    /\ UNCHANGED fgaVars

(* CreateShop goes on: the owner's tuple, which a failure only logs.       *)
WriteOwnerTuple(o) ==
    /\ o \in ownerTuple /\ ownerTuple' = ownerTuple \ {o}
    /\ \/ Ready("seller") /\ FgaWrite("seller", {}, Tuple(o, "owner", o))
       \/ UNCHANGED fgaVars
    /\ UNCHANGED <<shop, shopEvents>>

(* UpdateShop, Store.Update, ApplyUpdate: the slug stays.                  *)
UpdateShop(o, name) ==
    /\ shop[o].status # "NONE" /\ shop[o].name # name
    /\ shop' = [shop EXCEPT ![o].name = name]
    /\ UNCHANGED <<shopEvents, ownerTuple, fgaVars>>

(* Store.Transition under the row lock: no change, no event.               *)
ShopTransition(o, to, topic) ==
    /\ shop[o].status \notin {"NONE", to}
    /\ shop' = [shop EXCEPT ![o].status = to] /\ Emit(o, topic)
    /\ UNCHANGED <<ownerTuple, fgaVars>>

ActivateShop(p, o) == RequireRole(p, "shop_admin") /\ ShopTransition(o, "ACTIVE", "activated")
SuspendShop(p, o) == RequireRole(p, "shop_admin") /\ ShopTransition(o, "SUSPENDED", "suspended")

(* callerShop: the staff operations are the owner's, on the owner's shop.  *)
CallerShop(o) == Ready("seller") /\ shop[o].status # "NONE"

(* AddShopStaff: the owner's tuple once more, whose loss nobody hears of,  *)
(* and the grant, whose loss is an error to the caller.                    *)
AddShopStaff(o, sub) ==
    /\ CallerShop(o) /\ sub # o
    /\ FgaWrite("seller", {Tuple(o, "owner", o)}, Tuple(sub, "staff", o))
    /\ UNCHANGED sellerVars

RemoveShopStaff(o, sub) ==
    CallerShop(o) /\ FgaDelete("seller", Tuple(sub, "staff", o)) /\ UNCHANGED sellerVars

ListShopStaff(o) == {t.user : t \in {x \in FgaRead("seller", o) : x.relation = "staff"}}

(* GetShop: a shop that is not ACTIVE exists only for its owner and for    *)
(* operators (maySeePrivate).                                              *)
MaySeePrivate(p, o) == p = o \/ HasRole(p, "shop_admin")
GetShop(p, o) == IF shop[o].status = "ACTIVE" \/ MaySeePrivate(p, o) THEN shop[o] ELSE NoShop

-----------------------------------------------------------------------------
(* What a shop announces is what happened to it, with two operators        *)
(* deciding at once: it was created, never moved to where it was, and the  *)
(* last event names its status.  Strangers see the shop exactly while that *)
(* event is its activation (Transition, GetShop).                          *)
ShopHistory ==
    \A o \in Owners :
        LET log == shopEvents[o] IN
        /\ Len(log) = 0 <=> shop[o].status = "NONE"
        /\ \A i \in 1..Len(log) : (log[i] = "created") = (i = 1) /\ (i > 1 => log[i] # log[i - 1])
        /\ Len(log) > 1 => log[Len(log)] = (IF shop[o].status = "ACTIVE" THEN "activated" ELSE "suspended")
        /\ \A p \in Principals : p # o /\ ~HasRole(p, "shop_admin") =>
             (GetShop(p, o) # NoShop <=> log # <<>> /\ log[Len(log)] = "activated")
=============================================================================
