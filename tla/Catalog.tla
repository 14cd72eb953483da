------------------------------- MODULE Catalog -------------------------------
(***************************************************************************)
(* The catalog service (services/catalog).  A write is two steps: the      *)
(* handler reads the product and asks OpenFGA whether the caller may, then *)
(* one transaction writes the row and its product_changed event.  Nothing  *)
(* is locked in between.                                                   *)
(***************************************************************************)
EXTENDS Naturals, Sequences, FiniteSets, Access, Fga

CONSTANTS Listings,      \* product slugs
          Owners,        \* shops, by their owners
          FirstParty,    \* the shop id "" of the platform's own products
          Editors,       \* requests that may be in flight together
          MaxProductEvents

VARIABLES product,       \* products row of each slug
          productEvents, \* product_changed, oldest first: slug and what it tells
          edit           \* what each request is about to write

catalogVars == <<product, productEvents, edit>>

NoProduct == [status |-> "NONE", shop |-> FirstParty, version |-> 0]
NoEdit == [op |-> "none", slug |-> "", row |-> NoProduct]

CatalogTypeOK ==
    /\ \A s \in Listings : product[s].status \in {"NONE", "DRAFT", "ACTIVE", "ARCHIVED"}
                            /\ product[s].shop \in Owners \cup {FirstParty}
    /\ Len(productEvents) <= MaxProductEvents
    /\ \A e \in Editors : edit[e].op \in {"none", "create", "update", "archive"}

CatalogInit ==
    /\ product = [s \in Listings |-> NoProduct] /\ productEvents = <<>>
    /\ edit = [e \in Editors |-> NoEdit]

(* mayWriteProduct: a catalog manager, or staff of the product's shop as   *)
(* OpenFGA knows them.                                                     *)
MayWriteProduct(p, s) ==
    \/ HasRole(p, "catalog_manager")
    \/ s # FirstParty /\ Ready("catalog") /\ FgaCheck("catalog", p, "staff", s)

(* NewProduct: a DRAFT of the shop.                                        *)
NewProduct(s) == [status |-> "DRAFT", shop |-> s, version |-> 1]

(* CreateProduct up to the write.                                          *)
CreateProduct(e, p, slug, s) ==
    /\ Ready("catalog") /\ edit[e].op = "none" /\ MayWriteProduct(p, s)
    /\ edit' = [edit EXCEPT ![e] = [op |-> "create", slug |-> slug, row |-> NewProduct(s)]]
    /\ UNCHANGED <<product, productEvents, fgaVars>>

(* UpdateProduct up to ApplyUpdate: DRAFT and ACTIVE are what an update    *)
(* may set, and an archived product is refused.                            *)
ApplyUpdate(row, to) == [row EXCEPT !.status = to, !.version = @ + 1]
UpdateProduct(e, p, slug, to) ==
    LET row == product[slug] IN
    /\ Ready("catalog") /\ edit[e].op = "none" /\ row.status # "NONE" /\ MayWriteProduct(p, row.shop)
    /\ to \in {"DRAFT", "ACTIVE"} /\ row.status # "ARCHIVED"
    /\ edit' = [edit EXCEPT ![e] = [op |-> "update", slug |-> slug, row |-> ApplyUpdate(row, to)]]
    /\ UNCHANGED <<product, productEvents, fgaVars>>

(* ArchiveProduct up to the write.                                         *)
ArchiveProduct(e, p, slug) ==
    LET row == product[slug] IN
    /\ Ready("catalog") /\ edit[e].op = "none" /\ row.status # "NONE" /\ MayWriteProduct(p, row.shop)
    /\ edit' = [edit EXCEPT ![e] = [op |-> "archive", slug |-> slug, row |-> row]]
    /\ UNCHANGED <<product, productEvents, fgaVars>>

(* Store.Create, Update and Archive: the row a request leaves behind, from *)
(* the row there is now.  An update writes back every field it had read.   *)
Written(req, now) ==
    IF req.op = "archive" THEN [now EXCEPT !.status = "ARCHIVED"]
    ELSE [req.row EXCEPT !.shop = IF req.op = "create" THEN @ ELSE now.shop]

(* store.toProto: what an event tells of the row; version stands for the   *)
(* texts, the price, the media and the attributes.  The shop is left out.  *)
ToProto(row) == [status |-> row.status, version |-> row.version]

(* Mutant: the event carries what the request asked for, not the row.      *)
WriteTxRequested(e) ==
    LET req == edit[e]  row == Written(req, product[req.slug]) IN
    /\ req.op # "none" /\ Len(productEvents) < MaxProductEvents
    /\ edit' = [edit EXCEPT ![e] = NoEdit]
    /\ \/ req.op = "create" /\ product[req.slug].status # "NONE" /\ UNCHANGED <<product, productEvents>>
       \/ /\ req.op # "create" \/ product[req.slug].status = "NONE"
          /\ product' = [product EXCEPT ![req.slug] = row]
          /\ productEvents' = Append(productEvents, [slug |-> req.slug, told |-> ToProto(req.row)])
    /\ UNCHANGED fgaVars

(* writeTx with insertOutbox: the row and its event together.  A slug that *)
(* is taken by now fails the creation.                                     *)
WriteTx(e) ==
    LET req == edit[e]  row == Written(req, product[req.slug]) IN
    /\ req.op # "none" /\ Len(productEvents) < MaxProductEvents
    /\ edit' = [edit EXCEPT ![e] = NoEdit]
    /\ \/ req.op = "create" /\ product[req.slug].status # "NONE" /\ UNCHANGED <<product, productEvents>>
       \/ /\ req.op # "create" \/ product[req.slug].status = "NONE"
          /\ product' = [product EXCEPT ![req.slug] = row]
          /\ productEvents' = Append(productEvents, [slug |-> req.slug, told |-> ToProto(row)])
    /\ UNCHANGED fgaVars

(* GetProduct, and ListProducts of one shop.                               *)
GetProduct(p, s) == IF product[s].status = "ACTIVE" \/ HasRole(p, "catalog_manager") THEN product[s] ELSE NoProduct
ListProducts(s) == {i \in Listings : product[i].status = "ACTIVE" /\ product[i].shop = s}

-----------------------------------------------------------------------------
(* The last event of a product tells its row, the shop aside, with         *)
(* requests that read it before others wrote it: who follows the events in *)
(* order ends where the catalog is (writeTx, toProto).                     *)
EventsTellRow ==
    \A s \in Listings :
        LET told == {i \in 1..Len(productEvents) : productEvents[i].slug = s} IN
        /\ told = {} <=> product[s].status = "NONE"
        /\ told # {} => productEvents[CHOOSE i \in told : \A k \in told : k <= i].told = ToProto(product[s])
=============================================================================
