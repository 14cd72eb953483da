-------------------------------- MODULE Review --------------------------------
(***************************************************************************)
(* The review service (services/review): who bought what, learned from     *)
(* order.confirmed, and the one review each buyer may write per product.   *)
(***************************************************************************)
EXTENDS Integers, Sequences, FiniteSets, FiniteSetsExt, Access

CONSTANTS Orders, Products,
          OwnerOf,     \* who placed the order
          ProductsOf,  \* the products of its lines
          Ratings,     \* ratings a caller may ask for, sensible or not
          MaxModerations  \* bound on status changes of one review

VARIABLES confirmed,    \* records on order.confirmed
          rProcessed,   \* processed_events of this service
          purchases,    \* the purchases table
          drafts,       \* CreateReview calls that passed the purchase check
          review,       \* reviews per author and product ("NONE": no row)
          rating,       \* reviews.rating
          reviewEvents  \* outbox rows per review, oldest first

revVars == <<rProcessed, purchases, drafts, review, rating, reviewEvents>>

MinRating == 1
MaxRating == 5

RevTypeOK ==
    /\ rProcessed \subseteq confirmed
    /\ purchases \subseteq Principals \X Products
    /\ drafts \subseteq Principals \X Products \X Ratings
    /\ review \in [Principals -> [Products -> {"NONE", "PUBLISHED", "HIDDEN"}]]
    /\ rating \in [Principals -> [Products -> 0..MaxRating]]
    /\ \A a \in Principals, p \in Products : Len(reviewEvents[a][p]) <= MaxModerations + 1

RevInit ==
    /\ rProcessed = {} /\ purchases = {} /\ drafts = {}
    /\ review = [a \in Principals |-> [p \in Products |-> "NONE"]]
    /\ rating = [a \in Principals |-> [p \in Products |-> 0]]
    /\ reviewEvents = [a \in Principals |-> [p \in Products |-> <<>>]]

(* consumer.Handler and Store.RecordPurchases, one transaction.            *)
RecordPurchases(r) ==
    /\ r \in confirmed \ rProcessed
    /\ rProcessed' = rProcessed \cup {r}
    /\ purchases' = purchases \cup ({OwnerOf[r.order]} \X ProductsOf[r.order])
    /\ UNCHANGED <<drafts, review, rating, reviewEvents>>

(* Mutant: any purchase of the product opens it to every caller.           *)
HasPurchasedByAnyone(a, p) == \E b \in Principals : <<b, p>> \in purchases

(* Store.HasPurchased.                                                     *)
HasPurchased(a, p) == <<a, p>> \in purchases

(* domain.NewReview: a rating outside 1..5 is refused (the texts are       *)
(* trimmed and cut, which nothing here depends on).                        *)
NewReviewAccepts(n) == n \in MinRating..MaxRating

(* grpcsvc.CreateReview up to the insert.                                  *)
CreateReview(a, p, n) ==
    /\ HasPurchased(a, p) /\ NewReviewAccepts(n)
    /\ drafts' = drafts \cup {<<a, p, n>>}
    /\ UNCHANGED <<rProcessed, purchases, review, rating, reviewEvents>>

(* Store.Create: the unique index lets one of several racing calls in; the *)
(* others are answered ALREADY_REVIEWED.                                   *)
InsertReview(a, p, n) ==
    /\ <<a, p, n>> \in drafts /\ drafts' = drafts \ {<<a, p, n>>}
    /\ \/ /\ review[a][p] = "NONE"
          /\ review' = [review EXCEPT ![a][p] = "PUBLISHED"]
          /\ rating' = [rating EXCEPT ![a][p] = n]
          /\ reviewEvents' = [reviewEvents EXCEPT ![a][p] = <<"published">>]
       \/ review[a][p] # "NONE" /\ UNCHANGED <<review, rating, reviewEvents>>
    /\ UNCHANGED <<rProcessed, purchases>>

(* grpcsvc.ModerateReview and Store.Moderate on the locked row; a review   *)
(* already in the status asked for is left alone.                          *)
Moderate(m, a, p, to) ==
    /\ RequireRole(m, "catalog_manager")
    /\ review[a][p] \notin {"NONE", to} /\ Len(reviewEvents[a][p]) <= MaxModerations
    /\ review' = [review EXCEPT ![a][p] = to]
    /\ reviewEvents' = [reviewEvents EXCEPT ![a][p] =
          Append(@, IF to = "PUBLISHED" THEN "published" ELSE "hidden")]
    /\ UNCHANGED <<rProcessed, purchases, drafts, rating>>

(* Store.Summary: how many published reviews gave a product each rating.   *)
Summary(p) ==
    [n \in MinRating..MaxRating |->
        Cardinality({a \in Principals : review[a][p] = "PUBLISHED" /\ rating[a][p] = n})]

-----------------------------------------------------------------------------
(* Every review is by somebody whose order of that product was confirmed,  *)
(* although the check and the insert are separate statements and the       *)
(* purchase arrives by event (CreateReview, RecordPurchases).              *)
ReviewerBought ==
    \A a \in Principals, p \in Products : review[a][p] # "NONE" =>
        \E r \in confirmed : OwnerOf[r.order] = a /\ p \in ProductsOf[r.order]

(* What other services hear of a review alternates and ends in what the    *)
(* rating summary counts: a reader replaying review.* agrees with          *)
(* GetRatingSummary, and two racing calls of one author leave one review   *)
(* (Create's unique index, Moderate's row lock).                           *)
ReviewEventsMatchSummary ==
    \A a \in Principals, p \in Products :
        LET h == reviewEvents[a][p] IN
        /\ \A i \in 1..Len(h) : h[i] = (IF i % 2 = 1 THEN "published" ELSE "hidden")
        /\ (Len(h) % 2 = 1) = (review[a][p] = "PUBLISHED")
        /\ review[a][p] = "PUBLISHED" => Summary(p)[rating[a][p]] > 0
=============================================================================
