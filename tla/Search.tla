-------------------------------- MODULE Search --------------------------------
(***************************************************************************)
(* The search service's index (services/search) and inventory's stock rows *)
(* (services/inventory/internal/consumer), both fed by product_changed.    *)
(* Each consumer handles the records in order, may fail and be called      *)
(* again with the same one, and after a restart reads on from its          *)
(* committed offset (KafkaConsumer).  Search waits for OpenSearch as long  *)
(* as it takes; inventory parks a record after StockAttempts failed calls  *)
(* on a topic that nothing reads.                                          *)
(***************************************************************************)
EXTENDS Naturals, Sequences, FiniteSets

CONSTANTS Listings, NoDoc, StockAttempts  \* KAFKA_RETRY_ATTEMPTS of inventory

VARIABLES productEvents,
          searchAt, searchStored,   \* records handled, and committed
          index,                    \* the document of each product
          stockAt,                  \* records the inventory consumer handled
          stockTries, stockParked,  \* failed calls with the record at hand; records parked
          stockRows                 \* products with a stock row

stockVars == <<stockAt, stockTries, stockParked, stockRows>>
searchVars == <<searchAt, searchStored, index, stockVars>>

SearchTypeOK ==
    /\ searchStored \in 0..searchAt /\ searchAt \in 0..Len(productEvents)
    /\ stockAt \in 0..Len(productEvents)
    /\ stockTries \in 0..(StockAttempts - 1) /\ stockParked \subseteq 1..Len(productEvents)
    /\ stockRows \subseteq Listings
    /\ DOMAIN index = Listings

SearchInit ==
    /\ searchAt = 0 /\ searchStored = 0 /\ index = [s \in Listings |-> NoDoc]
    /\ stockAt = 0 /\ stockTries = 0 /\ stockParked = {} /\ stockRows = {}

(* UpsertFromEvent: the document (its content, neither status nor shop) of *)
(* an ACTIVE product, none otherwise; a document that is not there is      *)
(* deleted as well (Delete).                                               *)
UpsertFromEvent(evt) ==
    [index EXCEPT ![evt.slug] = IF evt.told.status = "ACTIVE" THEN evt.told.version ELSE NoDoc]

(* Mutant: a document that is not there cannot be deleted, and the record  *)
(* is tried again.                                                         *)
IndexNextNotFound ==
    /\ searchAt < Len(productEvents)
    /\ LET evt == productEvents[searchAt + 1] IN evt.told.status = "ACTIVE" \/ index[evt.slug] # NoDoc
    /\ index' = UpsertFromEvent(productEvents[searchAt + 1])
    /\ searchAt' = searchAt + 1
    /\ UNCHANGED <<searchStored, stockVars>>

(* consumer.Handler: the event is applied, or OpenSearch is unavailable    *)
(* (statusErr, Retryable) before or after that and the record stays.       *)
IndexNext ==
    /\ searchAt < Len(productEvents)
    /\ index' = UpsertFromEvent(productEvents[searchAt + 1])
    /\ searchAt' = searchAt + 1
    /\ UNCHANGED <<searchStored, stockVars>>
IndexFails ==
    /\ searchAt < Len(productEvents)
    /\ index' = UpsertFromEvent(productEvents[searchAt + 1])
    /\ UNCHANGED <<searchAt, searchStored, stockVars>>

SearchCommit == searchStored' = searchAt /\ UNCHANGED <<searchAt, index, stockVars>>

(* The search service starts again.                                        *)
SearchRestart == searchAt' = searchStored /\ UNCHANGED <<searchStored, index, stockVars>>

(* inventory: Handler and EnsureStockRow, an insert that leaves a row that *)
(* is there alone.                                                         *)
EnsureStockRow ==
    /\ stockAt < Len(productEvents)
    /\ stockRows' = stockRows \cup {productEvents[stockAt + 1].slug}
    /\ stockAt' = stockAt + 1 /\ stockTries' = 0
    /\ UNCHANGED <<stockParked, searchAt, searchStored, index>>

(* The insert fails, for whatever reason: the record is tried again, or    *)
(* parked when it was the last call it gets.                               *)
EnsureStockRowFails ==
    /\ stockAt < Len(productEvents)
    /\ \/ /\ stockTries + 1 < StockAttempts /\ stockTries' = stockTries + 1
          /\ UNCHANGED <<stockAt, stockParked>>
       \/ /\ stockTries + 1 = StockAttempts /\ stockTries' = 0
          /\ stockAt' = stockAt + 1 /\ stockParked' = stockParked \cup {stockAt + 1}
    /\ UNCHANGED <<stockRows, searchAt, searchStored, index>>

(* The inventory service starts again, from whatever offset it committed   *)
(* last: the records behind it are handled again, parked or not.           *)
StockRestart ==
    /\ stockAt' \in 0..stockAt /\ stockTries' = 0
    /\ UNCHANGED <<stockParked, stockRows, searchAt, searchStored, index>>

(* RawSearch, whatever the query: documents of the index.                  *)
Hits == {s \in Listings : index[s] # NoDoc}
=============================================================================
