# Verification of commerce-platform

TLA+ modules for commerce-platform: the checkout saga with the inventory and
payment services it drives, idempotent checkout, returns, the event bus
(transactional outbox, Kafka consumer), the services that live off
order.confirmed (fulfillment, payout, review, notification), and those in front
of and beside checkout (shops, catalog, search, media, cart and cart page,
pricing, listings, delegated rights, the way through ingress and BFF, the
analytics sink). TLC checks the modules on small instances; TLAPS proves the safety
properties of every passing run for every value of the constants.

## The system

Sixteen Go services talk by gRPC and by Kafka events. Each has its own Postgres
database (cart: Redis, search: OpenSearch, analytics: ClickHouse) and, in the
Helm chart, two replicas. A service that changes state writes an `outbox` row in
the same transaction; a relay in the same process publishes the rows; consumers
deduplicate on a `processed_events` row written with their own changes.

| part | state | operations | hard behaviour | what makes it correct |
|---|---|---|---|---|
| order: checkout saga | orders, compensation marks, `processed_events`, deliveries | CreateOrder, CancelOrder, handlers for payment.authorized / failed, reservation_expired, shipment.delivered, reconciler sweep | handlers, callers and reconciler interleave; every RPC may fail or lose its answer; a replica may crash between two steps; records come late, twice or before the order exists, or are parked; the sweep sees a page of the backlog | no order confirmed unpaid, marks tell the truth, money of a cancelled order is given back, records never wedge a partition |
| order: idempotency keys | `idempotency_keys` | claim, take over, complete, release, reap | a slow call looks dead and is replaced; release races completion | one order per key, retries get the original |
| order: returns | returns, return lines | RequestReturn, DecideReturn | overlapping requests; refund, restock and mark in separate steps | refunds match approved returns, units restocked once |
| inventory | stock, reservations | EnsureStockRow, Reserve, Commit, Release, AdjustStock, expiry sweep | two replicas sweep; a sweep works on a stale selection and may stop half way | reserved = held units, never overcommitted, resolved stays resolved |
| payment | payments, refunds | Create, Confirm, Void, Refund | repeated and reordered calls, partial refunds, keys | never refunds more than was paid, a key refunds once, events agree with the status |
| outbox relay | `outbox` | poll, publish, mark | two replicas, commit order other than id order, crash between publish and mark | nothing lost, nothing rolled back published, order per key |
| Kafka consumer | offsets | poll, retry, hold, park, commit | rebalance under a running batch, outage, poison, restart | no offset past unfinished work, only poison is set aside, effects in order |
| fulfillment | shipments per (order, shop) | create from order.confirmed, carrier sweep, mark shipped / delivered, cancel | sweep on a stale list beside operators; redelivered record; an outage parks the record; does not read order.cancelled | events are exactly the history; every parcel of an order whose record was not parked arrives or is cancelled |
| payout | payouts per (order, shop) | create, settlement sweep, finance's MarkPaid | as above, two settlers of one payout | a shop is owed its lines and paid once |
| review | purchases, reviews, ratings | record purchases, write, moderate | check and insert are separate, racing requests of one author | reviewers have bought; events replay to the summary |
| notification | notifications, outbox | send, then record and announce; test mail | mail before the dedupe, failing channel | what is recorded as SENT was sent; one entry and one notification.sent per event, of a FAILED mail too |
| cart | Redis blob | add, set, remove, clear, merge | load and save are separate; int32 sums | lines legal, no unit lost when requests do not overlap |
| pricing, cart page | coupons, prices | quote; page from two parallel calls | a call fails or the coupon ends between two quotes; rounding in nanos and cents | what is shown belongs together and adds up |
| catalog, search, stock rows | products, index | create, update, archive; projection | two editors, failing index calls, restarts, parked records | events tell status and content (not the shop); index and stock rows agree with the catalog |
| seller, pkg/fga, shared orders | shops, OpenFGA stores and tuples | open, rename, activate, suspend; grant, withdraw, check | rows and tuples written apart; processes that bootstrap together | a right granted is in force, one withdrawn is not |
| media | assets, objects | presign, put, confirm | object replaced during a confirmation, two confirmations | READY was really uploaded |
| listings | rows by time, products, hits | open, next page | ties at the end of a page, rows that change during the walk | nothing missed or shown twice, nothing of another customer |
| ext-authz, BFF routes, pkg/auth, grpcx, errs | cookies, signing keys | log in and out, route, verify, serve | one token judged three times, with different leeway and tables | served only for a verified caller with the role; public is open; statuses tell the error |
| analytics sink | two buffers, flusher state | beacon, handle, flush, shut down | concurrent flushes, failed or unacknowledged sends, full buffer | a row is kept until written, written once, and lands |
| generated code, config, telemetry, pgx, web | – | – | – | not modelled, see below |

## Modules

| module | models | composes |
|---|---|---|
| `Inventory` | `services/inventory/internal/store/store.go`, its RPCs and sweeper | |
| `Payment` | `services/payment/internal/store/store.go` and its RPCs | |
| `CheckoutSaga` | `services/order/internal/saga/saga.go`, `store/store.go` (`Apply`), `store/compensation.go`, `reconcile/reconciler.go` | `Inventory`, `Payment` |
| `IdempotencyKeys` | `services/order/internal/store/idempotency.go` and its use in CreateOrder | |
| `Returns` | `saga/returns.go`, `store/returns.go`, `domain/return.go` | `Payment` |
| `EventTopic` | the partition and the failures that relays and group share | |
| `OutboxRelay` | `pkg/kafka/outbox.go` | extends `EventTopic` |
| `KafkaConsumer` | `pkg/kafka/kafka.go` with a deduplicating handler | extends `EventTopic` |
| `EventChannel` | abstract: what the bus promises a service | |
| `EventBus` | outbox, relay, topic and group together | extends `OutboxRelay`, `KafkaConsumer`; refines `EventChannel` |
| `Fulfillment`, `Payout`, `Review`, `Notification` | the service of that name: store, domain, consumer, RPCs, sweeps | |
| `AfterSale` | the four of them behind one order.confirmed topic | `Fulfillment`, `Payout`, `Review`, `Notification` |
| `Fga` | `pkg/fga` and the OpenFGA server as the client uses it | |
| `Seller`, `Sharing` | `services/seller`; the share RPCs and GetOrder of `services/order` | extend `Fga` |
| `Catalog`, `Search` | `services/catalog`; `services/search` and inventory's consumer of product_changed | `Catalog` extends `Fga` |
| `Media` | `services/media` and the object store | |
| `Cart`, `Pricing`, `CartPage` | `services/cart`; `services/pricing` (pure); `bff/internal/api/cart.go` | `CartPage` extends the two |
| `Listings` | the keyset listings of seven stores, the catalog's, search's offsets, `pkg/sqlfilter` | |
| `Edge` | ext-authz, the BFF's routes and sessions, `pkg/auth`, `pkg/grpcx`, `pkg/errs` | |
| `Analytics` | `services/analytics` and the BFF's beacons | |
| `Access` | who has which role | extended by the modules that ask |
| `Storefront` | all of these with each other | `Fga` .. `Analytics` |
| `CheckoutSagaProofs`, `ReturnsProofs`, `EventBusProofs`, `AfterSaleProofs`, `StorefrontProofs` | theorems | extend the module of their name; `EventBusProofs` is about `OutboxRelay` and `KafkaConsumer` too |
| `ServiceProofs` | theorems on the services a checkout calls | extends `Inventory`, `IdempotencyKeys`, `Payment` |
| `CartAnalyticsProofs` | theorems on carts, the cart page and the analytics sink | extends `Storefront` |
| `Sums` | lemmas on sums over finite sets | extended by the proof modules that add up |
| `MCInventory`, `MCPayment`, `MCCheckoutSaga`, `MCReturns`, `MCEventBus`, `MCAfterSale`, `MCStorefront` | symmetry and constants that a `.cfg` cannot write | extend the module of their name; the other modules are run as they are |

State and actions correspond to the code as follows.

* A Postgres table is a variable indexed by primary key; a transaction is one
  action, unless it reads without a lock and writes later: `Apply`'s plain
  SELECT and its UPDATE are `StartEvent`/`StartCancel` and `ApplyCommit`, and
  `ExpireDue`, whose `FOR UPDATE` runs outside a transaction, is `ExpireDueSelect`,
  one `ExpireDueRelease` and one `ExpireDueEmit` per reservation.
* A gRPC call from the saga is one action of the caller that contains the
  callee's action. A failed call is a *fault*: the callee may or may not have
  acted, the caller sees an error. `MaxFaults` bounds faults and crashes.
* A goroutine or RPC handler is a worker with a program counter and the locals
  it carries across steps (`worker`, `member`, `relay`, `pc`). What a function
  still has to do after its transaction is the sequence `steps` of `CheckoutSaga`.
* An event id is `topic:partition:offset`; in `CheckoutSaga` a copy number stands
  for the offset, so a republished row is a new event.
* Amounts, quantities and baskets are small numbers; payloads, addresses,
  templates, logging, tracing and metrics are left out.
* `supplied`, `shrunk` (Inventory), `reaped`, `outlived` (IdempotencyKeys),
  `overlap` (Returns, OutboxRelay), `applied` (KafkaConsumer), `granted`, `asked`
  (Fga), `uploaded` (Media), `serial`, `disturbed`, `wrapped` (Cart), `answers`
  (Edge), `incidents`, `lost` (Analytics) and the `must`, `calm` and `cuts` of a
  walk (Listings) are history. Where the code keeps a promise only under a
  condition, the property is stated under that condition and the history variable
  says whether it was met. No guard that stands for code reads them; `Analytics`
  ends a behaviour at the first overlap of two flushes, after which it promises
  nothing.
* Operators commented *Mutant* are wrong variants of the definition after them;
  no specification uses them. They show that each property notices the bug.

Time is abstract: a reservation becomes due (`PassExpiry`), a claim becomes stale
(`Age`), with nothing assumed about how long a call takes; `outlived` remembers
that a claim got stale under a call that was still at work.
`older` is the order of the orders' `updated_at`, which is what the reconciler's
query sorts by: `Page` is its `ORDER BY updated_at LIMIT`, and the sweep then works
through the page it was given, whatever happens to the rows meanwhile. Two things of
it are wider than the code: the rows of a page are worked in any order, and
`PendingCompensations`' settling delay is not modelled, so the reconciler may
run at any moment; in the runs a page is one row, which a delay can only postpone. One is simplified: `now()` is
when a transaction began, and `Touch` orders rows by when it wrote.

## Runs

All constants are in the `.cfg` files. Deadlock checking is off: a finished
checkout, an empty outbox and an idle consumer are legal final states. The types
of a module are part of the first promise its run checks, or a theorem
(`TypeCorrect` of the first three proof modules, `GroupTypeCorrect`).

| run | instance | shows |
|---|---|---|
| `inventory` | one product, two reservations of up to two units, two sweepers, one cut sweep, stock raised and lowered | `reserved` is exactly the held units; no overcommitment and no lost or invented unit unless stock was written off; a resolution is final; every due hold is resolved |
| `payment` | two payments, keyed and unkeyed refunds | refunds add up, once per key; events agree with the status |
| `saga_races` | one order of two shops, two consumers, a cancelling caller, the reconciler, the sweeper, a republished payment.failed, one fault | compensation marks are true; nothing is sold unpaid and nothing voided that was not cancelled; fulfilled means delivered by every shop |
| `saga_liveness` | two orders before a reconciler whose page holds one, one consumer, a cut sweep, as many faults as attempts | consumers always catch up; paid money is honoured or given back, also when payment.authorized is parked, unless the order starves behind the page or its expiry is lost as well |
| `saga_lost_update` | as small as the trace needs | finding, below |
| `keys` | four calls, two different requests, one call without its key | one order per key, retries get the original, nobody is answered with another request's order, a claim ends |
| `returns` | two returns of a two-product order, two operators, one fault | refunds match approvals and, when no requests overlap, returns stay within the order; restock follows refund, once when no answer is lost |
| `outbox` | two relays, three rows of two keys, one fault | what is marked is on the topic and nothing rolled back is; the newest row of a key is last unless drains overlapped; nothing is lost |
| `consumer` | two members, two records, three faults, one fetch error | only poison is parked; effects once and in order, nothing skipped, every record done, until a fetch reports an error |
| `bus` | one relay, two rows, a group of two, two faults | relay and group implement `EventChannel`, liveness included |
| `aftersale` | one order, a shop with two lines and the platform with one, order.confirmed published twice, a carrier, a settler, a mailer, an operator, as many faults as attempts | each service's promise; the parcels arrive and the shop is paid whatever comes in between, unless the service parked every record of the order |
| `storefront` | ten deployments of the parts that share state: a shop and its staff; shared orders; two editors with the index or with the stock rows; uploads; carts; the cart page; a walk; a call; the sink | each part's promise, in the words of `Storefront`; product events and analytics records land |

Bounds. One order is enough for the saga's safety: orders share stock, whose
contention `Inventory` checks with two reservations, partitions, which
`KafkaConsumer` checks, and the reconciler's page, which says only when an order is
worked on. For liveness the page matters, so `saga_liveness` has two orders and
`SweepLimit` = 1: one order whose payment failed fills it. Two workers of a kind
show every pairwise race. A fault
is any failed call, lost answer or crash at any step; one per behaviour reaches
every place where the code could be cut short, and where a record may be parked
`MaxFaults` = `Attempts` = 2 lets one outage use up all attempts (of one record: a
second parked record needs a second outage). `Expiring` names the orders whose
reservation may become due, and for which `PaidIsHonoured` is stated; the other order of
`saga_liveness` is there to be in the way. No caller cancels in that run; `saga_races`
has one. Two rows of one key and one of
another are the smallest case of overtaking beside unrelated traffic. Batches of
two records let a batch end, start and be cut in the middle. Four calls
are an original, the call that replaces it, a different request and a retry.
`Republished` limits which topics the relay publishes twice; the liveness run has
none, for its size. A restart of inventory's consumer of product_changed resumes from
any earlier offset: its committed offset is not a variable of its own.

`Deployments` names the sets of parts run in one behaviour. Parts that share no
variable commute, so running them together would multiply states without adding
a behaviour of any of them; what shares state runs together (fulfillment with
payout and with notification, seller and catalog over OpenFGA, the catalog with
each consumer of its events, the cart with the page, the edge with every
service's table of methods). `Half` = 8 stands for 2^31 with a line limit of 3, so
that sums of two legal requests leave the type. Prices are such that a tenth and
the tax of them do not come out even. Three rows and pages of one or two let a page
end between rows of one time. `Life` = 1 with `MaxNow` = 3 reaches a token that is
fresh, within each leeway and beyond both; two keys are one rotation. A batch of one row
and a buffer of two let a flush overlap, fail with more behind it, and fill up. The edge
follows one call at a time; a request that makes several calls is followed
through all of them while time passes.

Fairness is weak fairness of steps a running goroutine always takes next: a
started handler or checkout proceeds, consumers poll, relays, sweepers, carriers,
settlers and flushers tick (`main.go` starts each in a loop that ends only with
the process), and time passes. Nothing is assumed of shoppers, operators and
finance. Of the reconciler it is assumed that a sweep runs again and again and
finishes its page (`WF` of `StartSweep(w)` and `RunStep(w)`), not that it comes to any one
order. Faults and crashes are bounded, so liveness reads "once failures stop".
`EventsLand` leaves out the records an incident named in `Analytics` may lose.

## Findings

`PROJECT.json` quotes the sentence each refutes. The run `saga_lost_update` shows
the first; for the others the definition named states the sentence and is false:
named in place of the invariants (or properties) of the `.cfg` in brackets, TLC
prints the behaviour (one of an instance needs a name of its own first, such as
`MailedOnce == Not!MailedOnce` in `AfterSale`).

* `CancelledIsFinal`: `Apply` does not lock the row it reads
  (`order/internal/store/store.go:306`, its comment at 296 says it does); a
  cancelled order can be confirmed again.
* `ConfirmedIsCommitted` (a property, `MCSagaLiveness.cfg`): the event is stored
  as processed before `Inventory.Commit` is called (`saga.go:195`); a failure of
  the call is not retried.
* `CommittedIsDone` (`KafkaConsumer.cfg`): records polled together with a
  partition error are dropped (`pkg/kafka/kafka.go:339`) and their offsets
  committed by the next batch.
* `Ana!ReservedUntilConfirmed` (a property, `MCStorefront.cfg`): overlapping flushes each delete
  what they sent from the front of the buffer (`clickhouse.go:257`); rows nobody
  sent are dropped, or the second deletion panics.
* `Edg!BadRequestNotServed` (`MCStorefront.cfg`): `bindProto` and `bindJSON` return
  nil after answering 400 (`bff/internal/api/api.go:353-373`), so the RPC is
  called all the same.
* `Not!MailedOnce` (`MCAfterSale.cfg`): the mail goes out before the dedupe
  (`notification/internal/consumer/consumer.go:72`).
* `Fga`: `GrantsInForce` without its first condition: processes that bootstrap
  together may create and keep a store each (`pkg/fga/fga.go:95`), and a right
  granted through one is unknown to the other until it restarts.
* `CartPage`: every failure of QuotePrice is shown as the coupon's
  (`bff/internal/api/cart.go:172`).

Other divergences met while modelling. The model contains the behaviour; the
property named says what is left, or none is claimed.

* An authorisation that arrives after the expiry sweep confirms an order whose
  units are for sale again (`saga.go:188`; `docs/PRD.md:151` "no oversell").
* An order whose payment FAILED owes a void that payment always refuses, and the
  marks do not touch `updated_at`, so `PendingCompensations` returns it first on every
  sweep (`compensation.go:58-61`; `reconciler.go:157-158` "falls back to 0 once the
  backlog clears"). With as many such orders as the sweep's limit (100 by default), no
  newer order is compensated any more (`reconciler.go:148` "retries every outstanding
  compensation once"; `docs/PRD.md:46`): `PaidIsHonoured` names the case `Starved`.
* A record of payment.authorized that was parked is never read again
  (`docs/TASKS.md:15-17` "currently invisible"). The reservation's expiry cancels the
  order and the reconciler gives the money back, unless that record was parked or
  never written as well: then the money stays held and the order PENDING_PAYMENT
  (`Stranded` in `PaidIsHonoured`).
* Fulfillment, payout and review park order.confirmed after three failed calls,
  whatever the error was (`fulfillment/main.go:87`, `payout/main.go:88`,
  `review/main.go:84`; no `Retryable`): a paid order without a shipment or a payout.
  `ConfirmedIsHonoured` names the case `SetAside`. Inventory's consumer of product_changed
  does the same (`inventory/main.go:89`), which leaves a product without a stock row:
  `AnnouncedTruthfully` says unless every event of the product was parked. A record that was
  parked just before a restart is handed out again and may be handled after all.
* product_changed and the index document leave out the shop, which `catalog.proto`
  has a field for (`catalog/internal/store/store.go:296-311`, `search/internal/index/index.go:26-38`).
  What `AnnouncedTruthfully` says of an announced product is its status and content.
* A sweep that stops between release and event, or an expiry handled before the
  order row exists, leaves the order PENDING_PAYMENT without stock
  (`inventory/internal/store/store.go:286`, `saga.go:231`). A CreateOrder that
  crashes after CreatePayment leaves a payment without an order (`saga.go:149`).
* A sweep that loses the race to `Commit` announces the committed reservation as
  expired (`store.go:285`): `ExpiredHoldsNothing`.
* `EnsureStockRow` writes no stock_changed row (`store.go:62`; package comment).
* A call that stalls past `StaleInFlightAfter` can complete a row that was reaped
  and claimed by another request (`idempotency.go:188`): `AnswerMatchesRequest`
  holds while no claim outlived its time.
* `grpcsvc.CreateOrder` does not pass the key on to the saga (`server.go:37`;
  `order.proto:99-101`): `CreateOrderRPC` in `IdempotencyKeys`; the one-order
  properties speak of calls that carry it.
* Overlapping `RequestReturn` calls can return one unit twice (`returns.go:104`),
  and a lost answer of `AdjustStock` restocks twice (`returns.go:158`).
* Two relays that drain at once can leave an old event last
  (`pkg/kafka/outbox.go:120`; `docs/ARCHITECTURE.md:225-226`): `NewestIsLast`.
* A republished row has a new event id and is applied again
  (`notification/internal/consumer/consumer.go:77`; `docs/RUNBOOKS.md:214-218`):
  `EventChannel` promises delivery, not delivery once. Fulfillment, payout and
  review have a unique row that absorbs it; notification has none.
* Two requests that load one cart lose one of the changes (`cart/internal/store/redis.go`),
  and an int32 sum wraps before `clampQty` sees it: `UnitsAccounted`, `LinesLegal`.
* Nothing ever increments a coupon's `used_count`, so `max_uses` never bites
  (`pricing/internal/domain/quote.go:36`); an AMOUNT coupon's currency is not
  compared with the quote's.
* An update read before an archive and written after it revives the product
  (`catalog/internal/store/store.go:54`); products of a suspended shop stay ACTIVE.
* A listing by time alone skips the rest of the rows that share the last
  timestamp of a page (seven stores): `WalkComplete`; the catalog's cursor carries the id.
* Logout is not public at the ingress, so with an expired token it is refused and
  the refresh cookie stays; a stale token on a public route is refused with 401 by the
  services that take optional tokens; admin routes ask for an admin role although
  the services behind them ask for other ones.
* A token that expires during a checkout also fails the compensating Release, and
  the stock stays held until the reservation expires; DecideReturn restocks with
  the decider's token, which needs the inventory role.

## Proofs

Each theorem holds for all values of the constants allowed by the named
assumptions of its module (`InventoryConstants`, `PaymentConstants`,
`KeyConstants`, `SagaConstants`, `ReturnConstants`, `FaultBound`,
`RelayConstants`, `ConsumerConstants`, `BusConstants`, `AfterSaleConstants`, and
`Storefront`'s seven), so for any number of products, reservations, sweepers,
payments, keys, calls, workers, relays, members, records, orders, shops, carriers,
carts, rows, callers and faults. The assumptions say that sets are finite, numbers are
numbers and names differ; beyond that an order is worth something and the amounts
are not negative. `Storefront` assumes of the code's constants that a batch fits in
the buffer and that a legal quantity fits in the integer that carries it (999 in an
int32), that requested quantities are of that integer (`StorefrontCarts`),
that ids are numbers and the default page is not empty (`StorefrontLists`), and
of prices and coupons (`StorefrontPrices`) what lets them in: the catalog
refuses a negative price (`validateMoney`), coupons are only inserted by the pricing
migration, whose percentages are at most 100 (no RPC creates one), and tax rates are
configured as positive basis points.

* **Sums.** `SumFunctionOnSet` of the community modules is a fold whose
  definition chooses an element at every step. `SumsAgree` and `SumsExist` show
  that the recursive equation behind it has one solution on every finite set, by
  taking a smallest set without (`SmallestSet`, from the well-foundedness of strict
  inclusion: an induction written without an operator parameter). `SumRemove`,
  `SumChange`, `SumOfSums`, `SumByGroup` say what a sum does when an element,
  a value or the grouping changes; the other modules need nothing else.
* **ServiceProofs.** *Stock:* `StockInv` strengthens `NoOvercommit` and
  `StockEventsCurrent` by the types and by `RowlessIsBlank` (a product without a
  row has blank levels and no event). `SweepInv` adds `SelectedExist`: what a
  sweeper selected was reserved before, so a no-op `Release` means it is
  resolved. `ResolutionIsFinal` needs the types only. `UnitsInv` is
  `ReservedIsHeld` and `SoldUnitsWereSupplied` beside `StockInv`: a transaction
  moves a reservation from one sum to another (`SumRemove`) and the columns by the
  same units, and the clamp at zero never bites because the reserved column covers
  the reservation and, without a write-off, the shelf covers the column.
  *Keys:* `OneOrderPerKey` is not inductive: `KeysIndInv` says that
  until a completed row is reaped every keyed order and every answer is the one
  the row names, and that calls without a key never hold a claim. `OwnerInv`,
  for `AnswersMatch`, adds that while no claim outlived its time only one call
  works under the row, and the row carries that call's request.
  *Refunds:* `RefundInv` adds `MoneyFollowsStatus` (money is only given back
  on a payment that was authorised, and a full refund sets the status), without
  which `Refund` could not be bounded by `Remaining`. `RefundsAddUp` follows a row
  appended to the table.
* **CheckoutSagaProofs.** What the saga promises about three services depends on
  what every worker still has to do. `IndInv` says of a worker's remaining steps
  (`StepsOK`) what is already true: stock is committed only after an authorisation,
  a void belongs to a cancelled order, and a mark follows its RPC directly or the RPC
  has had its effect; of what a worker read (`ReadOK`), that it may be stale but was
  announced; of the sweepers, the topics and CreateOrder, how far they got. `Grows`
  collects what no step of any service takes back: with it a worker's part of the
  invariant survives every step of the others, and its own steps leave a suffix.
* **ReturnsProofs.** `BaseInv`: a handler past the decision works on one return,
  which is approved, and neither that nor its lines ever change. `KeyInv` (refund
  rows are of approved returns, of their total, one each) and `PaidInv` (a handler
  past the refund, and a restocked line, have a refund behind them) rest on it.
  `QtyInv` and `OnceInv` are about behaviours without overlapping calls, the second
  without failed ones too: one request is being resolved and fits next to the sum on
  file; one handler works on a return, and what it has yet to restock was not
  restocked.
* **EventBusProofs.** `RelayInv`: a relay holds committed rows and counts as sent
  what is on the topic, which gives `OutboxIsFaithful`. `DrainInv`, for
  `NewestStaysLast`, adds the lock on the aggregate (older rows of a key are settled
  before a new one is inserted) and, while no drains overlapped, that rows of a key
  are marked oldest first, that a batch holds the oldest unmarked ones, and that no
  marked or sent row is newer than the last record of its key. `GroupInv`: everything before the record a
  member works on is done, every batch starts no later than the offset after the
  committed one, and what the owner's position covers is done or in its batch. It
  is preserved by every step but a poll with a fetch error, so `NothingSkipped` is
  about behaviours without one; `CommittedIsDone` (findings) shows why.
  `OutagesParkNothing` and `EffectsInOrder` assume a group that holds (a `Retryable`
  predicate, or no dead-letter topic). `BusInv` joins them for `ChannelSafety`, the
  safety half of the refinement: with one relay and no swallowed fetch error, each
  step of the bus is a step of `EventChannel` or changes nothing it sees.
* **AfterSaleProofs.** `FulInv` strengthens `ShipmentHistory` by what a carrier
  still has on its list, which may be older than the shipment's status.
  `MoveExtendsHistory` is the core: a move `CanMove` allows, with the event written
  beside it, turns the history of the old status into one of the new. So the
  transition's own check, and not the sweep's, is what keeps the announcements
  right, whoever asks for it. `PoInv` says of every single row what the property
  says of their sum: a payout exists for exactly the marketplace shops of a handled
  order and is worth that shop's lines, which add up by `SumByGroup`. `RevInv` adds
  that purchases and drafts are of buyers, `NotInv` that a consumer about to record
  SENT has sent, and that an entry of an event and its notification.sent stand or fall
  together. A record parked and handed out again meets the same dedupe as any other,
  so none of the four needs to know of `tries`.

* **StorefrontProofs.** One inductive invariant per part, over that part's variables;
  a *frame* lemma per part (`MediaFrame`, `CatalogFrame`, ...) says which disjuncts of
  `Storefront`'s `Next` touch them, so every other step is a stutter of the part.
  `MediaInv`: an object, the head a confirmation has read and a READY row it has read
  were uploaded, and the declared type never changes; so the row may say something else
  than the object that lies there now, but nothing that was never there.
  `SellerInv`: the log of a shop alternates, and its last entry is the status
  (`Transition` refuses what does not change it); slugs are unique. `CatalogInv`: the
  newest event of a product carries its row but for the shop (the event and the row are
  one transaction, whatever `Update` had read), a product whose events inventory has gone
  past has a stock row or had every event parked (`StockFollows`), and the index is right about every product none of whose
  events is still to come, which a repeated read after a restart keeps true because the
  newest event comes last. `FgaInv`: what a service finds of the relation it
  alone writes, in the store it has or will have again after a restart, was asked for.
  That is not inductive without `StoresCounted` (no more stores than clients that found
  none) and without what the *other* stores hold: a service that created a second store
  has written nothing to the first. `EdgeInv`: a request that is on its way has not
  failed and stands before a call of its route; everything a handler served was served
  on the token it had then. The routes enter by their table (`Router`, `DefaultConfig`,
  `WithOptionalAuthMethods`): each public route calls only RPCs that let visitors
  in, or goes on without the answer.
  `WalkInv`, for `WalksRight`: a row a walk has shown is one its cursor has gone past,
  and a row it has to show and has gone past is one it has shown, or in the listings by
  time one that a page cut off from its last row. A page keeps that because it holds no
  row before which it left one out (`PageIs`), so its last row, where the next page
  starts, comes after all it shows and not after any it leaves (`LastRowIs`). In a search
  a row's place is the number of hits before it, so as long as nothing changes what was
  shown are the places below the offset. Rows inserted or changed during a walk are
  none it has to show.
* **CartAnalyticsProofs.** `CartInv`, for `CartsRight`: as long as a cart is not
  disturbed at most one request has its blob; that blob is the cart, and the cart is what
  its requests made of it one after the other; a cart merged away and not yet deleted
  has given its units to the other one. Quantities stay legal until a sum wraps, for any
  width of the integer. `PageInv`: the quote a page request carries is the one of what it
  read, under its code, or under none once the first quote failed, so that
  totals, coupon and coupon error fit; that a quote adds up, in cents and with the
  rounding of `PercentOff` and `TaxBps`, is `QuotePriceFits`, for any prices and coupons.
  `SinkInv`, for `RowsKeptOnce`: without two flushes of a buffer at once, the rows a flush
  holds are the oldest of the buffer, and what was sent of them is in ClickHouse, so
  deleting as many from the front deletes what was sent. `StopDrains` counts what a
  shutdown has still to do: two batches, then one, then none. `OnceWritten` says that a
  row both buffered and written is in a batch whose send succeeded.

Checked by TLC only:

* liveness and the refinement with its fairness
  (`DueIsResolved`, `RecordsAreClosed`, `PaidIsHonoured`, `ClaimEnds`, `NoLostEvents`,
  `RecordsDone`, `ImplementsChannel`, `ConfirmedIsHonoured`, `EventsLand`), which is out
  of the prover's reach.

Proved and not part of a run: the types, `StockEventsCurrent` (the newest
stock_changed row carries the current levels), `ExpiredHoldsNothing` (an expired
event means nothing is held), `NeverOverRefunded`, `RefundsOnlyAuthorized` and
`KeyNamesOrder` (a completed key names an order that exists).

## Plan

Done: every service and package with state of its own; every safety property of a run
proved.

Next: a saga whose events come through `EventChannel` instead of its own topics, and
`AfterSale` behind it, so that a cancelled order's shipment and payout are in one
model.

## Not modelled

* Generated message code under `gen/`, `pkg/config`, `pkg/telemetry`, `pkg/pgx`,
  `web`, deployment: no state of their own, or no behaviour beyond accessors. Generated
  code is a large share of the repository's lines.
* Search relevance, facets and suggestions; analytics' dashboard queries; the JSON
  the BFF composes for admin and seller pages (the calls behind it are in `Edge`).
* Server start-up, health checks, logging, tracing, metrics, panic recovery.
* At a shutdown `handleFetches` still hands the rest of a fetch to the sink
  (`kafka.go:320-328`), which may write those rows before it stops. `Terminate` stops after
  the record in hand: the records are uncommitted and read again.
* A transaction whose COMMIT is acknowledged late or not at all is a plain failure.
* Roles are checked where a service asks for one, and at the edge; the core modules
  (`Inventory`, `Payment`, `CheckoutSaga`, `Returns`) start behind that check.
* CreateOrder's cart and price steps change no state of the models and are part of
  `CreateReserve`.
