SPECIFICATION Spec
CONSTANTS
  Deployments <- Parts
  Principals <- People
  RolesOf <- Roles
  FgaClients = {"seller", "catalog", "order"}
  Owners = {"ann"}
  ShopNames <- OneName
  Slugify <- SlugOf
  MaxShopEvents = 3
  Listed = {"p1"}
  FirstParty = "first-party"
  Editors = {"e1", "e2"}
  MaxProductEvents = 3
  NoDoc = NoDoc
  StockAttempts = 2
  SharedOrders = {"o1", "o2"}
  OrderOwner <- OrdersOfAnn
  Assets = {"k1"}
  ContentTypes = {"image/png"}
  OtherTypes = {"", "text/html"}
  MaxUploadBytes = 2
  Sizes = {0, 1, 2, 3}
  Confirmers = {"c1", "c2"}
  MaxReady = 2
  MaxPuts = 2
  Carts = {"guest", "user"}
  CartProducts = {"p1", "p2"}
  Half = 8
  MaxLineQuantity = 3
  Quantities <- SomeQuantities
  CartRequests = {"r1", "r2"}
  MaxCartOps = 3
  TaxRates <- NoRates
  DefaultTax = 825
  Coupons <- SomeCoupons
  Pages = {"v1"}
  PageCart = "user"
  PriceSet <- SomePrices
  MaxEdits = 1
  RowIDs = {1, 2, 3}
  Subjects = {"ann", "op"}
  PageSizes = {0, 1}
  DefaultPage = 2
  MaxPage = 2
  MaxOffset = 2
  MaxClock = 1
  MaxChanges = 2
  Visitors = {"ann", "op"}
  Life = 1
  MaxNow = 3
  MaxKeys = 2
  MaxCalls = 1
  Calls = {"a"}
  BatchSize = 1
  MaxBuffer = 2
  Loads <- ThreeEventsOrTwoStreams
  MaxBeacon = 1
  MaxSinkFaults = 1
  MaxFaults = 1
INVARIANTS DelegationRight AnnouncedTruthfully ReadyWasSeen CartsRight WalksRight CallsRight SinkKeepsRows
PROPERTY EventsLand
CHECK_DEADLOCK FALSE
