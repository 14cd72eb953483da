SPECIFICATION Spec
CONSTANTS
  Orders <- OneOrder
  Shops <- OneShop
  FirstParty = "first-party"
  Lines <- TwoLinesOfOneShop
  Principals <- BuyerAndStaff
  RolesOf <- StaffRoles
  OwnerOf <- PlacedByBuyer
  Ratings = {0, 1, 5, 6}
  Carriers = {"carrier"}
  Settlers = {"settler"}
  Mailers = {"m1"}
  MaxCopies = 2
  MaxModerations = 3
  MaxMails = 2
  SendMayFail = TRUE
  Watched = {"shipment_delivered"}
  Attempts = 2
  MaxFaults = 2
  Deployments <- OneOrTwoServices
INVARIANTS ShipmentHistory ShopsPaidTheirLines ReviewsRight NotedTruthfully
PROPERTY ConfirmedIsHonoured
CHECK_DEADLOCK FALSE
