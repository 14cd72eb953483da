SPECIFICATION Spec
CONSTANTS
  Orders = {o1}
  Products = {p1}
  Shops = {shopA, shopB}
  Sweepers = {s1}
  Consumers = {c1, c2}
  Callers = {h1}
  Reconcilers = {r1}
  InitialStock = 1
  Attempts = 2
  MaxCopies = 2
  Republished = {"failed"}
  MaxFaults = 1
  SweepLimit = 1
  MaxSweepFaults = 0
  Expiring = {o1}
SYMMETRY Symmetry
INVARIANTS CompensationsRecordedTruthfully MoneyFollowsOrder FulfilledMeansDelivered
CHECK_DEADLOCK FALSE
