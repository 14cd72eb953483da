SPECIFICATION Spec
CONSTANTS
  Orders = {o1, o2}
  Products = {p1}
  Shops = {}
  Sweepers = {s1}
  Consumers = {c1}
  Callers = {}
  Reconcilers = {r1}
  InitialStock = 2
  Attempts = 2
  MaxCopies = 1
  Republished = {}
  MaxFaults = 2
  SweepLimit = 1
  MaxSweepFaults = 1
  Expiring = {o2}
PROPERTIES RecordsAreClosed PaidIsHonoured
CHECK_DEADLOCK FALSE
