SPECIFICATION Spec
CONSTANTS
  Orders = {o1}
  Products = {p1}
  Shops = {}
  Sweepers = {s1}
  Consumers = {c1}
  Callers = {h1}
  Reconcilers = {}
  InitialStock = 1
  Attempts = 2
  MaxCopies = 1
  Republished = {}
  MaxFaults = 0
  SweepLimit = 1
  MaxSweepFaults = 0
  Expiring = {}
PROPERTIES CancelledIsFinal
CHECK_DEADLOCK FALSE
