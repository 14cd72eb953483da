SPECIFICATION Spec
CONSTANTS
  Products = {p1}
  Reservations = {r1, r2}
  Sweepers = {s1, s2}
  MaxQty = 2
  Deltas <- MCDeltas
  DefaultOnHand = 1
  SweepLimit = 2
  MaxStock = 2
  MaxSweepFaults = 1
INVARIANTS ReservedIsHeld NoOvercommit SoldUnitsWereSupplied
PROPERTIES ResolvedIsFinal DueIsResolved
CHECK_DEADLOCK FALSE
