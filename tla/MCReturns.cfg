SPECIFICATION Spec
CONSTANTS
  lamp = lamp
  mug = mug
  Products = {lamp, mug}
  Ordered <- MCOrdered
  UnitPrice <- MCPrice
  Total = 4
  Returns = {r1, r2}
  Deciders = {d1, d2}
  NoKey = NoKey
  MaxFaults = 1
SYMMETRY Symmetry
INVARIANTS RefundsMatchReturns RestockedAfterRefund
CHECK_DEADLOCK FALSE
