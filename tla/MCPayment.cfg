SPECIFICATION PaymentSpec
CONSTANTS
  Payments = {pay1, pay2}
  RefundKeys = {k1, k2}
  NoKey = NoKey
  MaxAmount = 3
SYMMETRY Symmetry
INVARIANTS RefundedMatchesRows KeyRefundsOnce EventsMatchStatus
CHECK_DEADLOCK FALSE
