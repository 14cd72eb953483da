SPECIFICATION Spec
CONSTANTS
  Relays = {r1}
  Keys = {k1, k2}
  Batch = 2
  MaxRows = 2
  Members = {m1, m2}
  Values = {1, 2}
  MaxRecords = 2
  Poison <- FirstIsPoison
  DeadLetter = TRUE
  Attempts = 2
  Retryable = FALSE
  MaxBatch = 2
  MaxFaults = 2
  MaxFetchErrors = 0
PROPERTIES ImplementsChannel
CHECK_DEADLOCK FALSE
