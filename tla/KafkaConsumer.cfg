SPECIFICATION ConsumerSpec
CONSTANTS
  Members = {m1, m2}
  Values = {good, bad}
  Poison = {bad}
  DeadLetter = TRUE
  Attempts = 2
  Retryable = TRUE
  MaxBatch = 2
  MaxRecords = 2
  MaxFaults = 3
  MaxFetchErrors = 1
INVARIANTS NoneSkipped AppliedInOrder OnlyPoisonParked
PROPERTIES RecordsDone
CHECK_DEADLOCK FALSE
