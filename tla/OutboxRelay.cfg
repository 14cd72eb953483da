SPECIFICATION OutboxSpec
CONSTANTS
  Relays = {r1, r2}
  Keys = {k1, k2}
  Batch = 2
  MaxRows = 3
  MaxFaults = 1
INVARIANTS TopicMatchesTable NewestIsLast
PROPERTIES NoLostEvents
CHECK_DEADLOCK FALSE
