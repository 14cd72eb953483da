SPECIFICATION KeysSpec
CONSTANTS
  Calls = {a1, a2, a3, a4}
  Requests = {q1, q2}
  ViaRPC = {a4}
  NoOrder = NoOrder
INVARIANTS OneOrderPerKey RetryGetsOriginal AnswerMatchesRequest
PROPERTIES ClaimEnds
CHECK_DEADLOCK FALSE
