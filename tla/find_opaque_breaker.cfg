SPECIFICATION Spec
CONSTANTS
  ServerId = {s1}
  Call = {c1, c2}
  Absent = Absent
  Backend = "InMemory"
  U64Max = 4
  UsizeMax = 1
  Strategies = {"score", "round_robin"}
  Responses <- AnyResponses
  Latencies = {20}
  OverflowChecks = FALSE
  FailureBound = 4
  MaxRestarts = 0
  CreateRequests <- OpaqueEndpoint
PROPERTIES BreakerSpec
CHECK_DEADLOCK FALSE
