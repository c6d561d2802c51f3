SPECIFICATION Spec
CONSTANTS
  ServerId = {s1, s2}
  Call = {c1, c2, c3}
  Absent = Absent
  Backend = "InMemory"
  U64Max = 3
  UsizeMax = 1
  Strategies = {"score", "round_robin"}
  Responses <- AnyResponses
  Latencies = {20}
  OverflowChecks = FALSE
  FailureBound = 3
  MaxRestarts = 1
  CreateRequests <- OneEndpoint
SYMMETRY Symmetry
INVARIANTS TypeOK SnapshotCurrent AnsweredAudited HistoryTraceable
PROPERTIES ConfigStable BreakerSpec
CHECK_DEADLOCK FALSE
