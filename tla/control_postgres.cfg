SPECIFICATION Spec
CONSTANTS
  ServerId = {s1}
  Call = {c1, c2, c3}
  Absent = Absent
  Backend = "Postgres"
  U64Max = 4
  UsizeMax = 0
  Strategies = {"score"}
  Responses <- UpOrDown
  Latencies = {20}
  OverflowChecks = TRUE
  FailureBound = 5
  MaxRestarts = 1
  CreateRequests <- OneAndOpaque
SYMMETRY Symmetry
INVARIANTS BreakerOpens CreatedPersists AuditBacked IInv CounterInv
PROPERTIES CounterFallsOnSuccess DeletionFinal
CHECK_DEADLOCK FALSE
