SPECIFICATION FairSpec
CONSTANTS
  ServerId = {s1, s2}
  Call = {c1, c2}
  Absent = Absent
  Backend = "Postgres"
  U64Max = 4
  UsizeMax = 0
  Strategies = {"score"}
  Responses <- SteadyLlm
  Latencies = {20}
  OverflowChecks = FALSE
  FailureBound = 2
  MaxRestarts = 1
  CreateRequests <- OpenAndOthers
PROPERTIES EventuallyJudged EventuallyCandidate
CHECK_DEADLOCK FALSE
