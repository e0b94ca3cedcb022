SPECIFICATION FairSpec
CONSTANTS
  NoJob = NoJob
  Backends = {"memory", "sqlite", "postgres"}
  Node = {n1, n2}
  Home = n1
  Job = {1, 2}
  Tenant = {t}
  TenantOf <- OneTenant
  Matches = 2
  Workers = 1
  QueueLen = 1
  StaleClaimBatch = 100
  maxPerTenant = 1
  maxAttempts = 2
  PromptSweep = TRUE
  MaxEpoch = 3
  MaxEvents = 3
CHECK_DEADLOCK FALSE
INVARIANTS ExecutorsAccounted ResultsComplete
PROPERTIES JobsKept JobsSettle
