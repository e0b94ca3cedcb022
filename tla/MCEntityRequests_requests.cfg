SPECIFICATION RequestsSpec
CONSTANTS
  Entity = {1, 2, 3}
  Loads <- MCLoads
  MaxClock = 2
  MaxOps = 1
  Id <- MCId
  SLoads <- MCSLoads
  MaxCycles = 3
CHECK_DEADLOCK FALSE
INVARIANTS QueriesExact ReportTrue UpdatesChain OnlySelected
PROPERTIES ReadsValidated
