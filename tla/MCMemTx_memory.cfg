SPECIFICATION MCSpec
CONSTANTS
  Tx = {1, 2, 3}
  Entity = {"e1", "e2"}
  Val = {"plain", "a", "half"}
  Claim = {"a"}
  ClaimsOf <- MCClaimsOf
  PartialVal = {"half"}
  ScheduledFires = TRUE
  Task = {"k1"}
  None = None
  ClockReadings = {1, 3}
  SubmitTimeTTL = 1
  MaxCalls = 5
  MaxSavepoints = 2
  Goroutine = {1, 2, 3}
  OpMu = {"op1", "op2"}
  NoOne = 0
CHECK_DEADLOCK FALSE
INVARIANTS RepeatableReads VersionsFound FirstCommitterWins UniqueKeys AllOrNothing CallsReturn
PROPERTIES SavepointRestores ImplementsSI
