SPECIFICATION FairSpec
CONSTANTS
  Tx = {"t1", "t2", "t3"}
  Direct = {"d1"}
  Entity = {"e1", "e2"}
  Val = {"k", "part"}
  Claim = {"k"}
  ClaimsOf <- MCClaimsOf
  PartialVal = {"part"}
  Task = {"timer"}
  None = None
  ClockReadings = {1, 3}
  SubmitTimeTTL = 9
  Load <- MCLoad
CHECK_DEADLOCK FALSE
INVARIANTS StoreConsistent
PROPERTIES ImplementsSI CommitReturns
