SPECIFICATION FairSpec
CONSTANTS
  Owner = owner
  Callback = {c1, c2}
  OwnerModes = {"SYNC", "ASYNC_NEW_TX", "CBD", "CBD_NEW"}
  CallbackModes = {"ASYNC_NEW_TX", "CBD"}
  MaxRounds = 1
  MaxNested = 1
  MaxTx = 3
  None = None
CHECK_DEADLOCK FALSE
INVARIANTS NothingLeft GateHeldByCaller AckedWritesKept FailedAsyncUndone
PROPERTIES EveryCallReturns
