SPECIFICATION Spec
CONSTANTS
  Owner = owner
  Callback = {c1}
  OwnerModes = {"SYNC"}
  CallbackModes = {"SYNC", "CBD"}
  MaxRounds = 1
  MaxNested = 1
  MaxTx = 3
  None = None
CHECK_DEADLOCK FALSE
INVARIANTS JoinedNeverCommits
