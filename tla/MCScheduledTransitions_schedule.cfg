SPECIFICATION FairSpec
CONSTANTS
  State <- MCState
  Fires <- MCFires
  Auto <- MCAuto
  Move <- MCMove
  Initial = "wait"
  Timed = {"wait"}
  Function = {"late"}
  Node = {1, 2}
  Principal = {"alice", "bob"}
  Creator = {"alice"}
  Setup <- MCSetup
  Slot = {1, 2}
CHECK_DEADLOCK FALSE
INVARIANTS TimersExact
PROPERTIES FireFromSource DueResolved
