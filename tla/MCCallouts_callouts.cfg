SPECIFICATION FairSpec
CHECK_DEADLOCK FALSE
CONSTANTS
  None = None
  s1 = s1
  s2 = s2
  c1 = c1
  c2 = c2
  Nodes <- MCNodes
  Streams <- MCStreams
  Callouts <- MCCallouts
  Setup <- MCSetup
INVARIANTS CalloutsExact
PROPERTIES CalloutsSettle
