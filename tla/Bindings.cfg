SPECIFICATION FairSpec
CONSTANTS
  Arguments <- MCArguments
  MaxQueue = 1
  MaxDepth = 2
INVARIANTS TypeOK ToldTruly InControl
PROPERTIES RequestSeen
CHECK_DEADLOCK FALSE
