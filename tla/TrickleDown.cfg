SPECIFICATION FairSpec
CONSTANTS
  Arguments <- MCArguments
  MaxQueue = 1
  MaxDepth = 1
PROPERTIES TrickleDownReturned
CHECK_DEADLOCK FALSE
