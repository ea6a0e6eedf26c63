SPECIFICATION FairSpec
CONSTANTS
  MaxTries = 3
  MaxMoves = 2
  MaxUse = 2
  Cmds <- MCCmds
INVARIANTS TypeOK UsageCharged RetryCost
PROPERTIES TriesFail
CHECK_DEADLOCK FALSE
