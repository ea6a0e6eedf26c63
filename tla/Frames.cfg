SPECIFICATION Spec
CONSTANTS
  MaxFrames = 4
  MaxDrops = 2
INVARIANTS TypeOK LossExplained
PROPERTIES ImplementsChannel
CHECK_DEADLOCK FALSE
