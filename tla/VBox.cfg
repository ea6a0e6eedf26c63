SPECIFICATION Spec
CONSTANTS
  t1 = t1
  t2 = t2
  t3 = t3
  v1 = v1
  Threads <- MCThreads
  VMs = {v1}
SYMMETRY Symmetry
INVARIANTS TypeOK SessionsReleased Created LeftoverExplained
PROPERTIES CompleteKept
