SPECIFICATION FairSpec
CONSTANTS
  v1 = v1
  v2 = v2
  c1 = c1
  c2 = c2
  p1 = p1
  p2 = p2
  VMs = {v1, v2}
  CmdIds = {}
  Pings = {p1, p2}
  Kinds = {}
  Exits = {}
  Coarse = TRUE
  MaxFaults = 0
  MaxRestarts = 1
INVARIANTS PingEntryTimed PongExpected
PROPERTIES SettledOnce PongFromTarget PingSettles
