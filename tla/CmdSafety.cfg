SPECIFICATION Spec
CONSTANTS
  v1 = v1
  v2 = v2
  c1 = c1
  c2 = c2
  p1 = p1
  p2 = p2
  VMs = {v1}
  CmdIds = {c1, c2}
  Pings = {p1}
  Kinds = {"plain", "noStdin", "badHeader"}
  Exits = {"zero", "nonzero", "signal"}
  Coarse = FALSE
  MaxFaults = 2
  MaxRestarts = 1
INVARIANTS TypeOK CmdResultExpected CollectedOnce
PROPERTIES ImplementsTable
